---------------------------- MODULE ChainProofs -----------------------------
(***************************************************************************)
(* What module Chain guarantees for every block tree, every number of      *)
(* waiting jobs, with and without pruning, for full and for SPV nodes,     *)
(* whatever is invalid and whenever the process dies or a batch fails,     *)
(* except a batch in the middle of a reset (the run chain_undo_assertion   *)
(* shows what that does).                                                  *)
(*                                                                         *)
(* The inductive invariant IInv adds to the properties themselves why they *)
(* are kept: every main-chain block spends its parent's coins correctly    *)
(* (so that its undo record takes exactly its effect back), a job never    *)
(* connects a block the database has, and a reset only walks down towards  *)
(* a block of the main chain.                                              *)
(***************************************************************************)
EXTENDS Chain, FiniteSetTheorems, SequenceTheorems, WellFoundedInduction, TLAPS

-----------------------------------------------------------------------------
(* The block tree: Path[b] is the one path from the genesis block to b.    *)

(* A nonempty set of natural numbers has a least element.                  *)
LEMMA LeastNumber ==
  ASSUME NEW S, S \subseteq Nat, S # {}
  PROVE  \E m \in S : \A n \in S : m <= n
<1> DEFINE R == OpToRel(<, Nat)
<1>1. IsWellFoundedOn(R, Nat)
  BY NatLessThanWellFounded
<1>2. \A x, y \in Nat : <<y, x>> \in R <=> y < x
  BY DEF OpToRel
<1> HIDE DEF R
<1>3. PICK m \in S : \A y \in S : ~(<<y, m>> \in R)
  BY <1>1, WFMin
<1>4. ASSUME NEW n \in S PROVE m <= n
  <2>1. m \in Nat /\ n \in Nat
    OBVIOUS
  <2>2. ~(n < m)
    BY <1>2, <1>3, <2>1
  <2> QED
    BY <2>1, <2>2
<1> QED
  BY <1>4

(* A nonempty set of blocks has a lowest element.                          *)
LEMMA LowestBlock ==
  ASSUME NEW S, S \subseteq Blocks, S # {}
  PROVE  \E b \in S : \A c \in S : Height[b] <= Height[c]
<1> DEFINE H == {Height[b] : b \in S}
<1>1. H \subseteq Nat /\ H # {}
  BY HeightAssumption
<1>2. PICK m \in H : \A n \in H : m <= n
  BY <1>1, LeastNumber
<1> QED
  BY <1>2

(* A block and the genesis block are on the block's path; every other      *)
(* block of the path is lower and has less work.                           *)
LEMMA PathOrder ==
  ASSUME NEW b \in Blocks
  PROVE  /\ b \in Path[b]
         /\ Genesis \in Path[b]
         /\ \A a \in Path[b] : a # b => Height[a] < Height[b] /\ Work[a] < Work[b]
<1> DEFINE Ordered(x) ==
      /\ x \in Path[x]
      /\ Genesis \in Path[x]
      /\ \A a \in Path[x] : a # x => Height[a] < Height[x] /\ Work[a] < Work[x]
<1> DEFINE Bad == {x \in Blocks : ~Ordered(x)}
<1>1. SUFFICES ASSUME Bad # {} PROVE FALSE
  OBVIOUS
<1>2. PICK x \in Bad : \A y \in Bad : Height[x] <= Height[y]
  BY <1>1, LowestBlock
<1>3. CASE x = Genesis
  BY <1>2, <1>3, PathAssumption
<1>4. CASE x # Genesis
  <2>1. x \in Linked /\ Parent[x] \in Blocks
    BY <1>4, TreeAssumption DEF Linked
  <2>2. Height[x] = Height[Parent[x]] + 1 /\ Work[Parent[x]] < Work[x]
        /\ Path[x] = Path[Parent[x]] \cup {x}
    BY <2>1, HeightAssumption, PathAssumption
  <2>3. Height[x] \in Nat /\ Height[Parent[x]] \in Nat
    BY <2>1, HeightAssumption DEF Linked
  <2>4. Ordered(Parent[x])
    BY <1>2, <2>1, <2>2, <2>3
  <2>5. ASSUME NEW a \in Path[x], a # x PROVE Height[a] < Height[x] /\ Work[a] < Work[x]
    <3>1. a \in Path[Parent[x]] /\ a \in Blocks
      BY <2>1, <2>2, <2>5, PathAssumption
    <3>2. Work[a] \in Nat /\ Work[x] \in Nat /\ Work[Parent[x]] \in Nat /\ Height[a] \in Nat
      BY <2>1, <3>1, HeightAssumption DEF Linked
    <3> QED
      BY <2>2, <2>3, <2>4, <3>1, <3>2
  <2> QED
    BY <1>2, <2>2, <2>4, <2>5
<1> QED
  BY <1>3, <1>4

(* A path contains the paths of its blocks.                                *)
LEMMA PathIncludes ==
  ASSUME NEW b \in Blocks, NEW a \in Path[b]
  PROVE  a \in Blocks /\ Path[a] \subseteq Path[b]
<1> DEFINE Bad == {x \in Blocks : \E y \in Path[x] : ~(Path[y] \subseteq Path[x])}
<1>1. SUFFICES ASSUME Bad # {} PROVE FALSE
  BY PathAssumption
<1>2. PICK x \in Bad : \A y \in Bad : Height[x] <= Height[y]
  BY <1>1, LowestBlock
<1>3. CASE x = Genesis
  BY <1>2, <1>3, PathAssumption
<1>4. CASE x # Genesis
  <2>1. x \in Linked /\ Parent[x] \in Blocks
    BY <1>4, TreeAssumption DEF Linked
  <2>2. Height[x] = Height[Parent[x]] + 1 /\ Path[x] = Path[Parent[x]] \cup {x}
    BY <2>1, HeightAssumption, PathAssumption
  <2>3. Parent[x] \notin Bad
    BY <1>2, <2>1, <2>2, HeightAssumption
  <2> QED
    BY <1>2, <2>1, <2>2, <2>3
<1> QED
  BY <1>3, <1>4

(* Every block of a path but the first has its parent there.               *)
LEMMA PathParent ==
  ASSUME NEW b \in Blocks, NEW a \in Path[b], a # Genesis
  PROVE  a \in Linked /\ Parent[a] \in Path[b]
<1>1. a \in Blocks /\ Path[a] \subseteq Path[b]
  BY PathIncludes
<1>2. a \in Linked /\ Parent[a] \in Blocks /\ Parent[a] \in Path[Parent[a]]
  BY <1>1, TreeAssumption, PathOrder DEF Linked
<1> QED
  BY <1>1, <1>2, PathAssumption

(* ... and every block but the last a child.                               *)
LEMMA PathChild ==
  ASSUME NEW b \in Blocks, NEW a \in Path[b], a # b
  PROVE  \E c \in Path[b] : c \in Linked /\ Parent[c] = a
<1> DEFINE Over == {x \in Path[b] : Height[x] > Height[a] /\ a \in Path[x]}
<1>1. a \in Blocks /\ Height[a] < Height[b]
  BY PathIncludes, PathOrder
<1>2. b \in Over
  BY <1>1, PathOrder
<1>3. Over \subseteq Blocks
  BY PathAssumption
<1>4. PICK c \in Over : \A y \in Over : Height[c] <= Height[y]
  <2> HIDE DEF Over
  <2> QED
    BY <1>2, <1>3, LowestBlock
<1>5. c # Genesis
  BY <1>1, <1>3, <1>4, HeightAssumption
<1>6. c \in Linked /\ Parent[c] \in Path[b] /\ Parent[c] \in Blocks
  BY <1>3, <1>4, <1>5, PathParent, PathAssumption
<1>7. a \in Path[Parent[c]] /\ Height[c] = Height[Parent[c]] + 1
  BY <1>4, <1>6, PathAssumption, HeightAssumption
<1>8. Height[Parent[c]] \in Nat /\ Height[c] \in Nat /\ Height[a] \in Nat
  BY <1>1, <1>3, <1>6, HeightAssumption
<1>9. ~(Height[Parent[c]] > Height[a])
  BY <1>4, <1>6, <1>7, <1>8
<1>10. Parent[c] = a
  BY <1>6, <1>7, <1>8, <1>9, PathOrder
<1> QED
  BY <1>4, <1>6, <1>10

(* A path has one block of each height.                                    *)
LEMMA PathLevels ==
  ASSUME NEW b \in Blocks, NEW a \in Path[b], NEW c \in Path[b], Height[a] = Height[c]
  PROVE  a = c
<1> DEFINE Bad == {x \in Blocks : \E y, z \in Path[x] : y # z /\ Height[y] = Height[z]}
<1>1. SUFFICES ASSUME Bad # {} PROVE FALSE
  OBVIOUS
<1>2. PICK x \in Bad : \A y \in Bad : Height[x] <= Height[y]
  BY <1>1, LowestBlock
<1>3. PICK y, z \in Path[x] : y # z /\ Height[y] = Height[z]
  BY <1>2
<1>4. y # x /\ z # x
  BY <1>2, <1>3, PathOrder, PathIncludes, HeightAssumption
<1>5. x # Genesis
  BY <1>3, <1>4, PathAssumption
<1>6. x \in Linked /\ Parent[x] \in Blocks
  BY <1>5, TreeAssumption DEF Linked
<1>7. y \in Path[Parent[x]] /\ z \in Path[Parent[x]] /\ Height[x] = Height[Parent[x]] + 1
  BY <1>3, <1>4, <1>6, PathAssumption, HeightAssumption
<1>8. Height[x] \in Nat /\ Height[Parent[x]] \in Nat
  BY <1>6, HeightAssumption DEF Linked
<1>9. Parent[x] \in Bad
  BY <1>3, <1>6, <1>7
<1> QED
  BY <1>2, <1>7, <1>8, <1>9

-----------------------------------------------------------------------------
ResetsCommit == "reset batch" \notin Faults

-----------------------------------------------------------------------------
PathSpends ==
  ~Spv => \A b \in Path[best] : b # Genesis => SpendsCorrectly(b, UtxoOf[Parent[b]])

BodiesPresent == ~Spv /\ ~Prune => entries \subseteq stored

(* The part of the invariant that is about the database alone.             *)
DiskInv ==
  /\ IndicesAgree
  /\ UndoIsExact
  /\ BodiesPresent
  /\ PathSpends
  /\ CoinsAreReplay

(* No orphan is recorded, and no two wait for the same parent.             *)
OrphansApart ==
  /\ \A o \in orphans : o.block \notin entries
  /\ \A o, p \in orphans : Parent[o.block] = Parent[p.block] => o = p

JobWellFormed ==
  /\ job.op = "connect" => job.block \in Linked /\ job.block \notin entries \cup OrphanBlocks
  /\ job.op = "resetting" => job.block \in Path[best] /\ ~Prune

IInv ==
  /\ TypeOK
  /\ DiskInv
  /\ TipIsDurable
  /\ OrphansApart
  /\ JobWellFormed

-----------------------------------------------------------------------------
(* The parent of a block, its path and its heights.                        *)
LEMMA LinkedBlock ==
  ASSUME NEW b \in Linked
  PROVE  /\ b \in Blocks /\ b # Genesis /\ Parent[b] \in Blocks
         /\ Path[b] = Path[Parent[b]] \cup {b}
         /\ Height[b] = Height[Parent[b]] + 1
         /\ Height[b] \in Nat /\ Height[Parent[b]] \in Nat
         /\ Height[b] \in Heights
         /\ b \notin Path[Parent[b]]
<1>1. b \in Blocks /\ b # Genesis /\ Parent[b] \in Blocks
  BY TreeAssumption DEF Linked
<1>2. Path[b] = Path[Parent[b]] \cup {b} /\ Height[b] = Height[Parent[b]] + 1
  BY PathAssumption, HeightAssumption
<1>3. Height[b] \in Nat /\ Height[Parent[b]] \in Nat
  BY <1>1, HeightAssumption
<1>4. b \notin Path[Parent[b]]
  BY <1>1, <1>2, <1>3, PathOrder
<1> QED
  BY <1>1, <1>2, <1>3, <1>4 DEF Heights

(* A block whose parent is a block is not the genesis block, and no block  *)
(* of a path is a child of its last block.                                 *)
LEMMA NoChildOnPath ==
  ASSUME NEW b \in Blocks, NEW c \in Path[b], Parent[c] = b
  PROVE  FALSE
<1>1. c \in Blocks
  BY PathAssumption
<1>2. c \in Linked
  BY <1>1, TreeAssumption DEF Linked
<1> QED
  BY <1>1, <1>2, LinkedBlock, PathOrder

(* A connected block's outputs and inputs cancel when it is taken back.    *)
LEMMA UndoRestores ==
  ASSUME NEW b \in Linked, SpendsCorrectly(b, UtxoOf[Parent[b]])
  PROVE  (UtxoOf[b] \cup Spends[b]) \ Creates[b] = UtxoOf[Parent[b]]
<1>1. UtxoOf[b] = (UtxoOf[Parent[b]] \cup Creates[b]) \ Spends[b]
  BY CoinAssumption
<1> QED
  BY <1>1 DEF SpendsCorrectly

-----------------------------------------------------------------------------
(* Connecting a child of the tip extends the indices by that child.        *)
LEMMA IndexKeeps ==
  ASSUME TypeOK, IndicesAgree,
         NEW b \in Linked, Parent[b] = best,
         Index(b), best' = b,
         entries \cup {b} \subseteq entries'
  PROVE  IndicesAgree'
<1>1. best \in Blocks /\ Path[b] = Path[best] \cup {b}
  BY LinkedBlock
<1>2. Path[b] \subseteq entries'
  BY <1>1 DEF IndicesAgree
<1>3. ASSUME NEW h \in Heights, NEW x \in Blocks
      PROVE  mainAt'[h] = x <=> Height[x] = h /\ x \in Path[b]
  <2>1. mainAt'[h] = IF h = Height[b] THEN b ELSE mainAt[h]
    BY LinkedBlock DEF Index, TypeOK
  <2>2. CASE h = Height[b]
    BY <2>1, <2>2, <1>1, PathLevels, PathOrder, LinkedBlock
  <2>3. CASE h # Height[b]
    BY <2>1, <2>3, <1>1 DEF IndicesAgree
  <2> QED
    BY <2>2, <2>3
<1>4. ASSUME NEW x \in Blocks, NEW c \in Blocks
      PROVE  next'[x] = c <=> Parent[c] = x /\ c \in Path[b]
  <2>1. next'[x] = IF x = best THEN b ELSE next[x]
    BY <1>1 DEF Index, TypeOK
  <2>2. CASE x = best
    BY <2>1, <2>2, <1>1, NoChildOnPath
  <2>3. CASE x # best
    BY <2>1, <2>3, <1>1 DEF IndicesAgree
  <2> QED
    BY <2>2, <2>3
<1> QED
  BY <1>2, <1>3, <1>4 DEF IndicesAgree

(* Disconnecting the tip takes it out of the indices.                      *)
LEMMA UnindexKeeps ==
  ASSUME TypeOK, IndicesAgree,
         best # Genesis,
         Unindex(best), best' = Parent[best],
         entries \ {best} \subseteq entries'
  PROVE  IndicesAgree'
<1>1. best \in Linked
  BY DEF TypeOK, Linked
<1> DEFINE p == Parent[best]
<1>2. p \in Blocks /\ Path[best] = Path[p] \cup {best} /\ best \notin Path[p]
  BY <1>1, LinkedBlock
<1>3. Path[p] \subseteq entries'
  BY <1>2 DEF IndicesAgree
<1>4. ASSUME NEW h \in Heights, NEW x \in Blocks
      PROVE  mainAt'[h] = x <=> Height[x] = h /\ x \in Path[p]
  <2>1. mainAt'[h] = IF h = Height[best] THEN None ELSE mainAt[h]
    BY <1>1, LinkedBlock DEF Unindex, TypeOK
  <2>2. CASE h = Height[best]
    <3>1. mainAt'[h] # x
      BY <2>1, <2>2, TreeAssumption
    <3>2. ~(Height[x] = h /\ x \in Path[p])
      BY <2>2, <1>1, <1>2, PathLevels, PathOrder, LinkedBlock
    <3> QED
      BY <3>1, <3>2
  <2>3. CASE h # Height[best]
    BY <2>1, <2>3, <1>2 DEF IndicesAgree
  <2> QED
    BY <2>2, <2>3
<1>5. ASSUME NEW x \in Blocks, NEW c \in Blocks
      PROVE  next'[x] = c <=> Parent[c] = x /\ c \in Path[p]
  <2>1. next'[x] = IF x = p THEN None ELSE next[x]
    BY <1>2 DEF Unindex, TypeOK
  <2>2. CASE x = p
    BY <2>1, <2>2, <1>2, NoChildOnPath, TreeAssumption
  <2>3. CASE x # p
    BY <2>1, <2>3, <1>2 DEF IndicesAgree
  <2> QED
    BY <2>2, <2>3
<1> QED
  BY <1>3, <1>4, <1>5 DEF IndicesAgree

(* Connecting a verified child of the tip keeps the database consistent.   *)
LEMMA ConnectKeeps ==
  ASSUME TypeOK, DiskInv,
         NEW b \in Linked, NEW m \in BOOLEAN,
         Parent[b] = best, VerifiedInContext(b, m), ConnectBlock(b),
         entries' = entries \cup {b},
         ~Spv => stored' = (stored \cup {b}) \ Pruned(b)
  PROVE  DiskInv'
<1>1. best \in Blocks /\ b \in Blocks /\ b # Genesis /\ b \notin Path[best]
      /\ Path[b] = Path[best] \cup {b} /\ Path[best] \subseteq Blocks
  BY LinkedBlock, PathAssumption
<1>2. best' = b /\ Index(b)
  BY DEF ConnectBlock
<1>3. IndicesAgree'
  BY <1>2, IndexKeeps DEF DiskInv
<1>4. b \notin Pruned(b)
  <2>1. mainAt[Height[b]] # b
    BY <1>1, LinkedBlock DEF DiskInv, IndicesAgree
  <2> QED
    BY <2>1 DEF Pruned
<1>5. CASE Spv
  <2>1. UndoIsExact'
    BY <1>5, <1>1, <1>2 DEF DiskInv, UndoIsExact, ConnectBlock
  <2> QED
    BY <1>3, <1>5, <2>1 DEF DiskInv, BodiesPresent, PathSpends, CoinsAreReplay
<1>6. CASE ~Spv
  <2>1. /\ utxo' = (utxo \cup Creates[b]) \ Spends[b]
        /\ undo' = [x \in Blocks |-> IF x = b THEN Spends[b]
                                     ELSE IF x \in Pruned(b) THEN {} ELSE undo[x]]
        /\ stored' = (stored \cup {b}) \ Pruned(b)
    BY <1>6 DEF ConnectBlock, SpendCoins
  <2>2. utxo = UtxoOf[best]
    BY <1>6 DEF DiskInv, CoinsAreReplay
  <2>3. CoinsAreReplay'
    BY <1>2, <2>1, <2>2, CoinAssumption DEF CoinsAreReplay
  <2>4. PathSpends'
    BY <1>1, <1>2, <1>6, <2>2 DEF PathSpends, DiskInv, VerifiedInContext
  <2>5. BodiesPresent'
    BY <1>1, <2>1 DEF BodiesPresent, DiskInv, Pruned
  <2>6. ASSUME NEW x \in Blocks
        PROVE  undo'[x] = IF x \in Path[b] \cap stored' /\ ~Spv THEN Spends[x] ELSE {}
    <3>1. CASE x = b
      BY <3>1, <1>1, <1>4, <1>6, <2>1
    <3>2. CASE x # b /\ x \in Pruned(b)
      BY <3>2, <2>1
    <3>3. CASE x # b /\ x \notin Pruned(b)
      BY <3>3, <1>1, <2>1 DEF DiskInv, UndoIsExact
    <3> QED
      BY <3>1, <3>2, <3>3
  <2>7. UndoIsExact'
    BY <1>2, <2>6 DEF UndoIsExact
  <2> QED
    BY <1>3, <2>3, <2>4, <2>5, <2>7 DEF DiskInv
<1> QED
  BY <1>5, <1>6

(* Taking the tip off, with its entry and body or without, keeps it too.   *)
LEMMA DisconnectKeeps ==
  ASSUME TypeOK, DiskInv,
         best # Genesis, CanUndo(best), DisconnectBlock(best),
         \/ entries' = entries /\ stored' = stored
         \/ entries' = entries \ {best} /\ stored' = stored \ {best}
  PROVE  DiskInv'
<1> DEFINE p == Parent[best]
<1>1. best \in Linked /\ best \in Blocks
  BY DEF TypeOK, Linked
<1>2. p \in Blocks /\ best \notin Path[p] /\ Path[best] = Path[p] \cup {best}
      /\ Path[best] \subseteq Blocks
  BY <1>1, LinkedBlock, PathAssumption
<1>3. best' = p /\ Unindex(best)
  BY DEF DisconnectBlock
<1>4. IndicesAgree'
  BY <1>3, UnindexKeeps DEF DiskInv
<1>5. BodiesPresent'
  BY DEF BodiesPresent, DiskInv
<1>6. PathSpends'
  BY <1>2, <1>3 DEF PathSpends, DiskInv
<1>7. CASE Spv
  <2>1. UndoIsExact'
    BY <1>7, <1>3 DEF DiskInv, UndoIsExact, DisconnectBlock
  <2> QED
    BY <1>4, <1>5, <1>6, <1>7, <2>1 DEF DiskInv, CoinsAreReplay
<1>8. CASE ~Spv
  <2>1. /\ utxo' = (utxo \cup undo[best]) \ Creates[best]
        /\ undo' = [undo EXCEPT ![best] = {}]
    BY <1>8 DEF DisconnectBlock, RestoreCoins
  <2>2. utxo = UtxoOf[best] /\ undo[best] = Spends[best]
    BY <1>8 DEF DiskInv, CoinsAreReplay, CanUndo
  <2>3. SpendsCorrectly(best, UtxoOf[p])
    BY <1>2, <1>8 DEF DiskInv, PathSpends
  <2>4. CoinsAreReplay'
    BY <1>1, <1>3, <2>1, <2>2, <2>3, UndoRestores DEF CoinsAreReplay
  <2>5. ASSUME NEW x \in Blocks
        PROVE  undo'[x] = IF x \in Path[p] \cap stored' /\ ~Spv THEN Spends[x] ELSE {}
    <3>1. undo'[x] = IF x = best THEN {} ELSE undo[x]
      BY <2>1 DEF TypeOK
    <3>2. CASE x = best
      BY <3>1, <3>2, <1>2
    <3>3. CASE x # best
      BY <3>1, <3>3, <1>2 DEF DiskInv, UndoIsExact
    <3> QED
      BY <3>2, <3>3
  <2>6. UndoIsExact'
    BY <1>3, <2>5 DEF UndoIsExact
  <2> QED
    BY <1>4, <1>5, <1>6, <2>4, <2>6 DEF DiskInv
<1> QED
  BY <1>7, <1>8

(* Blocks off the main chain come and go without touching it.              *)
LEMMA AlternatesKeep ==
  ASSUME DiskInv,
         UNCHANGED <<mainAt, next, best, undo, utxo>>,
         NEW S \in SUBSET Blocks, S \cap Path[best] = {},
         \/ entries' = entries \cup S /\ stored' = IF Spv THEN stored ELSE stored \cup S
         \/ entries' = entries \ S /\ stored' = stored \ S
  PROVE  DiskInv'
<1>1. IndicesAgree'
  BY DEF DiskInv, IndicesAgree
<1>2. UndoIsExact'
  BY DEF DiskInv, UndoIsExact
<1>3. BodiesPresent'
  BY DEF DiskInv, BodiesPresent
<1>4. PathSpends' /\ CoinsAreReplay'
  BY DEF DiskInv, PathSpends, CoinsAreReplay
<1> QED
  BY <1>1, <1>2, <1>3, <1>4 DEF DiskInv

(* isMainChain recognises exactly the blocks of the main chain.            *)
LEMMA MainBlocks ==
  ASSUME TypeOK, DiskInv, tip = best, NEW b \in Blocks
  PROVE  IsMain(b) <=> b \in Path[best]
<1>1. best \in Blocks
  BY DEF TypeOK
<1>2. ASSUME next[b] # None PROVE b \in Path[best]
  <2>1. next[b] \in Blocks /\ Parent[next[b]] = b /\ next[b] \in Path[best]
    BY <1>2 DEF TypeOK, DiskInv, IndicesAgree
  <2>2. next[b] # Genesis
    BY <2>1, TreeAssumption
  <2> QED
    BY <1>1, <2>1, <2>2, PathParent
<1>3. ASSUME b \in Path[best], b # best PROVE next[b] # None
  <2>1. PICK c \in Path[best] : c \in Linked /\ Parent[c] = b
    BY <1>1, <1>3, PathChild
  <2>2. next[b] = c
    BY <2>1 DEF DiskInv, IndicesAgree, Linked
  <2> QED
    BY <2>1, <2>2, TreeAssumption DEF Linked
<1> QED
  BY <1>1, <1>2, <1>3, PathOrder DEF IsMain

(* A reset deletes no block of the main chain with the alternate branches. *)
LEMMA AlternatesOffMain ==
  ASSUME TypeOK, DiskInv, tip = best
  PROVE  Alternates \in SUBSET Blocks /\ Alternates \cap Path[best] = {}
<1>1. ASSUME NEW x \in Alternates PROVE x \in Blocks /\ x \notin Path[best]
  <2>1. PICK t \in tips : x \in Path[t] /\ \A y \in Path[t] : Height[y] >= Height[x] => ~IsMain(y)
    BY DEF Alternates
  <2>2. x \in Blocks /\ Height[x] \in Nat
    BY HeightAssumption DEF Alternates, TypeOK
  <2>3. ~IsMain(x)
    BY <2>1, <2>2
  <2> QED
    BY <2>2, <2>3, MainBlocks
<1> QED
  BY <1>1

-----------------------------------------------------------------------------
(* The types a step disturbs.                                              *)
JobType == [op : {"idle", "connect", "resetting"}, block : Blocks \cup {None},
            mutated : BOOLEAN, undone : BOOLEAN, hash : Blocks \cup {None}]

RequestType == [op : {"add"} \cup AdminOps, block : Blocks, mutated : BOOLEAN]

DiskTypeOK ==
  /\ entries \subseteq Blocks /\ tips \subseteq Blocks /\ stored \subseteq Blocks
  /\ mainAt \in [Heights -> Blocks \cup {None}]
  /\ next \in [Blocks -> Blocks \cup {None}]
  /\ best \in Blocks
  /\ undo \in [Blocks -> SUBSET Coins] /\ utxo \subseteq Coins

MemoryTypeOK ==
  /\ tip \in Blocks /\ rules \in Blocks
  /\ invalid \subseteq Blocks
  /\ orphans \subseteq Orphan
  /\ queue \in Seq(RequestType)
  /\ job \in JobType

(* The type invariant speaks of the disk, the memory and two flags apart.  *)
LEMMA TypeSplits ==
  /\ TypeOK <=> DiskTypeOK /\ MemoryTypeOK /\ late \in BOOLEAN /\ stranded \in BOOLEAN
  /\ TypeOK' <=> DiskTypeOK' /\ MemoryTypeOK' /\ late' \in BOOLEAN /\ stranded' \in BOOLEAN
BY DEF TypeOK, DiskTypeOK, MemoryTypeOK, JobType, RequestType

(* The jobs that the actions create are jobs.                              *)
LEMMA JobTypes ==
  /\ Idle \in JobType /\ Idle.op = "idle"
  /\ \A b \in Blocks, m \in BOOLEAN :
       /\ Connecting(b, m) \in JobType
       /\ Connecting(b, m).op = "connect" /\ Connecting(b, m).block = b
  /\ \A b \in Blocks, h \in Blocks \cup {None} :
       /\ Resetting(b, h) \in JobType
       /\ Resetting(b, h).op = "resetting" /\ Resetting(b, h).block = b
BY DEF JobType, Idle, Connecting, Resetting

(* Connecting a block keeps the types of what it writes.                   *)
LEMMA ConnectTypes ==
  ASSUME TypeOK, NEW b \in Linked, ConnectBlock(b)
  PROVE  /\ mainAt' \in [Heights -> Blocks \cup {None}]
         /\ next' \in [Blocks -> Blocks \cup {None}]
         /\ best' \in Blocks /\ tip' \in Blocks /\ rules' \in Blocks
         /\ undo' \in [Blocks -> SUBSET Coins] /\ utxo' \subseteq Coins
<1>1. b \in Blocks
  BY LinkedBlock
<1>2. mainAt' \in [Heights -> Blocks \cup {None}] /\ next' \in [Blocks -> Blocks \cup {None}]
  BY <1>1 DEF ConnectBlock, Index, TypeOK
<1>3. undo' \in [Blocks -> SUBSET Coins] /\ utxo' \subseteq Coins
  BY <1>1, CoinAssumption DEF ConnectBlock, SpendCoins, TypeOK
<1> QED
  BY <1>1, <1>2, <1>3 DEF ConnectBlock, Expose

(* So does disconnecting the last block.                                   *)
LEMMA DisconnectTypes ==
  ASSUME TypeOK, best # Genesis, DisconnectBlock(best)
  PROVE  /\ mainAt' \in [Heights -> Blocks \cup {None}]
         /\ next' \in [Blocks -> Blocks \cup {None}]
         /\ best' \in Blocks
         /\ undo' \in [Blocks -> SUBSET Coins] /\ utxo' \subseteq Coins
<1>1. best \in Linked /\ Parent[best] \in Blocks
  BY LinkedBlock DEF TypeOK, Linked
<1>2. mainAt' \in [Heights -> Blocks \cup {None}] /\ next' \in [Blocks -> Blocks \cup {None}]
  BY <1>1 DEF DisconnectBlock, Unindex, TypeOK
<1>3. undo' \in [Blocks -> SUBSET Coins] /\ utxo' \subseteq Coins
  BY <1>1, CoinAssumption DEF DisconnectBlock, RestoreCoins, TypeOK
<1> QED
  BY <1>1, <1>2, <1>3 DEF DisconnectBlock

(* Once b is recorded, the next job is none or the orphan b resolves.      *)
LEMMA FinishKeeps ==
  ASSUME TypeOK, OrphansApart,
         NEW b \in Linked, b \notin OrphanBlocks,
         entries' = entries \cup {b}, Finish(b)
  PROVE  /\ orphans' \subseteq Orphan /\ job' \in JobType /\ job'.op # "resetting"
         /\ OrphansApart' /\ JobWellFormed'
<1>1. CASE WaitingFor(b) = {}
  <2>1. job' = Idle /\ orphans' = orphans
    BY <1>1 DEF Finish
  <2>2. OrphansApart'
    BY <2>1 DEF OrphansApart, OrphanBlocks
  <2> QED
    BY <2>1, <2>2, JobTypes DEF TypeOK, JobWellFormed
<1>2. CASE WaitingFor(b) # {}
  <2>1. PICK o \in WaitingFor(b) : orphans' = orphans \ {o} /\ job' = Connecting(o.block, o.mutated)
    BY <1>2 DEF Finish
  <2>2. o \in orphans /\ Parent[o.block] = b /\ o.block \in Linked /\ o.mutated \in BOOLEAN
    BY DEF WaitingFor, TypeOK, Orphan
  <2>3. o.block \in Blocks /\ o.block # b
    BY <2>2, LinkedBlock, PathOrder
  <2>4. OrphansApart'
    BY <2>1 DEF OrphansApart, OrphanBlocks
  <2>5. o.block \notin entries' \cup OrphanBlocks'
    BY <2>1, <2>2, <2>3 DEF OrphansApart, OrphanBlocks
  <2>6. job' \in JobType /\ job'.op = "connect" /\ job'.block = o.block
    BY <2>1, <2>2, <2>3, JobTypes
  <2> QED
    BY <2>1, <2>2, <2>4, <2>5, <2>6 DEF TypeOK, JobWellFormed
<1> QED
  BY <1>1, <1>2

(* A step that leaves the database alone.                                  *)
LEMMA DiskUntouched ==
  ASSUME IInv, UNCHANGED disk, MemoryTypeOK', late' \in BOOLEAN, stranded' \in BOOLEAN,
         TipIsDurable', OrphansApart', JobWellFormed'
  PROVE  IInv'
<1>1. DiskInv'
  BY DEF disk, IInv, DiskInv, IndicesAgree, UndoIsExact, BodiesPresent, PathSpends, CoinsAreReplay
<1>2. DiskTypeOK'
  BY TypeSplits DEF disk, IInv, DiskTypeOK
<1> QED
  BY <1>1, <1>2, TypeSplits DEF IInv

(* A job that writes nothing more ends.                                    *)
LEMMA AbortKeeps ==
  ASSUME IInv, job.op # "resetting", Abort,
         invalid' \subseteq Blocks, orphans' \subseteq orphans
  PROVE  IInv'
<1>1. MemoryTypeOK' /\ late' \in BOOLEAN /\ stranded' \in BOOLEAN
  BY TypeSplits, JobTypes DEF IInv, Abort, MemoryTypeOK, JobType
<1>2. TipIsDurable' /\ JobWellFormed'
  BY JobTypes DEF IInv, Abort, disk, TipIsDurable, JobWellFormed
<1>3. OrphansApart'
  BY DEF IInv, Abort, disk, OrphansApart
<1> QED
  BY <1>1, <1>2, <1>3, DiskUntouched DEF Abort

(* Refusing a block keeps the invariant.                                   *)
LEMMA RefuseKeeps ==
  ASSUME IInv, job.op = "connect", NEW b \in Blocks, NEW m \in BOOLEAN, Refuse(b, m)
  PROVE  IInv'
BY AbortKeeps DEF Refuse, IInv, TypeOK

(* A call that throws keeps the invariant.                                 *)
LEMMA ThrowKeeps ==
  ASSUME IInv, job.op = "connect", Throw
  PROVE  IInv'
BY AbortKeeps DEF Throw, IInv, TypeOK

(* A request is queued.                                                    *)
LEMMA CallKeeps ==
  ASSUME IInv, NEW op \in {"add"} \cup AdminOps, NEW b \in Blocks, NEW m \in BOOLEAN,
         Call(op, b, m)
  PROVE  IInv'
<1>1. Request(op, b, m) \in RequestType
  BY DEF Request, RequestType
<1>2. MemoryTypeOK'
  BY <1>1, TypeSplits DEF IInv, Call, MemoryTypeOK
<1>3. TipIsDurable' /\ JobWellFormed' /\ OrphansApart'
  BY DEF IInv, Call, disk, TipIsDurable, JobWellFormed, OrphansApart, OrphanBlocks
<1> QED
  BY <1>2, <1>3, DiskUntouched DEF Call, IInv, TypeOK

(* The request at the head of the queue.                                   *)
LEMMA HeadRequest ==
  ASSUME TypeOK, queue # <<>>
  PROVE  /\ Head(queue) \in RequestType
         /\ Head(queue).block \in Blocks /\ Head(queue).mutated \in BOOLEAN
         /\ Tail(queue) \in Seq(RequestType)
<1>1. queue \in Seq(RequestType)
  BY TypeSplits DEF MemoryTypeOK
<1>2. Head(queue) \in RequestType /\ Tail(queue) \in Seq(RequestType)
  BY <1>1, HeadTailProperties
<1> QED
  BY <1>2 DEF RequestType

(* Taking a block from the queue keeps the invariant.                      *)
LEMMA AddKeeps ==
  ASSUME IInv, Add
  PROVE  IInv'
<1> DEFINE b == Head(queue).block
           m == Head(queue).mutated
<1>1. b \in Blocks /\ m \in BOOLEAN /\ Tail(queue) \in Seq(RequestType) /\ job.op = "idle"
  BY HeadRequest DEF IInv, Add, Taken
<1>2. CASE AddDuplicate(b)
  <2>1. MemoryTypeOK'
    BY <1>1, <1>2, TypeSplits DEF IInv, AddDuplicate, Dequeue, MemoryTypeOK
  <2>2. TipIsDurable' /\ JobWellFormed' /\ OrphansApart'
    BY <1>2 DEF IInv, AddDuplicate, disk, TipIsDurable, JobWellFormed, OrphansApart, OrphanBlocks
  <2> QED
    BY <1>2, <2>1, <2>2, DiskUntouched DEF AddDuplicate, IInv, TypeOK
<1>3. CASE AddCondemned(b)
  <2>1. MemoryTypeOK'
    BY <1>1, <1>3, TypeSplits DEF IInv, AddCondemned, Dequeue, MemoryTypeOK
  <2>2. TipIsDurable' /\ JobWellFormed' /\ OrphansApart'
    BY <1>3 DEF IInv, AddCondemned, disk, TipIsDurable, JobWellFormed, OrphansApart, OrphanBlocks
  <2> QED
    BY <1>3, <2>1, <2>2, DiskUntouched DEF AddCondemned, IInv, TypeOK
<1>4. CASE AddOrphan(b, m)
  <2> DEFINE o == [block |-> b, mutated |-> m]
  <2>1. b \in Linked /\ b \notin entries
    BY <1>1, <1>4 DEF AddOrphan, Fresh, SeenBefore, Linked
  <2>2. PICK kept : kept \in Limited(orphans \ WaitingFor(Parent[b])) /\ orphans' = kept \cup {o}
    BY <1>4 DEF AddOrphan
  <2>3. kept \subseteq orphans \ WaitingFor(Parent[b])
    BY <2>2 DEF Limited
  <2>4. MemoryTypeOK'
    BY <1>1, <1>4, <2>1, <2>2, <2>3, TypeSplits DEF IInv, AddOrphan, Dequeue, MemoryTypeOK, Orphan
  <2>5. OrphansApart'
    <3>1. o.block = b
      OBVIOUS
    <3>2. \A p \in kept : p \in orphans /\ Parent[p.block] # Parent[b]
      BY <2>3 DEF WaitingFor
    <3>3. entries' = entries
      BY <1>4 DEF AddOrphan, disk
    <3> QED
      BY <2>1, <2>2, <3>1, <3>2, <3>3 DEF IInv, OrphansApart
  <2>6. TipIsDurable' /\ JobWellFormed'
    BY <1>1, <1>4 DEF IInv, AddOrphan, disk, TipIsDurable, JobWellFormed
  <2> QED
    BY <1>4, <2>4, <2>5, <2>6, DiskUntouched DEF AddOrphan, IInv, TypeOK
<1>5. CASE AddConnect(b, m)
  <2>1. b \in Linked /\ b \notin entries \cup OrphanBlocks
    BY <1>1, <1>5 DEF AddConnect, Fresh, SeenBefore, Linked
  <2>2. job' \in JobType /\ job'.op = "connect" /\ job'.block = b
    BY <1>1, <1>5, JobTypes DEF AddConnect
  <2>3. MemoryTypeOK'
    BY <1>1, <1>5, <2>2, TypeSplits DEF IInv, AddConnect, Dequeue, MemoryTypeOK
  <2>4. TipIsDurable' /\ OrphansApart'
    BY <1>1, <1>5, <2>2 DEF IInv, AddConnect, disk, TipIsDurable, OrphansApart
  <2>5. JobWellFormed'
    BY <1>5, <2>1, <2>2 DEF AddConnect, disk, JobWellFormed, OrphanBlocks
  <2> QED
    BY <1>5, <2>3, <2>4, <2>5, DiskUntouched DEF AddConnect, IInv, TypeOK
<1> QED
  BY <1>2, <1>3, <1>4, <1>5 DEF Add

-----------------------------------------------------------------------------
(* A job that connects a block: the tip is the durable one.                *)
LEMMA ConnectingJob ==
  ASSUME IInv, job.op = "connect"
  PROVE  /\ job.block \in Linked /\ job.block \in Blocks /\ job.mutated \in BOOLEAN
         /\ job.block \notin entries /\ job.block \notin OrphanBlocks
         /\ tip = best /\ tip \in Blocks
BY LinkedBlock DEF IInv, JobWellFormed, TipIsDurable, TypeOK

(* Saving a block of another branch keeps the invariant.                   *)
LEMMA SaveAlternateKeeps ==
  ASSUME IInv, SaveAlternate
  PROVE  IInv'
<1> DEFINE b == job.block
<1>1. job.op = "connect" /\ b \in Linked /\ b \in Blocks /\ b \notin entries
      /\ b \notin OrphanBlocks /\ tip = best
  BY ConnectingJob DEF SaveAlternate, IsAlternate
<1>2. entries' = entries \cup {b} /\ tips' = (tips \ {Parent[b]}) \cup {b}
  BY DEF SaveAlternate, SaveEntry
<1>3. /\ orphans' \subseteq Orphan /\ job' \in JobType /\ job'.op # "resetting"
      /\ OrphansApart' /\ JobWellFormed'
  BY <1>1, <1>2, FinishKeeps DEF SaveAlternate, IInv
<1>4. DiskInv'
  <2>1. {b} \in SUBSET Blocks /\ {b} \cap Path[best] = {}
    BY <1>1 DEF IInv, DiskInv, IndicesAgree
  <2>2. stored' = IF Spv THEN stored ELSE stored \cup {b}
    BY DEF SaveAlternate
  <2> QED
    BY <1>2, <2>1, <2>2, AlternatesKeep DEF IInv, SaveAlternate
<1>5. TypeOK'
  BY <1>1, <1>2, <1>3, TypeSplits DEF IInv, SaveAlternate, DiskTypeOK, MemoryTypeOK
<1>6. TipIsDurable'
  BY <1>1 DEF SaveAlternate, TipIsDurable
<1> QED
  BY <1>3, <1>4, <1>5, <1>6 DEF IInv

(* Connecting the next block of the main chain keeps the invariant.        *)
LEMMA SaveNextKeeps ==
  ASSUME IInv, SaveNext
  PROVE  IInv'
<1> DEFINE b == job.block
<1>1. /\ job.op = "connect" /\ b \in Linked /\ b \in Blocks /\ b \notin entries
      /\ b \notin OrphanBlocks /\ tip = best /\ Parent[b] = best /\ job.mutated \in BOOLEAN
  BY ConnectingJob DEF SaveNext, IsNext
<1>2. entries' = entries \cup {b} /\ tips' = (tips \ {Parent[b]}) \cup {b} /\ ConnectBlock(b)
  BY DEF SaveNext, SaveEntry
<1>3. /\ orphans' \subseteq Orphan /\ job' \in JobType /\ job'.op # "resetting"
      /\ OrphansApart' /\ JobWellFormed'
  BY <1>1, <1>2, FinishKeeps DEF SaveNext, IInv
<1>4. stored' = IF Spv THEN stored ELSE (stored \cup {b}) \ Pruned(b)
  BY DEF SaveNext
<1>5. DiskInv'
  <2>1. VerifiedInContext(b, job.mutated)
    BY DEF SaveNext
  <2> QED
    BY <1>1, <1>2, <1>4, <2>1, ConnectKeeps DEF IInv
<1>6. TypeOK'
  BY <1>1, <1>2, <1>3, <1>4, ConnectTypes, TypeSplits DEF IInv, SaveNext, DiskTypeOK, MemoryTypeOK
<1>7. TipIsDurable'
  BY <1>2 DEF TipIsDurable, ConnectBlock, Expose
<1> QED
  BY <1>3, <1>5, <1>6, <1>7 DEF IInv

-----------------------------------------------------------------------------
(* findFork finds the highest block two chains share.                      *)
LEMMA ForkIsShared ==
  ASSUME IInv, job.op = "connect"
  PROVE  /\ Fork \in Path[tip] \cap Path[job.block]
         /\ \A y \in Path[tip] \cap Path[job.block] : Height[y] <= Height[Fork]
<1>1. tip \in Blocks /\ job.block \in Blocks
  BY ConnectingJob
<1> DEFINE Shared == Path[tip] \cap Path[job.block]
           Depths == {Height[tip] - Height[x] : x \in Shared}
<1>2. Genesis \in Shared /\ Shared \subseteq Blocks
  BY <1>1, PathOrder, PathAssumption
<1>3. \A x \in Shared : Height[x] \in Nat /\ Height[tip] \in Nat /\ Height[x] <= Height[tip]
  BY <1>1, <1>2, PathOrder, HeightAssumption
<1>4. Depths \subseteq Nat /\ Depths # {}
  BY <1>2, <1>3
<1>5. PICK d \in Depths : \A e \in Depths : d <= e
  <2> HIDE DEF Depths
  <2> QED
    BY <1>4, LeastNumber
<1>6. PICK x \in Shared : d = Height[tip] - Height[x]
  BY <1>5
<1>7. \A y \in Shared : Height[y] <= Height[x]
  BY <1>3, <1>5, <1>6
<1> QED
  BY <1>6, <1>7 DEF Fork

(* Disconnecting the tip in a reorganisation keeps the invariant.          *)
LEMMA DisconnectTipKeeps ==
  ASSUME IInv, DisconnectTip
  PROVE  IInv'
<1>1. job.op = "connect" /\ tip = best /\ best \in Blocks /\ job.block \in Blocks
  BY ConnectingJob DEF DisconnectTip, IsFork
<1>2. best # Genesis /\ CanUndo(best) /\ DisconnectBlock(best) /\ entries' = entries /\ stored' = stored
  BY <1>1, PathOrder DEF DisconnectTip, Above
<1>3. DiskInv'
  BY <1>2, DisconnectKeeps DEF IInv
<1>4. job' \in JobType /\ job'.op = job.op /\ job'.block = job.block
  BY TypeSplits DEF DisconnectTip, IInv, MemoryTypeOK, JobType
<1>5. tip' = best' /\ best' \in Blocks
  BY <1>1, <1>2, DisconnectTypes DEF DisconnectTip, DisconnectBlock, IInv
<1>6. TypeOK'
  BY <1>2, <1>4, <1>5, DisconnectTypes, TypeSplits DEF IInv, DisconnectTip, DiskTypeOK, MemoryTypeOK
<1>7. TipIsDurable' /\ OrphansApart' /\ JobWellFormed'
  BY <1>1, <1>4, <1>5 DEF IInv, DisconnectTip, TipIsDurable, OrphansApart, JobWellFormed, OrphanBlocks
<1> QED
  BY <1>3, <1>6, <1>7 DEF IInv

(* Once the fork is reached, the next block up the competing chain exists. *)
LEMMA SuccessorExists ==
  ASSUME IInv, IsFork, ~Above
  PROVE  /\ Successor \in Path[job.block] /\ Parent[Successor] = tip
         /\ Successor \in Linked /\ Successor # job.block
         /\ WalkFindsFork => Successor \in entries
<1>1. job.op = "connect" /\ tip \in Blocks /\ job.block \in Blocks /\ tip \in Path[job.block]
      /\ Parent[job.block] # tip
  BY ConnectingJob DEF IsFork, Above
<1>2. tip # job.block
  BY <1>1, HeightAssumption DEF IsFork, MoreWork
<1>3. \E c \in Path[job.block] : Parent[c] = tip
  BY <1>1, <1>2, PathChild
<1>4. Successor \in Path[job.block] /\ Parent[Successor] = tip
  BY <1>3 DEF Successor
<1>5. Successor \in Blocks /\ Successor \in Linked
  BY <1>1, <1>4, PathAssumption, TreeAssumption DEF Linked
<1>6. ASSUME WalkFindsFork PROVE Successor \in entries
  <2>1. Successor \notin Path[Fork]
    <3>1. Fork \in Path[tip]
      BY <1>1, ForkIsShared
    <3>2. Path[Fork] \subseteq Path[tip]
      BY <1>1, <3>1, PathIncludes
    <3> QED
      BY <1>1, <1>4, <3>2, NoChildOnPath
  <2>2. Successor # tip
    BY <1>4, <1>5, LinkedBlock, PathOrder, <1>1
  <2> QED
    BY <1>1, <1>4, <1>6, <2>1, <2>2 DEF WalkFindsFork
<1> QED
  BY <1>1, <1>4, <1>5, <1>6

(* Reconnecting a block of the heavier branch keeps the invariant.         *)
LEMMA ReconnectNextKeeps ==
  ASSUME IInv, ReconnectNext
  PROVE  IInv'
<1> DEFINE s == Successor
<1>1. job.op = "connect" /\ tip = best
  BY ConnectingJob DEF ReconnectNext, IsFork
<1>2. s \in Linked /\ Parent[s] = best /\ s \in entries
  BY <1>1, SuccessorExists DEF ReconnectNext
<1>3. ConnectBlock(s) /\ VerifiedInContext(s, FALSE) /\ s \in stored
      /\ entries' = entries /\ stored' = stored \ Pruned(s)
  BY DEF ReconnectNext
<1> HIDE DEF s
<1>4. DiskInv'
  <2>1. entries' = entries \cup {s} /\ stored' = (stored \cup {s}) \ Pruned(s)
    BY <1>2, <1>3
  <2> QED
    BY <1>2, <1>3, <2>1, ConnectKeeps DEF IInv
<1>5. TypeOK'
  BY <1>2, <1>3, ConnectTypes, TypeSplits DEF IInv, ReconnectNext, DiskTypeOK, MemoryTypeOK
<1>6. TipIsDurable'
  BY <1>3 DEF TipIsDurable, ConnectBlock, Expose
<1>7. OrphansApart' /\ JobWellFormed'
  BY <1>1, <1>3 DEF IInv, ReconnectNext, OrphansApart, JobWellFormed, OrphanBlocks
<1> QED
  BY <1>4, <1>5, <1>6, <1>7 DEF IInv

-----------------------------------------------------------------------------
(* removeChains, then the walk down to a main-chain block.                 *)
LEMMA RemoveChainsKeeps ==
  ASSUME IInv, job.op # "resetting", ~Prune,
         NEW t \in Path[best], NEW h \in Blocks \cup {None},
         RemoveChains(t, h), queue' \in Seq(RequestType)
  PROVE  IInv'
<1>1. tip = best /\ t \in Blocks
  BY PathAssumption DEF IInv, TipIsDurable, TypeOK
<1>2. Alternates \in SUBSET Blocks /\ Alternates \cap Path[best] = {}
  BY <1>1, AlternatesOffMain DEF IInv
<1>3. DiskInv'
  BY <1>2, AlternatesKeep DEF IInv, RemoveChains
<1>4. job' \in JobType /\ job'.op = "resetting" /\ job'.block = t
  BY <1>1, JobTypes DEF RemoveChains
<1>5. TypeOK'
  BY <1>4, TypeSplits DEF IInv, RemoveChains, DiskTypeOK, MemoryTypeOK
<1>6. TipIsDurable' /\ JobWellFormed'
  BY <1>4 DEF RemoveChains, TipIsDurable, JobWellFormed
<1>7. OrphansApart'
  BY DEF IInv, RemoveChains, OrphansApart
<1> QED
  BY <1>3, <1>5, <1>6, <1>7 DEF IInv

(* Taking a reset or an invalidation from the queue keeps the invariant.   *)
LEMMA AdminKeeps ==
  ASSUME IInv, NEW op \in AdminOps, Admin(op)
  PROVE  IInv'
<1> DEFINE b == Head(queue).block
           t == Target(op, b)
           h == IF op = "invalidate" THEN b ELSE None
<1>1. /\ b \in Blocks /\ job.op = "idle" /\ tip = best
      /\ queue' = Tail(queue) /\ queue' \in Seq(RequestType)
  BY HeadRequest DEF IInv, Admin, Taken, Dequeue, TipIsDurable
<1>2. CASE b \in entries /\ IsMain(b) /\ t \in entries /\ IsMain(t) /\ ~Prune
  <2>1. RemoveChains(t, h)
    BY <1>2 DEF Admin
  <2>2. t \in Path[best]
    BY <1>1, <1>2, MainBlocks DEF IInv, TypeOK
  <2>3. h \in Blocks \cup {None}
    BY <1>1
  <2> HIDE DEF t, h
  <2> QED
    BY <1>1, <1>2, <2>1, <2>2, <2>3, RemoveChainsKeeps
<1>3. CASE ~(b \in entries /\ IsMain(b) /\ t \in entries /\ IsMain(t) /\ ~Prune)
  <2>1. UNCHANGED <<disk, tip, rules, invalid, orphans, job, late, stranded>>
    BY <1>3 DEF Admin
  <2>2. MemoryTypeOK'
    BY <1>1, <2>1, TypeSplits DEF IInv, MemoryTypeOK
  <2>3. TipIsDurable' /\ JobWellFormed' /\ OrphansApart'
    BY <2>1 DEF IInv, disk, TipIsDurable, JobWellFormed, OrphansApart, OrphanBlocks
  <2> QED
    BY <2>1, <2>2, <2>3, DiskUntouched DEF IInv, TypeOK
<1> QED
  BY <1>2, <1>3

(* The reorganisation of an SPV chain keeps the invariant.                 *)
LEMMA ReorganizeSPVKeeps ==
  ASSUME IInv, ReorganizeSPV
  PROVE  IInv'
<1>1. job.op = "connect" /\ tip = best
  BY ConnectingJob DEF ReorganizeSPV, IsFork
<1>2. Fork \in Path[best]
  BY <1>1, ForkIsShared
<1>3. RemoveChains(Fork, None) /\ queue' \in Seq(RequestType) /\ ~Prune
  BY ChainAssumption, TypeSplits DEF ReorganizeSPV, IInv, MemoryTypeOK
<1> QED
  BY <1>1, <1>2, <1>3, RemoveChainsKeeps

(* One step of a reset keeps the invariant.                                *)
LEMMA ResetStepKeeps ==
  ASSUME IInv, ResetStep
  PROVE  IInv'
<1>1. /\ best # Genesis /\ CanUndo(best) /\ DisconnectBlock(best) /\ best \in Blocks
      /\ entries' = entries \ {best} /\ stored' = stored \ {best}
  BY DEF ResetStep, IInv, TypeOK
<1>2. best' = Parent[best] /\ best' \in Blocks /\ Path[best] = Path[best'] \cup {best}
  BY <1>1, LinkedBlock DEF DisconnectBlock, Linked
<1>3. DiskInv'
  BY <1>1, DisconnectKeeps DEF IInv
<1>4. tips' \subseteq Blocks
  BY <1>1, <1>2 DEF ResetStep, IInv, TypeOK, DisconnectBlock
<1>5. TypeOK'
  BY <1>1, <1>4, DisconnectTypes, TypeSplits
     DEF IInv, ResetStep, memory, DiskTypeOK, MemoryTypeOK
<1>6. TipIsDurable' /\ JobWellFormed'
  BY <1>2 DEF IInv, ResetStep, memory, TipIsDurable, JobWellFormed
<1>7. OrphansApart'
  BY <1>1 DEF IInv, ResetStep, memory, OrphansApart
<1> QED
  BY <1>3, <1>5, <1>6, <1>7 DEF IInv

(* The end of a reset keeps the invariant.                                 *)
LEMMA ResetDoneKeeps ==
  ASSUME IInv, ResetDone
  PROVE  IInv'
<1>1. MemoryTypeOK' /\ late' \in BOOLEAN /\ stranded' \in BOOLEAN
  BY TypeSplits, JobTypes DEF IInv, ResetDone, Expose, MemoryTypeOK, DiskTypeOK
<1>2. TipIsDurable' /\ JobWellFormed' /\ OrphansApart'
  BY JobTypes DEF ResetDone, Expose, disk, TipIsDurable, JobWellFormed, OrphansApart
<1> QED
  BY <1>1, <1>2, DiskUntouched DEF ResetDone

(* Without a failing batch a reset cannot get stuck.                       *)
LEMMA ResetNeverFails ==
  ASSUME IInv, ResetsCommit
  PROVE  ~ResetFails
<1> SUFFICES ASSUME ResetFails PROVE FALSE
  OBVIOUS
<1>1. /\ job.op = "resetting" /\ best # job.block
      /\ best = Genesis \/ ~CanUndo(best)
  BY DEF ResetFails, ResetsCommit
<1>2. job.block \in Path[best] /\ ~Prune /\ best \in Blocks
  BY <1>1 DEF IInv, JobWellFormed, TypeOK
<1>3. best # Genesis
  BY <1>1, <1>2, PathAssumption
<1>4. best \in Path[best]
  BY <1>2, PathOrder
<1>5. CanUndo(best)
  BY <1>2, <1>4 DEF CanUndo, IInv, DiskInv, IndicesAgree, BodiesPresent, UndoIsExact
<1> QED
  BY <1>1, <1>3, <1>5

(* A restart from the disk keeps the invariant.                            *)
LEMMA RestartKeeps ==
  ASSUME IInv, Restart
  PROVE  IInv'
<1>1. MemoryTypeOK' /\ late' \in BOOLEAN /\ stranded' \in BOOLEAN
  <2>1. queue' = <<>> /\ invalid' = {} /\ orphans' = {} /\ job' = Idle /\ tip' = best /\ rules' = best
        /\ UNCHANGED <<disk, late>> /\ stranded' = (stranded \/ job.undone)
    BY DEF Restart, Expose
  <2>2. job.undone \in BOOLEAN
    BY TypeSplits DEF IInv, MemoryTypeOK, JobType
  <2>3. late' \in BOOLEAN /\ stranded' \in BOOLEAN
    BY <2>1, <2>2, TypeSplits DEF IInv
  <2> QED
    BY <2>1, <2>3, JobTypes, TypeSplits DEF IInv, MemoryTypeOK, DiskTypeOK
<1>2. TipIsDurable' /\ JobWellFormed' /\ OrphansApart'
  BY JobTypes DEF Restart, Expose, disk, TipIsDurable, JobWellFormed, OrphansApart
<1> QED
  BY <1>1, <1>2, DiskUntouched DEF Restart

-----------------------------------------------------------------------------
(* The chain starts in the invariant.                                      *)
LEMMA InitIInv == Init => IInv
<1> SUFFICES ASSUME Init PROVE IInv
  OBVIOUS
<1>1. Genesis \in Blocks /\ Height[Genesis] = 0 /\ Path[Genesis] = {Genesis}
      /\ UtxoOf[Genesis] = {} /\ Spends[Genesis] = {}
  BY TreeAssumption, HeightAssumption, PathAssumption, CoinAssumption
<1>2. MemoryTypeOK /\ late \in BOOLEAN /\ stranded \in BOOLEAN
  <2>1. tip = Genesis /\ rules = Genesis /\ invalid = {} /\ orphans = {} /\ queue = <<>> /\ job = Idle
        /\ late = FALSE /\ stranded = FALSE
    BY DEF Init
  <2>2. queue \in Seq(RequestType)
    BY <2>1, EmptySeq
  <2>3. job \in JobType
    BY <2>1, JobTypes
  <2>4. tip \in Blocks /\ rules \in Blocks /\ invalid \subseteq Blocks /\ orphans \subseteq Orphan
    BY <1>1, <2>1
  <2> QED
    BY <2>1, <2>2, <2>3, <2>4 DEF MemoryTypeOK
<1>3. DiskTypeOK
  BY <1>1 DEF Init, DiskTypeOK
<1>4. IndicesAgree
  <2>1. Path[best] \subseteq entries
    BY <1>1 DEF Init
  <2>2. ASSUME NEW h \in Heights, NEW b \in Blocks
        PROVE  mainAt[h] = b <=> Height[b] = h /\ b \in Path[best]
    BY <1>1, TreeAssumption DEF Init
  <2>3. ASSUME NEW b \in Blocks, NEW c \in Blocks
        PROVE  next[b] = c <=> Parent[c] = b /\ c \in Path[best]
    BY <1>1, TreeAssumption DEF Init
  <2> QED
    BY <2>1, <2>2, <2>3 DEF IndicesAgree
<1>5. UndoIsExact /\ BodiesPresent /\ PathSpends /\ CoinsAreReplay
  BY <1>1 DEF Init, UndoIsExact, BodiesPresent, PathSpends, CoinsAreReplay
<1>6. TipIsDurable /\ OrphansApart /\ JobWellFormed
  BY <1>1, JobTypes DEF Init, TipIsDurable, OrphansApart, JobWellFormed
<1> QED
  BY <1>2, <1>3, <1>4, <1>5, <1>6, TypeSplits DEF IInv, DiskInv

(* Every step of a running call keeps the invariant.                       *)
LEMMA StepKeeps ==
  ASSUME IInv, Step
  PROVE  IInv'
<1>1. CASE Add
  BY <1>1, AddKeeps
<1>2. CASE \E op \in AdminOps : Admin(op)
  BY <1>2, AdminKeeps
<1>3. CASE SaveAlternate
  BY <1>3, SaveAlternateKeeps
<1>4. CASE RefuseAlternate
  BY <1>4, ConnectingJob, RefuseKeeps DEF RefuseAlternate, IsAlternate
<1>5. CASE SaveNext
  BY <1>5, SaveNextKeeps
<1>6. CASE RefuseNext
  BY <1>6, ConnectingJob, RefuseKeeps DEF RefuseNext, IsNext
<1>7. CASE DisconnectTip
  BY <1>7, DisconnectTipKeeps
<1>8. CASE ReconnectNext
  BY <1>8, ReconnectNextKeeps
<1>9. CASE RefuseReconnect
  <2>1. job.op = "connect" /\ Successor \in Blocks
    BY <1>9, SuccessorExists DEF RefuseReconnect, IsFork, Linked
  <2> QED
    BY <1>9, <2>1, RefuseKeeps DEF RefuseReconnect
<1>10. CASE ReorganizeThrows
  BY <1>10, ThrowKeeps DEF ReorganizeThrows, IsFork
<1>11. CASE ReorganizeSPV
  BY <1>11, ReorganizeSPVKeeps
<1>12. CASE ResetStep
  BY <1>12, ResetStepKeeps
<1>13. CASE ResetDone
  BY <1>13, ResetDoneKeeps
<1> QED
  BY <1>1, <1>2, <1>3, <1>4, <1>5, <1>6, <1>7, <1>8, <1>9, <1>10, <1>11, <1>12, <1>13 DEF Step

(* Every step of the chain keeps the invariant.                            *)
LEMMA NextIInv ==
  ASSUME ResetsCommit, IInv, [Next]_vars
  PROVE  IInv'
<1>1. ASSUME NEW b \in Blocks, Deliver(b) PROVE IInv'
  BY <1>1, CallKeeps DEF Deliver
<1>2. ASSUME NEW b \in Blocks, NEW op \in AdminOps, Call(op, b, FALSE) PROVE IInv'
  BY <1>2, CallKeeps
<1>3. CASE ClockAdvances
  <2>1. MemoryTypeOK' /\ late' \in BOOLEAN /\ stranded' \in BOOLEAN
    BY <1>3, TypeSplits DEF IInv, ClockAdvances, memory, MemoryTypeOK
  <2>2. TipIsDurable' /\ JobWellFormed' /\ OrphansApart'
    BY <1>3 DEF IInv, ClockAdvances, disk, memory, TipIsDurable, JobWellFormed, OrphansApart, OrphanBlocks
  <2> QED
    BY <1>3, <2>1, <2>2, DiskUntouched DEF ClockAdvances
<1>4. CASE Step
  BY <1>4, StepKeeps
<1>5. CASE CommitFails
  BY <1>5, ThrowKeeps DEF CommitFails, Writing, IsAlternate, IsNext, IsFork
<1>6. CASE ResetFails
  BY <1>6, ResetNeverFails
<1>7. CASE Restart
  BY <1>7, RestartKeeps
<1>8. CASE UNCHANGED vars
  <2>1. MemoryTypeOK' /\ late' \in BOOLEAN /\ stranded' \in BOOLEAN
    BY <1>8, TypeSplits DEF IInv, vars, memory, MemoryTypeOK
  <2>2. TipIsDurable' /\ JobWellFormed' /\ OrphansApart'
    BY <1>8 DEF IInv, vars, disk, memory, TipIsDurable, JobWellFormed, OrphansApart, OrphanBlocks
  <2> QED
    BY <1>8, <2>1, <2>2, DiskUntouched DEF vars
<1> QED
  BY <1>1, <1>2, <1>3, <1>4, <1>5, <1>6, <1>7, <1>8 DEF Next

-----------------------------------------------------------------------------
(* The invariant, from which the properties follow.                        *)
THEOREM Invariance ==
  ASSUME ResetsCommit
  PROVE  Spec => []IInv
<1>1. IInv /\ [Next]_vars => IInv'
  BY NextIInv
<1> QED
  BY InitIInv, <1>1, PTL DEF Spec

(* Every variable of the chain keeps its type.                             *)
THEOREM TypeCorrect ==
  ASSUME ResetsCommit
  PROVE  Spec => []TypeOK
<1>1. IInv => TypeOK
  BY DEF IInv
<1> QED
  BY Invariance, <1>1, PTL

(* R, H, n and the entries describe one and the same main chain at every   *)
(* batch boundary, hence also for the node that starts after a crash.      *)
THEOREM IndicesCorrect ==
  ASSUME ResetsCommit
  PROVE  Spec => []IndicesAgree
<1>1. IInv => IndicesAgree
  BY DEF IInv, DiskInv
<1> QED
  BY Invariance, <1>1, PTL

(* The coin database is the replay of the main chain.                      *)
THEOREM CoinsCorrect ==
  ASSUME ResetsCommit
  PROVE  Spec => []CoinsAreReplay
<1>1. IInv => CoinsAreReplay
  BY DEF IInv, DiskInv
<1> QED
  BY Invariance, <1>1, PTL

(* Every undo record is exact.                                             *)
THEOREM UndoCorrect ==
  ASSUME ResetsCommit
  PROVE  Spec => []UndoIsExact
<1>1. IInv => UndoIsExact
  BY DEF IInv, DiskInv
<1> QED
  BY Invariance, <1>1, PTL

(* Outside resets, the tip in memory is the durable one.                   *)
THEOREM TipCorrect ==
  ASSUME ResetsCommit
  PROVE  Spec => []TipIsDurable
<1>1. IInv => TipIsDurable
  BY DEF IInv
<1> QED
  BY Invariance, <1>1, PTL

-----------------------------------------------------------------------------
(* The refinement: every step moves the ledger by one edge or not at all.  *)
LEMMA LedgerConnects ==
  ASSUME IInv, ~Spv, NEW b \in Linked, NEW m \in BOOLEAN,
         Parent[b] = best, VerifiedInContext(b, m), ConnectBlock(b)
  PROVE  Promise!Connect(b)
<1>1. utxo = UtxoOf[best]
  BY DEF IInv, DiskInv, CoinsAreReplay
<1>2. ~Promise!Invalid(b)
  BY <1>1 DEF Promise!Invalid, Promise!SpendsCorrectly, SpendsCorrectly, VerifiedInContext, Verified
<1> QED
  BY <1>2 DEF Promise!Connect, ConnectBlock, SpendCoins

(* A disconnected block is a step of the abstract ledger.                  *)
LEMMA LedgerDisconnects ==
  ASSUME IInv', ~Spv, best # Genesis, DisconnectBlock(best)
  PROVE  Promise!Disconnect
BY DEF Promise!Disconnect, DisconnectBlock, IInv, DiskInv, CoinsAreReplay

(* Every step of the chain is a step of the abstract ledger or none.       *)
LEMMA LedgerStep ==
  ASSUME ResetsCommit, ~Spv, IInv, IInv', [Next]_vars
  PROVE  [Promise!Next]_<<best, utxo>>
<1>1. CASE SaveNext
  <2>1. job.op = "connect" /\ job.block \in Linked /\ job.mutated \in BOOLEAN /\ tip = best
    BY <1>1, ConnectingJob DEF SaveNext, IsNext
  <2> QED
    BY <1>1, <2>1, LedgerConnects DEF SaveNext, IsNext, Promise!Next, Promise!Linked, Linked
<1>2. CASE ReconnectNext
  <2>1. job.op = "connect" /\ tip = best
    BY <1>2, ConnectingJob DEF ReconnectNext, IsFork
  <2>2. Successor \in Linked /\ Parent[Successor] = best
    BY <1>2, <2>1, SuccessorExists DEF ReconnectNext
  <2> QED
    BY <1>2, <2>2, LedgerConnects DEF ReconnectNext, Promise!Next, Promise!Linked, Linked
<1>3. CASE DisconnectTip
  <2>1. tip = best /\ best # Genesis
    BY <1>3, ConnectingJob, PathOrder DEF DisconnectTip, IsFork, Above
  <2> QED
    BY <1>3, <2>1, LedgerDisconnects DEF DisconnectTip, Promise!Next
<1>4. CASE ResetStep
  BY <1>4, LedgerDisconnects DEF ResetStep, Promise!Next
<1>5. CASE UNCHANGED <<best, utxo>>
  BY <1>5
<1>6. SaveNext \/ ReconnectNext \/ DisconnectTip \/ ResetStep \/ UNCHANGED <<best, utxo>>
  <2>1. CASE Step
    <3>1. CASE Add
      BY <3>1 DEF Add, AddDuplicate, AddCondemned, AddOrphan, AddConnect, disk
    <3>2. CASE \E op \in AdminOps : Admin(op)
      BY <3>2 DEF Admin, RemoveChains, disk
    <3>3. CASE SaveAlternate \/ ReorganizeSPV \/ ResetDone
      BY <3>3 DEF SaveAlternate, ReorganizeSPV, RemoveChains, ResetDone, disk
    <3>4. CASE RefuseAlternate \/ RefuseNext \/ RefuseReconnect \/ ReorganizeThrows
      BY <3>4 DEF RefuseAlternate, RefuseNext, RefuseReconnect, ReorganizeThrows, Refuse, Throw, Abort, disk
    <3> QED
      BY <2>1, <3>1, <3>2, <3>3, <3>4 DEF Step
  <2>2. CASE CommitFails \/ ResetFails \/ Restart \/ ClockAdvances \/ UNCHANGED vars
    BY <2>2 DEF CommitFails, Throw, Abort, ResetFails, Restart, ClockAdvances, vars, disk
  <2>3. ASSUME NEW op, NEW b, NEW m, Call(op, b, m) PROVE UNCHANGED <<best, utxo>>
    BY <2>3 DEF Call, disk
  <2> QED
    BY <2>1, <2>2, <2>3 DEF Next, Deliver
<1> QED
  BY <1>1, <1>2, <1>3, <1>4, <1>5, <1>6

(* A full node implements module Ledger: readers of the database see its   *)
(* head move along single edges of the block tree, forward only onto       *)
(* valid blocks, with the coins of the head's path.                        *)
THEOREM RefinesLedger ==
  ASSUME ResetsCommit, ~Spv
  PROVE  Spec => ImplementsLedger
<1>1. Init => Promise!Init
  BY CoinAssumption DEF Init, Promise!Init
<1>2. IInv /\ IInv' /\ [Next]_vars => [Promise!Next]_<<best, utxo>>
  BY LedgerStep
<1> QED
  BY Invariance, <1>1, <1>2, PTL DEF Spec, ImplementsLedger, Promise!Spec, Promise!ledgerVars

-----------------------------------------------------------------------------
(* Condemnation.  A block that breaks a rule for good spoils its path.     *)
LEMMA InvalidPaths ==
  ASSUME NEW b \in Blocks
  PROVE  /\ Invalid(b) => ~ValidPath(b)
         /\ b # Genesis /\ ~ValidPath(Parent[b]) => ~ValidPath(b)
<1>1. b \in Path[b]
  BY PathOrder
<1>2. b # Genesis => Path[Parent[b]] \subseteq Path[b]
  BY LinkedBlock DEF Linked
<1> QED
  BY <1>1, <1>2 DEF ValidPath

(* A block is remembered as invalid only if it is.                         *)
LEMMA RefusalIsFair ==
  ASSUME ~Spv, OnlyInvalidCondemned, TypeOK, NEW b \in Linked, NEW m \in BOOLEAN, Refuse(b, m),
         Verified(b, m) => ~SpendsCorrectly(b, UtxoOf[Parent[b]])
  PROVE  OnlyInvalidCondemned'
<1>1. ASSUME Verified(b, m) \/ ~Malleated(b, m) PROVE Invalid(b)
  <2>1. b # Genesis /\ b \in Blocks
    BY LinkedBlock
  <2>2. CASE Verified(b, m)
    BY <2>1, <2>2 DEF Invalid
  <2>3. CASE ~Verified(b, m)
    BY <1>1, <2>1, <2>3 DEF Invalid, Verified, Malleated
  <2> QED
    BY <2>2, <2>3
<1>2. ~ValidPath(b) \/ invalid' = invalid
  BY <1>1, InvalidPaths, LinkedBlock DEF Refuse
<1>3. invalid' \subseteq invalid \cup {b}
  BY DEF Refuse
<1> QED
  BY <1>2, <1>3 DEF OnlyInvalidCondemned

(* Every step keeps the blocks remembered as invalid truly invalid.        *)
LEMMA CondemnationStep ==
  ASSUME ResetsCommit, IInv, OnlyInvalidCondemned, [Next]_vars
  PROVE  OnlyInvalidCondemned'
<1> SUFFICES ASSUME ~Spv PROVE OnlyInvalidCondemned'
  BY DEF OnlyInvalidCondemned
<1>0. TypeOK /\ utxo = UtxoOf[best]
  BY DEF IInv, DiskInv, CoinsAreReplay
<1>1. CASE RefuseAlternate
  <2>1. job.block \in Linked /\ job.mutated \in BOOLEAN
    BY <1>1, ConnectingJob DEF RefuseAlternate, IsAlternate
  <2> QED
    BY <1>0, <1>1, <2>1, RefusalIsFair DEF RefuseAlternate
<1>2. CASE RefuseNext
  <2>1. job.block \in Linked /\ job.mutated \in BOOLEAN /\ Parent[job.block] = best
    BY <1>2, ConnectingJob DEF RefuseNext, IsNext
  <2> QED
    BY <1>0, <1>2, <2>1, RefusalIsFair DEF RefuseNext, VerifiedInContext
<1>3. CASE RefuseReconnect
  <2>1. Successor \in Linked /\ Parent[Successor] = best
    BY <1>3, SuccessorExists, ConnectingJob DEF RefuseReconnect, IsFork
  <2> QED
    BY <1>0, <1>3, <2>1, RefusalIsFair DEF RefuseReconnect, VerifiedInContext
<1>4. CASE Add
  <2> DEFINE b == Head(queue).block
  <2>1. b \in Blocks
    BY <1>0, <1>4, HeadRequest DEF Add, Taken
  <2>2. CASE AddCondemned(b)
    <3>1. b # Genesis /\ invalid' = invalid \cup {b} /\ (b \in invalid \/ Parent[b] \in invalid)
      BY <2>2 DEF AddCondemned, SeenBefore, Condemned
    <3>2. ~ValidPath(b)
      BY <2>1, <3>1, InvalidPaths DEF OnlyInvalidCondemned
    <3> QED
      BY <3>1, <3>2 DEF OnlyInvalidCondemned
  <2>3. CASE ~AddCondemned(b)
    <3>1. invalid' = invalid
      BY <1>4, <2>3 DEF Add, AddDuplicate, AddOrphan, AddConnect
    <3> QED
      BY <3>1 DEF OnlyInvalidCondemned
  <2> QED
    BY <2>2, <2>3
<1>5. CASE Restart
  BY <1>5 DEF Restart, OnlyInvalidCondemned
<1>6. CASE UNCHANGED invalid
  BY <1>6 DEF OnlyInvalidCondemned
<1>7. RefuseAlternate \/ RefuseNext \/ RefuseReconnect \/ Add \/ Restart \/ UNCHANGED invalid
  <2>1. CASE Step
    <3>1. CASE \E op \in AdminOps : Admin(op)
      BY <3>1 DEF Admin, RemoveChains
    <3>2. CASE SaveAlternate \/ SaveNext \/ DisconnectTip \/ ReconnectNext
      BY <3>2 DEF SaveAlternate, SaveNext, DisconnectTip, ReconnectNext
    <3>3. CASE ReorganizeThrows \/ ReorganizeSPV \/ ResetStep \/ ResetDone
      BY <3>3 DEF ReorganizeThrows, Throw, ReorganizeSPV, RemoveChains, ResetStep, ResetDone, memory
    <3> QED
      BY <2>1, <3>1, <3>2, <3>3 DEF Step
  <2>2. CASE CommitFails \/ ResetFails \/ ClockAdvances \/ UNCHANGED vars
    BY <2>2 DEF CommitFails, Throw, ResetFails, ClockAdvances, vars, memory
  <2>3. ASSUME NEW op, NEW b, NEW m, Call(op, b, m) PROVE UNCHANGED invalid
    BY <2>3 DEF Call
  <2> QED
    BY <2>1, <2>2, <2>3 DEF Next, Deliver
<1> QED
  BY <1>1, <1>2, <1>3, <1>4, <1>5, <1>6, <1>7

(* A full node condemns only blocks that no node may ever connect: not a   *)
(* block of which it saw a malleated copy first, nor one that came before  *)
(* its time, nor one verified against another branch's coins.              *)
THEOREM CondemnedAreInvalid ==
  ASSUME ResetsCommit
  PROVE  Spec => []OnlyInvalidCondemned
<1>1. Init => OnlyInvalidCondemned
  BY DEF Init, OnlyInvalidCondemned
<1>2. IInv /\ OnlyInvalidCondemned /\ [Next]_vars => OnlyInvalidCondemned'
  BY CondemnationStep
<1> QED
  BY Invariance, <1>1, <1>2, PTL DEF Spec

-----------------------------------------------------------------------------
(***************************************************************************)
(* The blocks off the main chain: the orphans and their limit, the tip     *)
(* index, the choice of the chain with most work and the rules that go     *)
(* with it, and the bodies pruning leaves.  IInv holds throughout; each    *)
(* section adds the part its property needs.                               *)
(***************************************************************************)

(* A step that touches neither the chain nor the job: a call, the clock, a *)
(* request that is answered at once.                                       *)
Quiet == UNCHANGED <<disk, tip, rules, orphans, job, stranded>>

(* A block is refused, a batch or a reorganisation fails.                  *)
GivesUp == job.op = "connect" /\ Abort /\ orphans' \subseteq orphans

(* A reset begins: to a main-chain block an operator names, or to the fork *)
(* an SPV node has found.  A pruned node refuses.                          *)
Removing ==
  /\ job.op # "resetting" /\ (Spv \/ AdminOps # {}) /\ ~Prune
  /\ \E t \in Path[best], h \in Blocks \cup {None} : RemoveChains(t, h)

Starting ==
  \E b \in Blocks, m \in BOOLEAN :
    job.op = "idle" /\ b \in Linked /\ (AddOrphan(b, m) \/ AddConnect(b, m))

(* What a step can be, as far as these properties are concerned.           *)
LEMMA StepKinds ==
  ASSUME ResetsCommit, IInv, [Next]_vars
  PROVE  \/ Quiet \/ GivesUp \/ Removing \/ Starting
         \/ SaveAlternate \/ SaveNext \/ DisconnectTip \/ ReconnectNext
         \/ ResetStep \/ ResetDone \/ Restart
<1>1. ASSUME NEW b \in Blocks, Deliver(b) PROVE Quiet
  BY <1>1 DEF Deliver, Call, Quiet
<1>2. ASSUME NEW b \in Blocks, NEW op \in AdminOps, Call(op, b, FALSE) PROVE Quiet
  BY <1>2 DEF Call, Quiet
<1>3. CASE ClockAdvances
  BY <1>3 DEF ClockAdvances, memory, Quiet
<1>4. CASE Add
  <2> DEFINE b == Head(queue).block
             m == Head(queue).mutated
  <2>1. b \in Blocks /\ m \in BOOLEAN /\ job.op = "idle"
    BY <1>4, HeadRequest DEF IInv, Add, Taken
  <2>2. AddDuplicate(b) \/ AddCondemned(b) => Quiet
    BY DEF AddDuplicate, AddCondemned, Quiet
  <2>3. AddOrphan(b, m) \/ AddConnect(b, m) => b \in Linked
    BY <2>1 DEF AddOrphan, AddConnect, Fresh, SeenBefore, Linked
  <2>4. AddDuplicate(b) \/ AddCondemned(b) \/ AddOrphan(b, m) \/ AddConnect(b, m)
    BY <1>4 DEF Add
  <2> QED
    BY <2>1, <2>2, <2>3, <2>4 DEF Starting
<1>5. ASSUME NEW op \in AdminOps, Admin(op) PROVE Quiet \/ Removing
  <2> DEFINE b == Head(queue).block
             t == Target(op, b)
             h == IF op = "invalidate" THEN b ELSE None
  <2>1. b \in Blocks /\ job.op = "idle" /\ tip = best
    BY <1>5, HeadRequest DEF IInv, Admin, Taken, TipIsDurable
  <2>2. CASE b \in entries /\ IsMain(b) /\ t \in entries /\ IsMain(t) /\ ~Prune
    <3>1. RemoveChains(t, h)
      BY <1>5, <2>2 DEF Admin
    <3>2. t \in Path[best]
      BY <2>1, <2>2, MainBlocks DEF IInv, TypeOK
    <3>3. h \in Blocks \cup {None}
      BY <2>1
    <3> HIDE DEF t, h
    <3> QED
      BY <1>5, <2>1, <2>2, <3>1, <3>2, <3>3 DEF Removing
  <2>3. CASE ~(b \in entries /\ IsMain(b) /\ t \in entries /\ IsMain(t) /\ ~Prune)
    BY <1>5, <2>3 DEF Admin, Quiet
  <2> QED
    BY <2>2, <2>3
<1>6. ASSUME NEW b, NEW m, job.op = "connect", Refuse(b, m) PROVE GivesUp
  BY <1>6 DEF Refuse, GivesUp
<1>7. ASSUME job.op = "connect", Throw PROVE GivesUp
  BY <1>7 DEF Throw, GivesUp
<1>8. RefuseAlternate \/ RefuseNext \/ RefuseReconnect => GivesUp
  BY <1>6 DEF RefuseAlternate, RefuseNext, RefuseReconnect, IsAlternate, IsNext, IsFork
<1>9. ReorganizeThrows \/ CommitFails => GivesUp
  BY <1>7 DEF ReorganizeThrows, CommitFails, Writing, IsAlternate, IsNext, IsFork
<1>10. CASE ReorganizeSPV
  <2>1. job.op = "connect" /\ tip = best
    BY <1>10, ConnectingJob DEF ReorganizeSPV, IsFork
  <2>2. Fork \in Path[best]
    BY <2>1, ForkIsShared
  <2> QED
    BY <1>10, <2>1, <2>2, ChainAssumption DEF ReorganizeSPV, Removing
<1>11. ~ResetFails
  BY ResetNeverFails
<1>12. CASE UNCHANGED vars
  BY <1>12 DEF vars, disk, memory, Quiet
<1> QED
  BY <1>1, <1>2, <1>3, <1>4, <1>5, <1>8, <1>9, <1>10, <1>11, <1>12 DEF Next, Step

-----------------------------------------------------------------------------
(* Orphans.  Their parents are missing at every moment, not only between   *)
(* jobs, and the limit holds because the pool makes room before it adds.   *)
OrphanLimit == IF MaxOrphans = 0 THEN 1 ELSE MaxOrphans

OrphansInv ==
  /\ \A o \in orphans : Parent[o.block] \notin entries
  /\ IsFiniteSet(orphans) /\ Cardinality(orphans) <= OrphanLimit

(* The limit is a number, and never less than one.                        *)
LEMMA OrphanLimitIsPositive ==
  OrphanLimit \in Nat /\ OrphanLimit >= 1 /\ OrphanLimit >= MaxOrphans
<1>1. MaxOrphans \in Nat
  BY ChainAssumption
<1>2. MaxOrphans = 0 => OrphanLimit = 1
  BY DEF OrphanLimit
<1>3. MaxOrphans # 0 => OrphanLimit = MaxOrphans
  BY DEF OrphanLimit
<1> QED
  BY <1>1, <1>2, <1>3

(* limitOrphans leaves room for one more.                                  *)
LEMMA LimitedLeavesRoom ==
  ASSUME NEW os, IsFiniteSet(os), Cardinality(os) <= OrphanLimit, NEW kept \in Limited(os)
  PROVE  kept \subseteq os /\ IsFiniteSet(kept) /\ Cardinality(kept) + 1 <= OrphanLimit
<1>1. PICK live \in SUBSET os :
        kept \in IF Cardinality(live) < MaxOrphans \/ live = {}
                 THEN {live} ELSE {live \ {o} : o \in live}
  BY DEF Limited
<1>2. IsFiniteSet(live) /\ Cardinality(live) <= Cardinality(os)
  BY FS_Subset
<1>3. Cardinality(live) \in Nat /\ Cardinality(os) \in Nat
  BY <1>2, FS_CardinalityType
<1>4. MaxOrphans \in Nat /\ OrphanLimit \in Nat /\ OrphanLimit >= 1 /\ OrphanLimit >= MaxOrphans
  BY OrphanLimitIsPositive, ChainAssumption
<1>5. CASE live = {}
  <2>1. kept = {} /\ IsFiniteSet(kept) /\ Cardinality(kept) = 0
    BY <1>1, <1>5, FS_EmptySet
  <2> QED
    BY <1>4, <2>1
<1>6. CASE live # {} /\ Cardinality(live) < MaxOrphans
  <2>1. kept = live
    BY <1>1, <1>6
  <2> QED
    BY <1>2, <1>3, <1>4, <1>6, <2>1
<1>7. CASE live # {} /\ ~(Cardinality(live) < MaxOrphans)
  <2>1. PICK o \in live : kept = live \ {o}
    BY <1>1, <1>7
  <2>2. IsFiniteSet(kept) /\ Cardinality(kept) = Cardinality(live) - 1
    BY <1>2, <2>1, FS_RemoveElement
  <2> QED
    BY <1>2, <1>3, <1>4, <2>1, <2>2
<1> QED
  BY <1>5, <1>6, <1>7

(* Fewer orphans and fewer entries change nothing.                         *)
LEMMA OrphansShrink ==
  ASSUME OrphansInv, orphans' \subseteq orphans, entries' \subseteq entries
  PROVE  OrphansInv'
<1>1. IsFiniteSet(orphans') /\ Cardinality(orphans') <= Cardinality(orphans)
  BY FS_Subset DEF OrphansInv
<1>2. Cardinality(orphans') \in Nat /\ Cardinality(orphans) \in Nat /\ OrphanLimit \in Nat
  BY <1>1, FS_CardinalityType, OrphanLimitIsPositive DEF OrphansInv
<1>3. Cardinality(orphans') <= OrphanLimit
  BY <1>1, <1>2 DEF OrphansInv
<1> QED
  BY <1>1, <1>3 DEF OrphansInv, OrphanLimit

(* A block is recorded, and the orphan that waited for it becomes the job. *)
LEMMA OrphansResolve ==
  ASSUME IInv, OrphansInv, NEW b \in Linked, b \notin entries,
         entries' = entries \cup {b}, Finish(b)
  PROVE  OrphansInv'
<1>1. orphans' \subseteq orphans /\ \A o \in orphans' : Parent[o.block] # b
  <2>1. CASE WaitingFor(b) = {}
    BY <2>1 DEF Finish, WaitingFor
  <2>2. CASE WaitingFor(b) # {}
    <3>1. PICK o \in WaitingFor(b) : orphans' = orphans \ {o}
      BY <2>2 DEF Finish
    <3>2. o \in orphans /\ Parent[o.block] = b
      BY DEF WaitingFor
    <3> QED
      BY <3>1, <3>2 DEF IInv, OrphansApart
  <2> QED
    BY <2>1, <2>2
<1>2. \A o \in orphans' : Parent[o.block] \notin entries'
  BY <1>1 DEF OrphansInv
<1>3. IsFiniteSet(orphans') /\ Cardinality(orphans') <= Cardinality(orphans)
  BY <1>1, FS_Subset DEF OrphansInv
<1>4. Cardinality(orphans') \in Nat /\ Cardinality(orphans) \in Nat /\ OrphanLimit \in Nat
  BY <1>3, FS_CardinalityType, OrphanLimitIsPositive DEF OrphansInv
<1>5. Cardinality(orphans') <= OrphanLimit
  BY <1>3, <1>4 DEF OrphansInv
<1> QED
  BY <1>2, <1>3, <1>5 DEF OrphansInv, OrphanLimit

(* Every step keeps the orphans waiting for parents that are not stored,   *)
(* within their limit.                                                     *)
LEMMA OrphansStep ==
  ASSUME ResetsCommit, IInv, OrphansInv, [Next]_vars
  PROVE  OrphansInv'
<1>1. ASSUME NEW b \in Blocks, NEW m \in BOOLEAN, AddOrphan(b, m) PROVE OrphansInv'
  <2>1. PICK kept \in Limited(orphans \ WaitingFor(Parent[b])) :
          orphans' = kept \cup {[block |-> b, mutated |-> m]}
    BY <1>1 DEF AddOrphan
  <2> DEFINE o == [block |-> b, mutated |-> m]
             os == orphans \ WaitingFor(Parent[b])
  <2>2. IsFiniteSet(os) /\ Cardinality(os) <= Cardinality(orphans)
    BY FS_Subset DEF OrphansInv
  <2>3. Cardinality(os) \in Nat /\ Cardinality(orphans) \in Nat /\ OrphanLimit \in Nat
    BY <2>2, FS_CardinalityType, OrphanLimitIsPositive DEF OrphansInv
  <2>4. Cardinality(os) <= OrphanLimit
    BY <2>2, <2>3 DEF OrphansInv
  <2>5. kept \subseteq os /\ IsFiniteSet(kept) /\ Cardinality(kept) + 1 <= OrphanLimit
    <3> HIDE DEF os
    <3> QED
      BY <2>1, <2>2, <2>4, LimitedLeavesRoom DEF os
  <2>6. IsFiniteSet(orphans') /\ Cardinality(orphans') <= Cardinality(kept) + 1
    <3>1. /\ IsFiniteSet(kept \cup {o})
          /\ Cardinality(kept \cup {o}) = IF o \in kept THEN Cardinality(kept) ELSE Cardinality(kept) + 1
      BY <2>5, FS_AddElement
    <3>2. Cardinality(kept) \in Nat
      BY <2>5, FS_CardinalityType
    <3> QED
      BY <2>1, <3>1, <3>2
  <2>7. Cardinality(orphans') <= OrphanLimit
    <3>1. Cardinality(kept) \in Nat /\ Cardinality(orphans') \in Nat
      BY <2>5, <2>6, FS_CardinalityType
    <3> QED
      BY <2>3, <2>5, <2>6, <3>1
  <2>8. \A p \in orphans' : Parent[p.block] \notin entries'
    <3>1. Parent[b] \notin entries /\ entries' = entries
      BY <1>1 DEF AddOrphan, disk
    <3> QED
      BY <2>1, <2>5, <3>1 DEF OrphansInv
  <2> QED
    BY <2>6, <2>7, <2>8 DEF OrphansInv, OrphanLimit
<1>2. ASSUME NEW b \in Blocks, NEW m \in BOOLEAN, AddConnect(b, m) PROVE OrphansInv'
  BY <1>2, OrphansShrink DEF AddConnect, disk
<1>3. CASE Quiet \/ GivesUp \/ Removing
  BY <1>3, OrphansShrink DEF Quiet, GivesUp, Abort, Removing, RemoveChains, disk
<1>4. CASE SaveAlternate
  <2>1. job.block \in Linked /\ job.block \notin entries
    BY <1>4, ConnectingJob DEF SaveAlternate, IsAlternate
  <2> QED
    BY <1>4, <2>1, OrphansResolve DEF SaveAlternate, SaveEntry
<1>5. CASE SaveNext
  <2>1. job.block \in Linked /\ job.block \notin entries
    BY <1>5, ConnectingJob DEF SaveNext, IsNext
  <2> QED
    BY <1>5, <2>1, OrphansResolve DEF SaveNext, SaveEntry
<1>6. CASE DisconnectTip \/ ReconnectNext
  BY <1>6, OrphansShrink DEF DisconnectTip, ReconnectNext
<1>7. CASE ResetStep
  BY <1>7, OrphansShrink DEF ResetStep, memory
<1>8. CASE ResetDone \/ Restart
  BY <1>8, OrphansShrink DEF ResetDone, Restart, disk
<1> QED
  BY <1>1, <1>2, <1>3, <1>4, <1>5, <1>6, <1>7, <1>8, StepKinds DEF Starting

(* Whatever the order in which blocks arrive, an orphan is a block whose   *)
(* parent the chain lacks, two never wait for the same parent (addOrphan   *)
(* asserts it), and there are never more than maxOrphans of them.          *)
THEOREM OrphansCorrect ==
  ASSUME ResetsCommit
  PROVE  Spec => []OrphansAwaitParents
<1>1. ASSUME Init PROVE OrphansInv
  <2>1. orphans = {} /\ IsFiniteSet(orphans) /\ Cardinality(orphans) = 0
    BY <1>1, FS_EmptySet DEF Init
  <2>2. 0 <= OrphanLimit
    BY OrphanLimitIsPositive
  <2> QED
    BY <2>1, <2>2 DEF OrphansInv
<1>2. IInv /\ OrphansInv /\ [Next]_vars => OrphansInv'
  BY OrphansStep
<1>3. IInv /\ OrphansInv => OrphansAwaitParents
  BY DEF IInv, OrphansApart, OrphansInv, OrphanLimit, OrphanBlocks, OrphansAwaitParents
<1> QED
  BY Invariance, <1>1, <1>2, <1>3, PTL DEF Spec

-----------------------------------------------------------------------------
(* The tip index.  It covers every branch as long as no tip is left in the *)
(* middle of one: by a reset, for a full node, whose failed reorganisation *)
(* leaves the main tip without a record (the run chain_stray_branch); an   *)
(* SPV node's reorganisation is itself a reset, and its tip has no child.  *)
Tracked == Spv \/ AdminOps = {}

TipsInv ==
  /\ \A b \in entries \ {Genesis} : Parent[b] \in entries
  /\ \A b \in entries : (\A c \in entries : Parent[c] # b) => b \in tips
  /\ \A t \in tips : t \in entries /\ \A c \in entries : Parent[c] # t
  /\ job.op = "connect" => Parent[job.block] \in entries
  /\ job.op = "resetting" => Spv /\ entries = Path[best]
  /\ Spv => ~stranded /\ ~job.undone /\ \A b \in entries : Work[b] <= Work[best]

(* Of two blocks of a path, the lower one is on the path of the other.     *)
LEMMA PathIsLine ==
  ASSUME NEW t \in Blocks, NEW x \in Path[t], NEW z \in Path[t], Height[x] <= Height[z]
  PROVE  x \in Path[z]
<1> DEFINE Bad == {y \in Path[t] : Height[x] <= Height[y] /\ x \notin Path[y]}
<1>1. SUFFICES ASSUME Bad # {} PROVE FALSE
  OBVIOUS
<1>2. Bad \subseteq Blocks
  BY PathAssumption
<1>3. PICK y \in Bad : \A w \in Bad : Height[y] <= Height[w]
  <2> HIDE DEF Bad
  <2> QED
    BY <1>1, <1>2, LowestBlock
<1>4. x \in Blocks /\ y \in Blocks /\ Height[x] \in Nat /\ Height[y] \in Nat
  BY <1>2, <1>3, PathAssumption, HeightAssumption
<1>5. Height[x] # Height[y]
  BY <1>3, <1>4, PathLevels, PathOrder
<1>6. y # Genesis
  BY <1>3, <1>4, <1>5, HeightAssumption
<1>7. y \in Linked /\ Parent[y] \in Path[t]
  BY <1>3, <1>6, PathParent
<1>8. Height[y] = Height[Parent[y]] + 1 /\ Height[Parent[y]] \in Nat /\ Path[y] = Path[Parent[y]] \cup {y}
  BY <1>7, LinkedBlock
<1>9. Height[x] <= Height[Parent[y]]
  BY <1>3, <1>4, <1>5, <1>8
<1>10. x \in Path[Parent[y]]
  BY <1>3, <1>4, <1>7, <1>8, <1>9
<1> QED
  BY <1>3, <1>8, <1>10

(* Work grows from a block to its children.                                *)
LEMMA HeavierThanParent ==
  ASSUME NEW b \in Blocks, NEW c \in Blocks, Parent[c] = b
  PROVE  c \in Linked /\ Work[b] \in Nat /\ Work[c] \in Nat /\ Work[b] < Work[c]
         /\ Path[c] = Path[b] \cup {c}
BY TreeAssumption, HeightAssumption, PathAssumption DEF Linked

(* Every entry of an SPV node is below a tip.                              *)
LEMMA BranchHasTip ==
  ASSUME IInv, TipsInv, Spv, NEW x \in entries
  PROVE  \E t \in tips : x \in Path[t]
<1> DEFINE Over == {y \in entries : x \in Path[y]}
           Gaps == {Work[best] - Work[y] : y \in Over}
<1>1. entries \subseteq Blocks /\ best \in Blocks
  BY DEF IInv, TypeOK
<1>2. x \in Over
  BY <1>1, PathOrder
<1>3. \A y \in Over : y \in Blocks /\ Work[y] \in Nat /\ Work[best] \in Nat /\ Work[y] <= Work[best]
  BY <1>1, HeightAssumption DEF TipsInv
<1>4. Gaps \subseteq Nat /\ Gaps # {}
  BY <1>2, <1>3
<1>5. PICK g \in Gaps : \A e \in Gaps : g <= e
  <2> HIDE DEF Gaps
  <2> QED
    BY <1>4, LeastNumber
<1>6. PICK y \in Over : g = Work[best] - Work[y]
  BY <1>5
<1>7. ASSUME NEW z \in Over PROVE Work[z] <= Work[y]
  <2>1. g <= Work[best] - Work[z]
    BY <1>5
  <2> QED
    BY <1>3, <1>6, <2>1
<1>8. ASSUME NEW c \in entries, Parent[c] = y PROVE FALSE
  <2>1. Work[y] < Work[c] /\ Path[c] = Path[y] \cup {c} /\ Work[y] \in Nat /\ Work[c] \in Nat
    BY <1>1, <1>3, <1>8, HeavierThanParent
  <2>2. c \in Over
    BY <2>1
  <2> QED
    BY <1>7, <2>1, <2>2
<1>9. y \in tips
  BY <1>8 DEF TipsInv
<1> QED
  BY <1>9

(* removeChains leaves the main chain and nothing else.                    *)
LEMMA RemovalIsComplete ==
  ASSUME IInv, TipsInv, Spv, tip = best
  PROVE  entries \ Alternates = Path[best]
<1>1. entries \subseteq Blocks /\ best \in Blocks /\ tips \subseteq Blocks /\ Path[best] \subseteq entries
  BY DEF IInv, TypeOK, DiskInv, IndicesAgree
<1>2. Alternates \cap Path[best] = {}
  BY AlternatesOffMain DEF IInv
<1>3. ASSUME NEW x \in entries, x \notin Path[best] PROVE x \in Alternates
  <2>1. PICK t \in tips : x \in Path[t]
    BY BranchHasTip
  <2>2. ASSUME NEW y \in Path[t], Height[y] >= Height[x], IsMain(y) PROVE FALSE
    <3>1. y \in Blocks /\ x \in Blocks /\ t \in Blocks
      BY <1>1, PathAssumption
    <3>2. y \in Path[best]
      BY <2>2, <3>1, MainBlocks DEF IInv
    <3>3. Height[x] <= Height[y]
      BY <2>2, <3>1, HeightAssumption
    <3>4. x \in Path[y]
      BY <2>1, <3>1, <3>3, PathIsLine
    <3>5. x \in Path[best]
      BY <1>1, <3>2, <3>4, PathIncludes
    <3> QED
      BY <1>3, <3>5
  <2> QED
    BY <2>1, <2>2 DEF Alternates
<1> QED
  BY <1>1, <1>2, <1>3

(* An SPV node takes the main chain for all it knows.                      *)
LEMMA RemovingTips ==
  ASSUME Tracked, IInv, TipsInv, Removing
  PROVE  TipsInv'
<1>1. Spv /\ tip = best /\ best \in Blocks
  BY DEF Tracked, Removing, IInv, TipIsDurable, TypeOK
<1>2. /\ entries' = entries \ Alternates /\ tips' = tips \ Alternates /\ best' = best
      /\ stranded' = stranded /\ job'.op = "resetting" /\ job'.undone = FALSE
  BY DEF Removing, RemoveChains, Resetting, Idle
<1>3. entries' = Path[best]
  BY <1>1, <1>2, RemovalIsComplete
<1>4. entries \subseteq Blocks /\ Path[best] \subseteq entries
  BY DEF IInv, TypeOK, DiskInv, IndicesAgree
<1>5. best \in tips
  <2>1. ASSUME NEW c \in entries, Parent[c] = best PROVE FALSE
    <3>1. Work[best] < Work[c] /\ Work[best] \in Nat /\ Work[c] \in Nat
      BY <1>1, <1>4, <2>1, HeavierThanParent
    <3> QED
      BY <1>1, <3>1 DEF TipsInv
  <2>2. best \in entries
    BY <1>1, <1>4, PathOrder
  <2> QED
    BY <2>1, <2>2 DEF TipsInv
<1>6. best \in tips'
  BY <1>1, <1>2, <1>3, <1>5, PathOrder
<1>7. \A b \in entries' \ {Genesis} : Parent[b] \in entries'
  BY <1>1, <1>3, PathParent
<1>8. \A b \in entries' : (\A c \in entries' : Parent[c] # b) => b \in tips'
  BY <1>1, <1>3, <1>6, PathChild
<1>9. \A t \in tips' : t \in entries' /\ \A c \in entries' : Parent[c] # t
  BY <1>2 DEF TipsInv
<1>10. \A b \in entries' : Work[b] <= Work[best']
  BY <1>1, <1>2 DEF TipsInv
<1> QED
  BY <1>1, <1>2, <1>3, <1>7, <1>8, <1>9, <1>10 DEF TipsInv

(* A new entry takes its parent's place among the tips.                    *)
LEMMA SavingTips ==
  ASSUME IInv, TipsInv, SaveAlternate \/ SaveNext
  PROVE  TipsInv'
<1> DEFINE b == job.block
<1>1. job.op = "connect" /\ SaveEntry(b) /\ Finish(b) /\ stranded' = stranded
  BY DEF SaveAlternate, SaveNext, IsAlternate, IsNext
<1>2. b \in Linked /\ b \in Blocks /\ b \notin entries /\ tip = best /\ tip \in Blocks
      /\ entries \subseteq Blocks
  BY <1>1, ConnectingJob DEF IInv, TypeOK
<1>3. Parent[b] \in entries /\ Parent[b] # b
  BY <1>1, <1>2 DEF TipsInv
<1>4. entries' = entries \cup {b} /\ tips' = (tips \ {Parent[b]}) \cup {b}
  BY <1>1 DEF SaveEntry
<1> HIDE DEF b
<1>5. ASSUME NEW c \in entries' PROVE Parent[c] # b
  <2>1. CASE c = Genesis
    BY <1>2, <2>1, TreeAssumption
  <2>2. CASE c \in entries \ {Genesis}
    BY <1>2, <2>2 DEF TipsInv
  <2> QED
    BY <1>3, <1>4, <2>1, <2>2
<1>6. \A x \in entries' \ {Genesis} : Parent[x] \in entries'
  BY <1>3, <1>4 DEF TipsInv
<1>7. \A x \in entries' : (\A c \in entries' : Parent[c] # x) => x \in tips'
  BY <1>4 DEF TipsInv
<1>8. \A t \in tips' : t \in entries' /\ \A c \in entries' : Parent[c] # t
  BY <1>4, <1>5 DEF TipsInv
<1>9. /\ job'.op # "resetting" /\ ~job'.undone
      /\ job'.op = "connect" => Parent[job'.block] \in entries'
  <2>1. CASE WaitingFor(b) = {}
    BY <1>1, <2>1 DEF Finish, Idle, b
  <2>2. CASE WaitingFor(b) # {}
    <3>1. PICK o \in WaitingFor(b) : job' = Connecting(o.block, o.mutated)
      BY <1>1, <2>2 DEF Finish, b
    <3>2. Parent[o.block] = b
      BY DEF WaitingFor
    <3> QED
      BY <1>4, <3>1, <3>2 DEF Connecting, Idle
  <2> QED
    BY <2>1, <2>2
<1>10. ASSUME Spv PROVE \A x \in entries' : Work[x] <= Work[best']
  <2>1. \A x \in entries' : Work[x] \in Nat
    BY <1>2, <1>4, HeightAssumption
  <2>2. Work[best] \in Nat /\ Work[b] \in Nat /\ \A x \in entries : Work[x] <= Work[best]
    BY <1>2, <1>10, HeightAssumption DEF TipsInv
  <2>3. CASE SaveAlternate
    <3>1. best' = best /\ Work[b] <= Work[best]
      BY <1>2, <2>2, <2>3 DEF SaveAlternate, IsAlternate, MoreWork, b
    <3> QED
      BY <1>4, <2>2, <3>1
  <2>4. CASE SaveNext
    <3>1. best' = b /\ Work[b] > Work[best]
      BY <1>2, <2>4 DEF SaveNext, IsNext, MoreWork, ConnectBlock, b
    <3> QED
      BY <1>4, <2>1, <2>2, <3>1
  <2> QED
    BY <2>3, <2>4
<1> QED
  BY <1>1, <1>6, <1>7, <1>8, <1>9, <1>10 DEF TipsInv

(* A reset walks the tip down.                                             *)
LEMMA ResetStepTips ==
  ASSUME IInv, TipsInv, ResetStep
  PROVE  TipsInv'
<1> DEFINE p == Parent[best]
<1>1. Spv /\ entries = Path[best] /\ best # Genesis /\ best \in Blocks /\ best \in Linked
  BY DEF ResetStep, TipsInv, IInv, TypeOK, Linked
<1>2. p \in Blocks /\ Path[best] = Path[p] \cup {best} /\ best \notin Path[p]
  BY <1>1, LinkedBlock
<1>3. /\ entries' = Path[p] /\ best' = p /\ tips' = (tips \ {best}) \cup {p}
      /\ job' = job /\ stranded' = stranded
  BY <1>1, <1>2 DEF ResetStep, DisconnectBlock, memory
<1>4. tips \subseteq {best}
  BY <1>1, PathChild DEF TipsInv
<1>5. tips' = {p}
  BY <1>3, <1>4
<1>6. \A x \in entries' \ {Genesis} : Parent[x] \in entries'
  BY <1>2, <1>3, PathParent
<1>7. \A x \in entries' : (\A c \in entries' : Parent[c] # x) => x \in tips'
  BY <1>2, <1>3, <1>5, PathChild
<1>8. \A t \in tips' : t \in entries' /\ \A c \in entries' : Parent[c] # t
  BY <1>2, <1>3, <1>5, PathOrder, NoChildOnPath
<1>9. \A x \in entries' : Work[x] <= Work[best']
  BY <1>2, <1>3, PathOrder, PathAssumption, HeightAssumption
<1> HIDE DEF p
<1>10. job.op = "resetting"
  BY DEF ResetStep
<1> QED
  BY <1>1, <1>3, <1>6, <1>7, <1>8, <1>9, <1>10 DEF TipsInv

(* Every step keeps a tip above each stored block while resets track the   *)
(* tips.                                                                   *)
LEMMA TipsStep ==
  ASSUME ResetsCommit, Tracked, IInv, TipsInv, [Next]_vars
  PROVE  TipsInv'
<1>1. CASE Quiet
  BY <1>1 DEF Quiet, disk, TipsInv
<1>2. CASE GivesUp
  BY <1>2 DEF GivesUp, Abort, disk, Idle, TipsInv
<1>3. CASE Removing
  BY <1>3, RemovingTips
<1>4. CASE Starting
  <2>1. PICK b \in Blocks, m \in BOOLEAN : job.op = "idle" /\ (AddOrphan(b, m) \/ AddConnect(b, m))
    BY <1>4 DEF Starting
  <2>2. CASE AddOrphan(b, m)
    BY <2>1, <2>2 DEF AddOrphan, disk, TipsInv
  <2>3. CASE AddConnect(b, m)
    <3>1. job'.op = "connect" /\ job'.block = b /\ job'.undone = FALSE /\ Parent[b] \in entries
      BY <2>3 DEF AddConnect, Connecting, Idle
    <3> QED
      BY <2>3, <3>1 DEF AddConnect, disk, TipsInv
  <2> QED
    BY <2>1, <2>2, <2>3
<1>5. CASE SaveAlternate \/ SaveNext
  BY <1>5, SavingTips
<1>6. CASE DisconnectTip
  <2>1. ~Spv /\ UNCHANGED <<entries, tips>> /\ job.op = "connect"
    BY <1>6 DEF DisconnectTip, IsFork
  <2>2. job'.op = job.op /\ job'.block = job.block
    BY <1>6, TypeSplits DEF DisconnectTip, IInv, MemoryTypeOK, JobType
  <2> QED
    BY <2>1, <2>2 DEF TipsInv
<1>7. CASE ReconnectNext
  <2>1. ~Spv /\ UNCHANGED <<entries, tips, job>> /\ job.op = "connect"
    BY <1>7 DEF ReconnectNext, IsFork
  <2> QED
    BY <2>1 DEF TipsInv
<1>8. CASE ResetStep
  BY <1>8, ResetStepTips
<1>9. CASE ResetDone
  BY <1>9 DEF ResetDone, disk, Idle, TipsInv
<1>10. CASE Restart
  BY <1>10 DEF Restart, disk, Idle, TipsInv
<1> QED
  BY <1>1, <1>2, <1>3, <1>4, <1>5, <1>6, <1>7, <1>8, <1>9, <1>10, StepKinds

(* So a tip above each stored block is an invariant.                       *)
LEMMA TipsInvariance ==
  ASSUME ResetsCommit, Tracked
  PROVE  Spec => []TipsInv
<1>1. ASSUME Init PROVE TipsInv
  <2>1. /\ entries = {Genesis} /\ tips = {Genesis} /\ best = Genesis /\ stranded = FALSE
        /\ job.op = "idle" /\ job.undone = FALSE
    BY <1>1 DEF Init, Idle
  <2>2. Parent[Genesis] # Genesis /\ Work[Genesis] <= Work[Genesis]
    BY TreeAssumption, HeightAssumption
  <2> QED
    BY <2>1, <2>2 DEF TipsInv
<1>2. IInv /\ TipsInv /\ [Next]_vars => TipsInv'
  BY TipsStep
<1> QED
  BY Invariance, <1>1, <1>2, PTL DEF Spec

(* Entries form a tree, and every branch of it hangs from the tip index:   *)
(* for an SPV node always, for a full node as long as it is never reset.   *)
THEOREM BranchesCorrect ==
  ASSUME ResetsCommit, Tracked
  PROVE  Spec => []BranchesHaveTips
<1>1. TipsInv => BranchesHaveTips
  BY DEF TipsInv, BranchesHaveTips
<1> QED
  BY TipsInvariance, <1>1, PTL

(* A reset of an SPV node, and so every reorganisation of its chain, does  *)
(* leave the main chain and nothing else.                                  *)
THEOREM SpvResetIsComplete ==
  ASSUME ResetsCommit, Spv
  PROVE  Spec => ResetLeavesMainChain
<1>1. TipsInv => [ResetDone => entries' = Path[best']]_vars
  BY DEF TipsInv, ResetDone, disk
<1> QED
  BY TipsInvariance, <1>1, PTL DEF Tracked, ResetLeavesMainChain

(* An SPV node's durable tip has the most work of all it has recorded, at  *)
(* every moment and whatever failed before.                                *)
THEOREM SpvTipIsHeaviest ==
  ASSUME ResetsCommit, Spv
  PROVE  Spec => [](\A b \in entries : Work[b] <= Work[best])
<1>1. TipsInv => \A b \in entries : Work[b] <= Work[best]
  BY DEF TipsInv
<1> QED
  BY TipsInvariance, <1>1, PTL DEF Tracked

-----------------------------------------------------------------------------
(* The rules in force.  Only a disconnection parts them from the tip; from *)
(* then on the job has more work than the tip, so it either reaches a      *)
(* block whose rules it installs or dies and leaves the chain stranded.    *)
RulesInv ==
  /\ job.undone => job.op = "connect" /\ Work[tip] < Work[job.block]
  /\ ~stranded /\ job.op # "resetting" /\ ~job.undone => rules = tip

(* Work, when a job has more of it than the tip.                           *)
LEMMA ForkWork ==
  ASSUME IInv, job.op = "connect", MoreWork(job.block)
  PROVE  Work[tip] \in Nat /\ Work[job.block] \in Nat /\ Work[tip] < Work[job.block]
<1>1. tip \in Blocks /\ job.block \in Blocks
  BY ConnectingJob
<1> QED
  BY <1>1, HeightAssumption DEF MoreWork

(* The tip goes one block down ...                                         *)
LEMMA DisconnectedWork ==
  ASSUME IInv, DisconnectTip
  PROVE  /\ job'.op = "connect" /\ job'.block = job.block /\ job'.undone
         /\ tip' \in Blocks /\ Work[tip'] < Work[tip]
         /\ UNCHANGED <<entries, rules, stranded>>
<1>1. job.op = "connect" /\ tip \in Blocks /\ job.block \in Blocks /\ tip # Genesis
  BY ConnectingJob, PathOrder DEF DisconnectTip, IsFork, Above
<1>2. job'.op = job.op /\ job'.block = job.block /\ job'.undone
  BY TypeSplits DEF DisconnectTip, IInv, MemoryTypeOK, JobType
<1>3. tip \in Linked /\ tip' = Parent[tip]
  BY <1>1 DEF DisconnectTip, Linked
<1>4. tip' \in Blocks /\ Work[tip'] < Work[tip]
  BY <1>3, LinkedBlock, HeightAssumption
<1> QED
  BY <1>1, <1>2, <1>4 DEF DisconnectTip

(* ... or one block up, and stays below the job's block.                   *)
LEMMA ReconnectedWork ==
  ASSUME IInv, ReconnectNext
  PROVE  /\ job.op = "connect" /\ rules' = tip' /\ tip' \in Blocks
         /\ Work[tip] < Work[tip'] /\ Work[tip'] < Work[job.block]
         /\ UNCHANGED <<entries, job, stranded>>
<1> DEFINE s == Successor
<1>1. s \in Path[job.block] /\ Parent[s] = tip /\ s \in Linked /\ s # job.block
  BY SuccessorExists DEF ReconnectNext
<1>2. job.op = "connect" /\ job.block \in Blocks
  BY ConnectingJob DEF ReconnectNext, IsFork
<1>3. tip' = s /\ rules' = s
  BY DEF ReconnectNext, ConnectBlock, Expose
<1> HIDE DEF s
<1>4. s \in Blocks /\ Work[tip] < Work[s]
  BY <1>1, LinkedBlock, HeightAssumption
<1>5. Work[s] < Work[job.block]
  BY <1>1, <1>2, PathOrder
<1> QED
  BY <1>2, <1>3, <1>4, <1>5 DEF ReconnectNext

(* connect() returned: the next job has not disconnected anything.         *)
LEMMA FinishedJob ==
  ASSUME NEW b, Finish(b)
  PROVE  job'.undone = FALSE /\ job'.op # "resetting"
<1>1. CASE WaitingFor(b) = {}
  BY <1>1 DEF Finish, Idle
<1>2. CASE WaitingFor(b) # {}
  BY <1>2 DEF Finish, Connecting, Idle
<1> QED
  BY <1>1, <1>2

(* Every step keeps the deployment rules those of the tip.                 *)
LEMMA RulesStep ==
  ASSUME ResetsCommit, IInv, RulesInv, [Next]_vars
  PROVE  RulesInv'
<1>1. CASE Quiet
  BY <1>1 DEF Quiet, RulesInv
<1>2. CASE GivesUp
  BY <1>2 DEF GivesUp, Abort, Idle, RulesInv
<1>3. CASE Removing
  BY <1>3 DEF Removing, RemoveChains, Resetting, Idle, RulesInv
<1>4. CASE Starting
  <2>1. PICK b \in Blocks, m \in BOOLEAN : job.op = "idle" /\ (AddOrphan(b, m) \/ AddConnect(b, m))
    BY <1>4 DEF Starting
  <2>2. CASE AddOrphan(b, m)
    BY <2>1, <2>2 DEF AddOrphan, RulesInv
  <2>3. CASE AddConnect(b, m)
    BY <2>1, <2>3 DEF AddConnect, Connecting, Idle, RulesInv
  <2> QED
    BY <2>1, <2>2, <2>3
<1>5. CASE SaveAlternate
  <2>1. ~(Work[tip] < Work[job.block])
    <3>1. tip \in Blocks /\ job.block \in Blocks /\ ~(Work[job.block] > Work[tip])
      BY <1>5, ConnectingJob DEF SaveAlternate, IsAlternate, MoreWork
    <3> QED
      BY <3>1, HeightAssumption
  <2>2. job'.undone = FALSE /\ job.op = "connect" /\ UNCHANGED <<tip, rules, stranded>>
    BY <1>5, FinishedJob DEF SaveAlternate, IsAlternate
  <2> QED
    BY <2>1, <2>2 DEF RulesInv
<1>6. CASE SaveNext
  <2>1. job'.undone = FALSE /\ rules' = tip'
    BY <1>6, FinishedJob DEF SaveNext, ConnectBlock, Expose
  <2> QED
    BY <2>1 DEF RulesInv
<1>7. CASE DisconnectTip
  <2>1. Work[tip'] < Work[job.block]
    <3>1. Work[tip] \in Nat /\ Work[job.block] \in Nat /\ Work[tip] < Work[job.block]
      BY <1>7, ForkWork DEF DisconnectTip, IsFork
    <3>2. Work[tip'] < Work[tip] /\ Work[tip'] \in Nat
      BY <1>7, DisconnectedWork, HeightAssumption
    <3> QED
      BY <3>1, <3>2
  <2> QED
    BY <1>7, <2>1, DisconnectedWork DEF RulesInv
<1>8. CASE ReconnectNext
  BY <1>8, ReconnectedWork DEF RulesInv
<1>9. CASE ResetStep
  BY <1>9 DEF ResetStep, memory, RulesInv
<1>10. CASE ResetDone
  BY <1>10 DEF ResetDone, Expose, Idle, RulesInv
<1>11. CASE Restart
  BY <1>11 DEF Restart, Expose, Idle, RulesInv
<1> QED
  BY <1>1, <1>2, <1>3, <1>4, <1>5, <1>6, <1>7, <1>8, <1>9, <1>10, <1>11, StepKinds

(* So rules that match the tip are an invariant.                           *)
LEMMA RulesInvariance ==
  ASSUME ResetsCommit
  PROVE  Spec => []RulesInv
<1>1. Init => RulesInv
  BY DEF Init, Idle, RulesInv
<1>2. IInv /\ RulesInv /\ [Next]_vars => RulesInv'
  BY RulesStep
<1> QED
  BY Invariance, <1>1, <1>2, PTL DEF Spec

(* Between jobs the deployment state is the tip's, unless a reorganisation *)
(* died half way.                                                          *)
THEOREM RulesCorrect ==
  ASSUME ResetsCommit
  PROVE  Spec => []RulesMatchTip
<1>1. IInv /\ RulesInv => RulesMatchTip
  BY DEF RulesInv, RulesMatchTip
<1> QED
  BY Invariance, RulesInvariance, <1>1, PTL

-----------------------------------------------------------------------------
(* The chain with most work.  While a job reorganises the chain its block  *)
(* has more work than every valid entry; otherwise the tip has the most.   *)
(* A crash may catch a reset before it has removed what a stray branch     *)
(* left, so the property asks for crashes or for resets, not for both.     *)
Steady == Tracked \/ "crash" \notin Faults

Candidates == {b \in entries : Spv \/ ValidPath(b)}

WorkInv ==
  ~stranded /\ job.op # "resetting" =>
    \A b \in Candidates :
      IF job.undone THEN Work[b] < Work[job.block] ELSE Work[b] <= Work[tip]

(* Every step keeps the tip at least as heavy as every candidate.          *)
LEMMA WorkStep ==
  ASSUME ResetsCommit, Steady, IInv, RulesInv, WorkInv, Tracked => TipsInv, [Next]_vars
  PROVE  WorkInv'
<1> USE DEF Candidates
<1>1. CASE Quiet
  BY <1>1 DEF Quiet, disk, WorkInv
<1>2. CASE GivesUp
  BY <1>2 DEF GivesUp, Abort, disk, Idle, WorkInv
<1>3. CASE Removing
  BY <1>3 DEF Removing, RemoveChains, Resetting, Idle, WorkInv
<1>4. CASE Starting
  <2>1. PICK b \in Blocks, m \in BOOLEAN : job.op = "idle" /\ (AddOrphan(b, m) \/ AddConnect(b, m))
    BY <1>4 DEF Starting
  <2>2. CASE AddOrphan(b, m)
    BY <2>1, <2>2 DEF AddOrphan, disk, WorkInv
  <2>3. CASE AddConnect(b, m)
    <3>1. job'.undone = FALSE /\ ~job.undone
      BY <2>1, <2>3 DEF AddConnect, Connecting, Idle, RulesInv
    <3> QED
      BY <2>1, <2>3, <3>1 DEF AddConnect, disk, WorkInv
  <2> QED
    BY <2>1, <2>2, <2>3
<1>5. entries \subseteq Blocks /\ \A b \in entries : Work[b] \in Nat
  BY HeightAssumption DEF IInv, TypeOK
<1>6. CASE SaveAlternate
  <2>1. /\ job.op = "connect" /\ tip \in Blocks /\ job.block \in Blocks
        /\ Work[tip] \in Nat /\ Work[job.block] \in Nat /\ Work[job.block] <= Work[tip]
    <3>1. job.op = "connect" /\ ~(Work[job.block] > Work[tip])
      BY <1>6 DEF SaveAlternate, IsAlternate, MoreWork
    <3> QED
      BY <3>1, ConnectingJob, HeightAssumption
  <2>2. job'.undone = FALSE /\ job'.op # "resetting" /\ UNCHANGED <<tip, stranded>>
        /\ entries' = entries \cup {job.block}
    BY <1>6, FinishedJob DEF SaveAlternate, SaveEntry
  <2>3. ~job.undone
    BY <2>1 DEF RulesInv
  <2> QED
    BY <2>1, <2>2, <2>3 DEF WorkInv
<1>7. CASE SaveNext
  <2>1. job.op = "connect" /\ Work[tip] \in Nat /\ Work[job.block] \in Nat /\ Work[tip] < Work[job.block]
    BY <1>7, ForkWork DEF SaveNext, IsNext
  <2>2. job'.undone = FALSE /\ tip' = job.block /\ stranded' = stranded
        /\ entries' = entries \cup {job.block}
    BY <1>7, FinishedJob DEF SaveNext, SaveEntry, ConnectBlock, Expose
  <2> QED
    BY <1>5, <2>1, <2>2 DEF WorkInv
<1>8. CASE DisconnectTip
  <2>1. job.op = "connect" /\ Work[tip] \in Nat /\ Work[job.block] \in Nat /\ Work[tip] < Work[job.block]
    BY <1>8, ForkWork DEF DisconnectTip, IsFork
  <2>2. job'.block = job.block /\ job'.undone /\ UNCHANGED <<entries, stranded>>
    BY <1>8, DisconnectedWork
  <2> QED
    BY <1>5, <2>1, <2>2 DEF WorkInv
<1>9. CASE ReconnectNext
  <2>1. tip \in Blocks /\ Work[tip] \in Nat /\ Work[tip'] \in Nat
    BY <1>9, ReconnectedWork, HeightAssumption DEF IInv, TypeOK
  <2> QED
    BY <1>5, <1>9, <2>1, ReconnectedWork DEF WorkInv
<1>10. CASE ResetStep
  BY <1>10 DEF ResetStep, memory, WorkInv
<1>11. \A b \in Path[best] : Work[b] <= Work[best]
  <2>1. best \in Blocks /\ Work[best] \in Nat
    BY HeightAssumption DEF IInv, TypeOK
  <2>2. \A b \in Path[best] : b # best => Work[b] < Work[best] /\ Work[b] \in Nat
    BY <2>1, PathOrder, PathAssumption, HeightAssumption
  <2> QED
    BY <2>1, <2>2
<1>12. CASE ResetDone
  <2>1. tip' = best /\ job' = Idle /\ entries' = entries /\ stranded' = (entries # Path[best])
    BY <1>12 DEF ResetDone, Expose, disk
  <2> QED
    BY <1>11, <2>1 DEF Idle, WorkInv
<1>13. CASE Restart
  <2>1. tip' = best /\ job' = Idle /\ entries' = entries /\ stranded' = (stranded \/ job.undone)
    BY <1>13 DEF Restart, Expose, disk
  <2>2. CASE job.op = "resetting"
    <3>1. entries = Path[best]
      BY <1>13, <2>2 DEF Restart, Steady, TipsInv
    <3> QED
      BY <1>11, <2>1, <3>1 DEF Idle, WorkInv
  <2>3. CASE job.op # "resetting"
    BY <2>1, <2>3 DEF Idle, WorkInv, IInv, TipIsDurable
  <2> QED
    BY <2>2, <2>3
<1> QED
  BY <1>1, <1>2, <1>3, <1>4, <1>6, <1>7, <1>8, <1>9, <1>10, <1>12, <1>13, StepKinds

(* Between jobs no recorded valid chain has more work than the tip, unless *)
(* a reorganisation or a reset died half way since: whatever the order in  *)
(* which blocks and branches arrive, and however often they overtake one   *)
(* another.                                                                *)
THEOREM MostWorkCorrect ==
  ASSUME ResetsCommit, Steady
  PROVE  Spec => []TipHasMostWork
<1>1. ASSUME Init PROVE WorkInv
  <2>1. entries = {Genesis} /\ tip = Genesis /\ job.undone = FALSE
    BY <1>1 DEF Init, Idle
  <2>2. Work[Genesis] <= Work[Genesis]
    BY TreeAssumption, HeightAssumption
  <2> QED
    BY <2>1, <2>2 DEF WorkInv, Candidates
<1>2. Spec => [](Tracked => TipsInv)
  <2>1. CASE Tracked
    <3>1. TipsInv => (Tracked => TipsInv)
      OBVIOUS
    <3> QED
      BY <2>1, <3>1, TipsInvariance, PTL
  <2>2. CASE ~Tracked
    <3>1. Tracked => TipsInv
      BY <2>2
    <3> QED
      BY <3>1, PTL
  <2> QED
    BY <2>1, <2>2
<1>3. IInv /\ RulesInv /\ WorkInv /\ (Tracked => TipsInv) /\ [Next]_vars => WorkInv'
  BY WorkStep
<1>4. IInv /\ RulesInv /\ WorkInv => TipHasMostWork
  BY DEF RulesInv, WorkInv, Candidates, TipHasMostWork
<1> QED
  BY Invariance, RulesInvariance, <1>1, <1>2, <1>3, <1>4, PTL DEF Spec

-----------------------------------------------------------------------------
(* Bodies.  A pruned node is never reset, so that its chain only grows and *)
(* shrinks at the tip; no block is below its own pruning horizon.          *)
PruneInv ==
  Prune =>
    /\ \A b \in Path[best] \ stored :
         Height[b] > PruneAfter /\ \E c \in entries : Height[c] >= Height[b] + KeepBlocks
    /\ \A b \in Path[best] :
         PruneAfter < Height[b] /\ Height[b] <= Height[best] - KeepBlocks => b \notin stored

(* The block that goes on top moves the horizon up by one.                 *)
LEMMA ConnectPrunes ==
  ASSUME KeepBlocks > 0, IInv, PruneInv, Prune,
         NEW b \in Linked, Parent[b] = best, best' = b,
         b \in entries', entries \subseteq entries',
         stored' = (stored \cup {b}) \ Pruned(b)
  PROVE  PruneInv'
<1>1. /\ best \in Blocks /\ b \in Blocks /\ b \notin Path[best] /\ Path[b] = Path[best] \cup {b}
      /\ Height[b] = Height[best] + 1 /\ Height[b] \in Nat /\ Height[best] \in Nat
      /\ Path[best] \subseteq Blocks /\ ~Spv
  BY LinkedBlock, PathAssumption, ChainAssumption
<1>2. KeepBlocks \in Nat /\ PruneAfter \in Nat /\ \A x \in Blocks : Height[x] \in Nat
  BY ChainAssumption, HeightAssumption
<1>3. ASSUME NEW x \in Blocks
      PROVE  x \in Pruned(b) <=>
               x \in Path[best] /\ Height[x] = Height[b] - KeepBlocks /\ Height[x] > PruneAfter
  BY <1>1 DEF Pruned, IInv, DiskInv, IndicesAgree, Heights
<1>4. b \in stored'
  BY <1>1, <1>3
<1>5. ASSUME NEW x \in Path[b], x \notin stored'
      PROVE  Height[x] > PruneAfter /\ \E c \in entries' : Height[c] >= Height[x] + KeepBlocks
  <2>1. x \in Path[best]
    BY <1>1, <1>4, <1>5
  <2>2. CASE x \notin stored
    BY <2>1, <2>2 DEF PruneInv
  <2>3. CASE x \in stored
    <3>1. Height[x] = Height[b] - KeepBlocks /\ Height[x] > PruneAfter
      BY <1>1, <1>3, <1>5, <2>1, <2>3
    <3>2. Height[b] >= Height[x] + KeepBlocks
      BY <1>1, <1>2, <2>1, <3>1
    <3> QED
      BY <3>1, <3>2
  <2> QED
    BY <2>2, <2>3
<1>6. ASSUME NEW x \in Path[b], PruneAfter < Height[x], Height[x] <= Height[b] - KeepBlocks
      PROVE  x \notin stored'
  <2>1. x # b /\ x \in Path[best] /\ Height[x] \in Nat
    BY <1>1, <1>2, <1>6
  <2>2. CASE Height[x] <= Height[best] - KeepBlocks
    <3>1. x \notin stored
      BY <1>6, <2>1, <2>2 DEF PruneInv
    <3> QED
      BY <2>1, <3>1
  <2>3. CASE ~(Height[x] <= Height[best] - KeepBlocks)
    <3>1. Height[x] = Height[b] - KeepBlocks
      BY <1>1, <1>2, <1>6, <2>1, <2>3
    <3>2. x \in Pruned(b)
      BY <1>1, <1>2, <1>3, <1>6, <2>1, <3>1
    <3> QED
      BY <3>2
  <2> QED
    BY <2>2, <2>3
<1> QED
  BY <1>5, <1>6 DEF PruneInv

(* Every step keeps what is pruned out of reach of any entry's undoing.    *)
LEMMA PruneStep ==
  ASSUME KeepBlocks > 0, ResetsCommit, IInv, PruneInv, [Next]_vars
  PROVE  PruneInv'
<1> SUFFICES ASSUME Prune PROVE PruneInv'
  BY DEF PruneInv
<1>1. CASE UNCHANGED <<entries, best, stored>>
  BY <1>1 DEF PruneInv
<1>2. ~Spv
  BY ChainAssumption
<1>3. CASE SaveAlternate
  <2>1. job.block \notin entries /\ Path[best] \subseteq entries
    BY <1>3, ConnectingJob DEF SaveAlternate, IsAlternate, IInv, DiskInv, IndicesAgree
  <2>2. best' = best /\ entries \subseteq entries' /\ stored' = stored \cup {job.block}
    BY <1>2, <1>3 DEF SaveAlternate, SaveEntry
  <2> QED
    BY <2>1, <2>2 DEF PruneInv
<1>4. CASE SaveNext
  <2>1. job.op = "connect" /\ job.block \in Linked /\ Parent[job.block] = best
    BY <1>4, ConnectingJob DEF SaveNext, IsNext
  <2>2. /\ best' = job.block /\ entries' = entries \cup {job.block}
        /\ stored' = (stored \cup {job.block}) \ Pruned(job.block)
    BY <1>2, <1>4 DEF SaveNext, SaveEntry, ConnectBlock
  <2> QED
    BY <2>1, <2>2, ConnectPrunes
<1>5. CASE ReconnectNext
  <2>1. Successor \in Linked /\ Parent[Successor] = best /\ Successor \in entries
    BY <1>5, ConnectingJob, SuccessorExists DEF ReconnectNext, IsFork
  <2>2. best' = Successor /\ entries' = entries /\ stored' = (stored \cup {Successor}) \ Pruned(Successor)
    BY <1>5 DEF ReconnectNext, ConnectBlock
  <2> QED
    BY <2>1, <2>2, ConnectPrunes
<1>6. CASE DisconnectTip
  <2>1. /\ tip = best /\ best \in Linked
        /\ best' = Parent[best] /\ entries' = entries /\ stored' = stored
    BY <1>6, ConnectingJob, PathOrder DEF DisconnectTip, IsFork, Above, DisconnectBlock, Linked
  <2>2. Path[best'] \subseteq Path[best] /\ Path[best'] \subseteq Blocks
        /\ Height[best'] \in Nat /\ Height[best] = Height[best'] + 1 /\ KeepBlocks \in Nat
    <3>1. /\ Parent[best] \in Blocks /\ Path[best] = Path[Parent[best]] \cup {best}
          /\ Height[Parent[best]] \in Nat /\ Height[best] = Height[Parent[best]] + 1
      BY <2>1, LinkedBlock
    <3>2. Path[Parent[best]] \subseteq Blocks
      BY <3>1, PathAssumption
    <3> QED
      BY <2>1, <3>1, <3>2, ChainAssumption
  <2>3. \A b \in Path[best'] : Height[b] \in Nat
    BY <2>2, HeightAssumption
  <2>4. \A b \in Path[best'] : Height[b] <= Height[best'] - KeepBlocks => Height[b] <= Height[best] - KeepBlocks
    BY <2>2, <2>3
  <2> QED
    BY <2>1, <2>2, <2>4 DEF PruneInv
<1>7. CASE Removing
  BY <1>7 DEF Removing
<1>8. CASE ResetStep
  BY <1>8 DEF ResetStep, IInv, JobWellFormed
<1>9. Quiet \/ GivesUp \/ Starting \/ ResetDone \/ Restart => UNCHANGED <<entries, best, stored>>
  BY DEF Quiet, GivesUp, Abort, Starting, AddOrphan, AddConnect, ResetDone, Restart, disk
<1> QED
  BY <1>1, <1>3, <1>4, <1>5, <1>6, <1>7, <1>8, <1>9, StepKinds

(* Without pruning no body is ever lost; with it the main chain has lost   *)
(* the bodies it should, and what it lost was deep enough at some time.    *)
(* Every network keeps at least one block (network.block.keepBlocks).      *)
THEOREM BodiesCorrect ==
  ASSUME ResetsCommit, KeepBlocks > 0
  PROVE  Spec => []BodiesKept
<1>1. ASSUME Init PROVE PruneInv
  <2>1. best = Genesis /\ Path[best] = {Genesis} /\ Height[Genesis] = 0
    BY <1>1, PathAssumption, HeightAssumption DEF Init
  <2>2. Prune => stored = {Genesis}
    BY <1>1, ChainAssumption DEF Init
  <2>3. PruneAfter \in Nat
    BY ChainAssumption
  <2> QED
    BY <2>1, <2>2, <2>3 DEF PruneInv
<1>2. IInv /\ PruneInv /\ [Next]_vars => PruneInv'
  BY PruneStep
<1>3. IInv /\ PruneInv => BodiesKept
  BY DEF IInv, DiskInv, BodiesPresent, IndicesAgree, PruneInv, BodiesKept
<1> QED
  BY Invariance, <1>1, <1>2, <1>3, PTL DEF Spec
=============================================================================
