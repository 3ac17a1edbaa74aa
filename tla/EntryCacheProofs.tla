-------------------------- MODULE EntryCacheProofs --------------------------
(***************************************************************************)
(* What module EntryCaches guarantees for every block tree, any number of  *)
(* readers and whenever the process dies.  A batch is on the disk before   *)
(* its caller brings the caches up to date, so between the two a cache may *)
(* hold what the old tip or the new one shows; the inductive invariant     *)
(* says of each cache, and of each read under way, which of the two.       *)
(***************************************************************************)
EXTENDS EntryCaches, WellFoundedInduction, TLAPS

-----------------------------------------------------------------------------
(* The block tree: Path[b] is the one path from the genesis block to b     *)
(* (module ChainProofs has the same facts for the chain).                  *)

(* A nonempty set of natural numbers has a least element.                  *)
LEMMA LeastNumber ==
  ASSUME NEW S, S \subseteq Nat, S # {}
  PROVE  \E m \in S : \A n \in S : m <= n
<1> DEFINE R == OpToRel(<, Nat)
<1>1. IsWellFoundedOn(R, Nat)
  BY NatLessThanWellFounded
<1>2. \A x, y \in Nat : <<y, x>> \in R <=> y < x
  BY DEF OpToRel
<1> HIDE DEF R
<1>3. PICK m \in S : \A y \in S : ~(<<y, m>> \in R)
  BY <1>1, WFMin
<1>4. ASSUME NEW n \in S PROVE m <= n
  <2>1. m \in Nat /\ n \in Nat
    OBVIOUS
  <2>2. ~(n < m)
    BY <1>2, <1>3, <2>1
  <2> QED
    BY <2>1, <2>2
<1> QED
  BY <1>4

(* A nonempty set of blocks has a lowest element.                          *)
LEMMA LowestBlock ==
  ASSUME NEW S, S \subseteq Blocks, S # {}
  PROVE  \E b \in S : \A c \in S : Height[b] <= Height[c]
<1> DEFINE H == {Height[b] : b \in S}
<1>1. H \subseteq Nat /\ H # {}
  BY HeightAssumption
<1>2. PICK m \in H : \A n \in H : m <= n
  BY <1>1, LeastNumber
<1> QED
  BY <1>2

(* A block and the genesis block are on the block's path; every other      *)
(* block of the path is lower and has less work.                           *)
LEMMA PathOrder ==
  ASSUME NEW b \in Blocks
  PROVE  /\ b \in Path[b]
         /\ Genesis \in Path[b]
         /\ \A a \in Path[b] : a # b => Height[a] < Height[b] /\ Work[a] < Work[b]
<1> DEFINE Ordered(x) ==
      /\ x \in Path[x]
      /\ Genesis \in Path[x]
      /\ \A a \in Path[x] : a # x => Height[a] < Height[x] /\ Work[a] < Work[x]
<1> DEFINE Bad == {x \in Blocks : ~Ordered(x)}
<1>1. SUFFICES ASSUME Bad # {} PROVE FALSE
  OBVIOUS
<1>2. PICK x \in Bad : \A y \in Bad : Height[x] <= Height[y]
  BY <1>1, LowestBlock
<1>3. CASE x = Genesis
  BY <1>2, <1>3, PathAssumption
<1>4. CASE x # Genesis
  <2>1. x \in Linked /\ Parent[x] \in Blocks
    BY <1>4, TreeAssumption DEF Linked
  <2>2. Height[x] = Height[Parent[x]] + 1 /\ Work[Parent[x]] < Work[x]
        /\ Path[x] = Path[Parent[x]] \cup {x}
    BY <2>1, HeightAssumption, PathAssumption
  <2>3. Height[x] \in Nat /\ Height[Parent[x]] \in Nat
    BY <2>1, HeightAssumption DEF Linked
  <2>4. Ordered(Parent[x])
    BY <1>2, <2>1, <2>2, <2>3
  <2>5. ASSUME NEW a \in Path[x], a # x PROVE Height[a] < Height[x] /\ Work[a] < Work[x]
    <3>1. a \in Path[Parent[x]] /\ a \in Blocks
      BY <2>1, <2>2, <2>5, PathAssumption
    <3>2. Work[a] \in Nat /\ Work[x] \in Nat /\ Work[Parent[x]] \in Nat /\ Height[a] \in Nat
      BY <2>1, <3>1, HeightAssumption DEF Linked
    <3> QED
      BY <2>2, <2>3, <2>4, <3>1, <3>2
  <2> QED
    BY <1>2, <2>2, <2>4, <2>5
<1> QED
  BY <1>3, <1>4

(* A path contains the paths of its blocks.                                *)
LEMMA PathIncludes ==
  ASSUME NEW b \in Blocks, NEW a \in Path[b]
  PROVE  a \in Blocks /\ Path[a] \subseteq Path[b]
<1> DEFINE Bad == {x \in Blocks : \E y \in Path[x] : ~(Path[y] \subseteq Path[x])}
<1>1. SUFFICES ASSUME Bad # {} PROVE FALSE
  BY PathAssumption
<1>2. PICK x \in Bad : \A y \in Bad : Height[x] <= Height[y]
  BY <1>1, LowestBlock
<1>3. CASE x = Genesis
  BY <1>2, <1>3, PathAssumption
<1>4. CASE x # Genesis
  <2>1. x \in Linked /\ Parent[x] \in Blocks
    BY <1>4, TreeAssumption DEF Linked
  <2>2. Height[x] = Height[Parent[x]] + 1 /\ Path[x] = Path[Parent[x]] \cup {x}
    BY <2>1, HeightAssumption, PathAssumption
  <2>3. Parent[x] \notin Bad
    BY <1>2, <2>1, <2>2, HeightAssumption
  <2> QED
    BY <1>2, <2>1, <2>2, <2>3
<1> QED
  BY <1>3, <1>4

(* Every block of a path but the first has its parent there.               *)
LEMMA PathParent ==
  ASSUME NEW b \in Blocks, NEW a \in Path[b], a # Genesis
  PROVE  a \in Linked /\ Parent[a] \in Path[b]
<1>1. a \in Blocks /\ Path[a] \subseteq Path[b]
  BY PathIncludes
<1>2. a \in Linked /\ Parent[a] \in Blocks /\ Parent[a] \in Path[Parent[a]]
  BY <1>1, TreeAssumption, PathOrder DEF Linked
<1> QED
  BY <1>1, <1>2, PathAssumption

-----------------------------------------------------------------------------
BatchOps == {"alternate", "connect", "disconnect", "remove chains", "remove"}

ReadType == [at : {"idle", "height", "entry", "coin"}, key : Blocks \cup Coins \cup {None},
             byHeight : BOOLEAN, same : BOOLEAN, late : Nat]

TypeOK ==
  /\ head \in Blocks /\ known \subseteq Blocks
  /\ byHash \subseteq Blocks /\ stale \subseteq Blocks
  /\ byHeight \in [Heights -> Blocks \cup {None}]
  /\ coinCache \subseteq Coins
  /\ work \in [op : {"idle", "reorganize", "reset"}, goal : Blocks \cup {None}]
  /\ reads \in [Readers -> ReadType]
  /\ \A r \in Readers : reads[r].at \in {"height", "entry"} => reads[r].key \in Blocks

(* A reorganisation walks to its goal, a reset down to a block of the main *)
(* chain.                                                                  *)
GoalInv ==
  /\ work.op = "reorganize" => work.goal \in Linked
  /\ work.op = "reset" => work.goal \in Path[head]

(* What a batch that is written has done to the main chain.                *)
BatchInv ==
  \/ batch = NoBatch
  \/ /\ batch.op \in {"alternate", "remove chains"} /\ batch.from = head
     /\ batch.op = "alternate" => batch.blocks \subseteq known
  \/ /\ batch.op = "connect" /\ batch.blocks = {head}
     /\ head \in Linked /\ batch.from = Parent[head]
  \/ /\ batch.op \in {"disconnect", "remove"} /\ batch.blocks = {batch.from}
     /\ batch.from \in Linked /\ head = Parent[batch.from]
     /\ SpendsCorrectly(batch.from, UtxoOf[head])

(* Every block of the main chain spends what its parent's coins have.      *)
SpendsInv == \A b \in Path[head] : b # Genesis => SpendsCorrectly(b, UtxoOf[Parent[b]])

(* The coins that a reader may have seen.                                  *)
Around == UtxoOf[head] \cup (IF batch = NoBatch THEN {} ELSE UtxoOf[batch.from])

CoinInv ==
  /\ coinCache \subseteq Around
  /\ \A r \in Readers : reads[r].at = "coin" /\ reads[r].same => reads[r].key \in Around

HashInv ==
  /\ Path[head] \subseteq known
  /\ byHash \subseteq known \cup stale \cup Removed

IInv == TypeOK /\ GoalInv /\ BatchInv /\ SpendsInv /\ CoinInv /\ HashInv

(* An entry may be cached under its height: it is the main chain's, or it  *)
(* is above the tip, or the commit that is under way puts another there.   *)
Placed(c) ==
  \/ c \in Path[head]
  \/ Height[c] > Height[head]
  \/ batch.op = "connect" /\ Height[c] = Height[head]

CellInv ==
  \A h \in Heights : byHeight[h] # None => Height[byHeight[h]] = h /\ Placed(byHeight[h])

HeightReadInv(r) ==
  reads[r].at = "height" =>
    \/ reads[r].key \in Path[head]
    \/ reads[r].late > 0 /\ Height[reads[r].key] > Height[head]

EntryReadInv(r) ==
  reads[r].at = "entry" /\ reads[r].byHeight /\ reads[r].same => Placed(reads[r].key)

HeightInv == CellInv /\ \A r \in Readers : HeightReadInv(r) /\ EntryReadInv(r)

-----------------------------------------------------------------------------
(* The three things a write does to the main chain.                        *)
Stays(op, blocks) ==
  /\ op \in {"alternate", "remove chains"} /\ Write(op, blocks)
  /\ op = "alternate" => blocks \subseteq known'
  /\ UNCHANGED <<head, coinCache, byHeight>>

Grows(b) ==
  /\ Write("connect", {b}) /\ b \in Linked /\ Parent[b] = head
  /\ SpendsCorrectly(b, UtxoOf[head])
  /\ head' = b /\ UNCHANGED <<coinCache, byHeight>>

Shrinks(op) ==
  /\ op \in {"disconnect", "remove"} /\ Write(op, {head}) /\ head \in Linked
  /\ head' = Parent[head] /\ UNCHANGED <<coinCache, byHeight>>

(* A block and its parent: path, height, coins.                            *)
LEMMA LinkedFacts ==
  ASSUME NEW b \in Linked
  PROVE  /\ b \in Blocks /\ b # Genesis /\ Parent[b] \in Blocks
         /\ Path[b] = Path[Parent[b]] \cup {b}
         /\ b \notin Path[Parent[b]]
         /\ Height[b] \in Nat /\ Height[Parent[b]] \in Nat
         /\ Height[b] = Height[Parent[b]] + 1
         /\ Height[b] \in Heights
         /\ UtxoOf[b] = (UtxoOf[Parent[b]] \cup Creates[b]) \ Spends[b]
<1>1. b \in Blocks /\ b # Genesis /\ Parent[b] \in Blocks
  BY TreeAssumption DEF Linked
<1>2. Height[b] = Height[Parent[b]] + 1 /\ Height[b] \in Nat /\ Height[Parent[b]] \in Nat
  BY <1>1, HeightAssumption
<1>3. Path[b] = Path[Parent[b]] \cup {b}
  BY PathAssumption
<1>4. b \notin Path[Parent[b]]
  BY <1>1, <1>2, PathOrder
<1>5. UtxoOf[b] = (UtxoOf[Parent[b]] \cup Creates[b]) \ Spends[b]
  BY CoinAssumption
<1> QED
  BY <1>1, <1>2, <1>3, <1>4, <1>5 DEF Heights

(* One field of a read changes.                                            *)
LEMMA ReadFields ==
  ASSUME NEW x \in ReadType
  PROVE  /\ NoRead \in ReadType /\ NoRead.at = "idle"
         /\ LET y == [x EXCEPT !.late = @ + 1]
            IN  /\ y \in ReadType
                /\ y.at = x.at /\ y.key = x.key /\ y.byHeight = x.byHeight /\ y.same = x.same
                /\ y.late = x.late + 1
         /\ LET y == [x EXCEPT !.same = FALSE]
            IN  /\ y \in ReadType
                /\ y.at = x.at /\ y.key = x.key /\ y.byHeight = x.byHeight /\ y.late = x.late
                /\ ~y.same
<1>1. NoRead \in ReadType /\ NoRead.at = "idle"
  BY DEF NoRead, ReadType
<1>2. [x EXCEPT !.late = x.late + 1] \in ReadType
  BY x.late + 1 \in Nat DEF ReadType
<1>3. [x EXCEPT !.same = FALSE] \in ReadType
  BY DEF ReadType
<1>4. LET y == [x EXCEPT !.late = x.late + 1]
      IN  /\ y.at = x.at /\ y.key = x.key /\ y.byHeight = x.byHeight /\ y.same = x.same
          /\ y.late = x.late + 1
  BY DEF ReadType
<1>5. LET y == [x EXCEPT !.same = FALSE]
      IN  /\ y.at = x.at /\ y.key = x.key /\ y.byHeight = x.byHeight /\ y.late = x.late
          /\ y.same = FALSE
  BY DEF ReadType
<1> QED
  BY <1>1, <1>2, <1>3, <1>4, <1>5

(* Writing leaves a reader its read, overtaken once more.                  *)
LEMMA WriteKeeps ==
  ASSUME TypeOK, NEW op, NEW blocks, Write(op, blocks)
  PROVE  /\ batch = NoBatch /\ batch.op = "none"
         /\ batch' = [op |-> op, blocks |-> blocks, from |-> head]
         /\ reads' \in [Readers -> ReadType]
         /\ \A r \in Readers :
              /\ reads'[r].at = reads[r].at
              /\ reads[r].at # "idle" =>
                   /\ reads'[r].key = reads[r].key
                   /\ reads'[r].byHeight = reads[r].byHeight
                   /\ reads'[r].same = reads[r].same
                   /\ reads'[r].late = reads[r].late + 1
                   /\ reads[r].late < MaxLate
<1>1. batch = NoBatch /\ batch' = [op |-> op, blocks |-> blocks, from |-> head]
  BY DEF Write
<1>2. batch.op = "none"
  BY <1>1 DEF NoBatch
<1>3. ASSUME NEW r \in Readers
      PROVE  /\ reads'[r] \in ReadType
             /\ reads'[r].at = reads[r].at
             /\ reads[r].at # "idle" =>
                   /\ reads'[r].key = reads[r].key
                   /\ reads'[r].byHeight = reads[r].byHeight
                   /\ reads'[r].same = reads[r].same
                   /\ reads'[r].late = reads[r].late + 1
                   /\ reads[r].late < MaxLate
  <2>1. reads[r] \in ReadType
    BY DEF TypeOK
  <2>2. CASE reads[r].at = "idle"
    <3>1. reads'[r] = NoRead
      BY <2>2 DEF Write
    <3> QED
      BY <2>1, <2>2, <3>1, ReadFields
  <2>3. CASE reads[r].at # "idle"
    <3>1. reads'[r] = [reads[r] EXCEPT !.late = @ + 1] /\ reads[r].late < MaxLate
      BY <2>3 DEF Write
    <3> QED
      BY <2>1, <3>1, ReadFields
  <2> QED
    BY <2>2, <2>3
<1>4. reads' = [r \in Readers |-> reads'[r]]
  BY DEF Write
<1> QED
  BY <1>1, <1>2, <1>3, <1>4

(* A write that leaves the main chain alone.                               *)
LEMMA StaysKeeps ==
  ASSUME IInv, NEW op, NEW blocks, Stays(op, blocks)
  PROVE  BatchInv' /\ SpendsInv' /\ CoinInv'
<1>1. Write(op, blocks) /\ head' = head /\ coinCache' = coinCache
  BY DEF Stays
<1>2. batch = NoBatch /\ batch' = [op |-> op, blocks |-> blocks, from |-> head]
  BY <1>1, WriteKeeps DEF IInv
<1>3. BatchInv'
  BY <1>1, <1>2 DEF Stays, BatchInv
<1>4. SpendsInv'
  BY <1>1 DEF IInv, SpendsInv
<1>5. Around = UtxoOf[head] /\ Around \subseteq Around'
  BY <1>1, <1>2 DEF Around
<1>6. ASSUME NEW r \in Readers, reads'[r].at = "coin", reads'[r].same
      PROVE  reads[r].at = "coin" /\ reads[r].same /\ reads'[r].key = reads[r].key
  BY <1>1, <1>6, WriteKeeps DEF IInv
<1>7. CoinInv'
  BY <1>1, <1>5, <1>6 DEF IInv, CoinInv
<1> QED
  BY <1>3, <1>4, <1>7

(* A write that puts a block on top of the tip.                            *)
LEMMA GrowsKeeps ==
  ASSUME IInv, NEW b, Grows(b)
  PROVE  BatchInv' /\ SpendsInv' /\ CoinInv'
<1>1. Write("connect", {b}) /\ b \in Linked /\ Parent[b] = head /\ head' = b
      /\ coinCache' = coinCache /\ SpendsCorrectly(b, UtxoOf[head])
  BY DEF Grows
<1>2. batch = NoBatch /\ batch' = [op |-> "connect", blocks |-> {b}, from |-> head]
  BY <1>1, WriteKeeps DEF IInv
<1>3. BatchInv'
  BY <1>1, <1>2 DEF BatchInv
<1>4. SpendsInv'
  BY <1>1, LinkedFacts DEF IInv, SpendsInv
<1>5. Around = UtxoOf[head] /\ Around \subseteq Around'
  <2>1. batch'.from = head /\ batch' # NoBatch
    BY <1>2 DEF NoBatch
  <2> QED
    BY <1>2, <2>1 DEF Around
<1>6. ASSUME NEW r \in Readers, reads'[r].at = "coin", reads'[r].same
      PROVE  reads[r].at = "coin" /\ reads[r].same /\ reads'[r].key = reads[r].key
  BY <1>1, <1>6, WriteKeeps DEF IInv
<1>7. CoinInv'
  BY <1>1, <1>5, <1>6 DEF IInv, CoinInv
<1> QED
  BY <1>3, <1>4, <1>7

(* A write that takes the tip off: its coins were spent as they should.    *)
LEMMA ShrinksKeeps ==
  ASSUME IInv, NEW op, Shrinks(op)
  PROVE  BatchInv' /\ SpendsInv' /\ CoinInv'
<1>1. op \in {"disconnect", "remove"} /\ Write(op, {head}) /\ head \in Linked
      /\ head' = Parent[head] /\ coinCache' = coinCache
  BY DEF Shrinks
<1>2. batch = NoBatch /\ batch' = [op |-> op, blocks |-> {head}, from |-> head]
  BY <1>1, WriteKeeps DEF IInv
<1>3. head \in Path[head] /\ head # Genesis /\ Path[Parent[head]] \subseteq Path[head]
  BY <1>1, LinkedFacts, PathOrder
<1>4. BatchInv'
  BY <1>1, <1>2, <1>3 DEF IInv, SpendsInv, BatchInv
<1>5. SpendsInv'
  BY <1>1, <1>3 DEF IInv, SpendsInv
<1>6. Around = UtxoOf[head] /\ Around \subseteq Around'
  <2>1. batch'.from = head /\ batch' # NoBatch
    BY <1>1, <1>2 DEF NoBatch
  <2> QED
    BY <1>2, <2>1 DEF Around
<1>7. ASSUME NEW r \in Readers, reads'[r].at = "coin", reads'[r].same
      PROVE  reads[r].at = "coin" /\ reads[r].same /\ reads'[r].key = reads[r].key
  BY <1>1, <1>7, WriteKeeps DEF IInv
<1>8. CoinInv'
  BY <1>1, <1>6, <1>7 DEF IInv, CoinInv
<1> QED
  BY <1>4, <1>5, <1>8

(* What may be cached under its height may be so after the next write.     *)
LEMMA PlacedLasts ==
  ASSUME IInv, NEW op, NEW blocks, NEW c \in Blocks, Placed(c),
         \/ Stays(op, blocks)
         \/ \E b : Grows(b)
         \/ Shrinks(op)
  PROVE  Placed(c)'
<1>1. CASE Stays(op, blocks)
  <2>1. batch.op = "none" /\ head' = head
    BY <1>1, WriteKeeps DEF IInv, Stays
  <2> QED
    BY <2>1 DEF Placed
<1>2. ASSUME NEW b, Grows(b) PROVE Placed(c)'
  <2>1. Write("connect", {b}) /\ b \in Linked /\ Parent[b] = head /\ head' = b
    BY <1>2 DEF Grows
  <2>2. batch.op = "none" /\ batch'.op = "connect"
    BY <2>1, WriteKeeps DEF IInv
  <2>3. Height[b] = Height[head] + 1 /\ Height[head] \in Nat /\ Path[b] = Path[head] \cup {b}
    BY <2>1, LinkedFacts
  <2>4. Height[c] \in Nat
    BY HeightAssumption
  <2> QED
    BY <2>1, <2>2, <2>3, <2>4 DEF Placed
<1>3. CASE Shrinks(op)
  <2>1. Write(op, {head}) /\ head \in Linked /\ head' = Parent[head]
    BY <1>3 DEF Shrinks
  <2>2. batch.op = "none"
    BY <2>1, WriteKeeps DEF IInv
  <2>3. Height[head] = Height[head'] + 1 /\ Height[head'] \in Nat
        /\ Path[head] = Path[head'] \cup {head}
    BY <2>1, LinkedFacts
  <2>4. Height[c] \in Nat
    BY HeightAssumption
  <2> QED
    BY <2>2, <2>3, <2>4 DEF Placed
<1> QED
  BY <1>1, <1>2, <1>3

(* With reads that one batch may overtake, each write keeps the cache by   *)
(* height and what the reads under way will put there.                     *)
LEMMA WriteKeepsHeights ==
  ASSUME MaxLate \in {0, 1}, IInv, HeightInv, NEW op, NEW blocks,
         \/ Stays(op, blocks)
         \/ \E b : Grows(b)
         \/ Shrinks(op)
  PROVE  HeightInv'
<1>1. PICK o, s : Write(o, s)
  BY DEF Stays, Grows, Shrinks
<1>2. byHeight' = byHeight
  BY DEF Stays, Grows, Shrinks
<1>3. TypeOK /\ batch.op = "none"
  BY <1>1, WriteKeeps DEF IInv
<1>4. CellInv'
  <2>1. ASSUME NEW h \in Heights, byHeight[h] # None
        PROVE  Height[byHeight[h]] = h /\ Placed(byHeight[h])'
    <3>1. byHeight[h] \in Blocks
      BY <1>3, <2>1 DEF TypeOK
    <3>2. Height[byHeight[h]] = h /\ Placed(byHeight[h])
      BY <2>1 DEF HeightInv, CellInv
    <3>3. \A c \in Blocks : Placed(c) => Placed(c)'
      BY PlacedLasts
    <3>4. Placed(byHeight[h])'
      BY <1>2, <3>1, <3>2, <3>3 DEF Placed
    <3> QED
      BY <3>2, <3>4
  <2> QED
    BY <1>2, <2>1 DEF CellInv, Placed
<1>5. ASSUME NEW r \in Readers PROVE HeightReadInv(r)' /\ EntryReadInv(r)'
  <2>1. /\ reads'[r].at = reads[r].at
        /\ reads[r].at # "idle" =>
             /\ reads'[r].key = reads[r].key
             /\ reads'[r].byHeight = reads[r].byHeight
             /\ reads'[r].same = reads[r].same
             /\ reads'[r].late = reads[r].late + 1
             /\ reads[r].late < MaxLate
    BY <1>1, <1>3, WriteKeeps
  <2>2. reads[r].late \in Nat
    BY <1>3 DEF TypeOK, ReadType
  <2>3. CASE reads[r].at = "height"
    <3> DEFINE c == reads[r].key
    <3>1. reads[r].late = 0 /\ reads'[r].late = 1 /\ reads'[r].key = c
      BY <2>1, <2>2, <2>3
    <3>2. c \in Path[head] /\ c \in Blocks
      BY <1>3, <2>3, <3>1 DEF HeightInv, HeightReadInv, TypeOK
    <3>3. Placed(c)
      BY <3>2 DEF Placed
    <3>4. c \in Path[head'] \/ Height[c] > Height[head']
      <4>1. ASSUME Stays(op, blocks) PROVE head' = head
        BY <4>1 DEF Stays
      <4>2. ASSUME NEW b, Grows(b) PROVE c \in Path[head']
        BY <3>2, <4>2, LinkedFacts DEF Grows
      <4>3. ASSUME Shrinks(op) PROVE c \in Path[head'] \/ Height[c] > Height[head']
        <5>1. head \in Linked /\ head' = Parent[head]
          BY <4>3 DEF Shrinks
        <5> QED
          BY <3>2, <5>1, LinkedFacts
      <4> QED
        BY <3>2, <4>1, <4>2, <4>3
    <3> QED
      BY <2>1, <2>3, <3>1, <3>4 DEF HeightReadInv, EntryReadInv
  <2>4. CASE reads[r].at = "entry"
    <3>1. reads[r].key \in Blocks
      BY <1>3, <2>4 DEF TypeOK
    <3>2. \A c \in Blocks : Placed(c) => Placed(c)'
      BY PlacedLasts
    <3>3. ASSUME reads'[r].byHeight, reads'[r].same PROVE Placed(reads[r].key)
      BY <2>1, <2>4, <3>3 DEF HeightInv, EntryReadInv
    <3> QED
      BY <2>1, <2>4, <3>1, <3>2, <3>3 DEF HeightReadInv, EntryReadInv, Placed
  <2>5. CASE reads[r].at \notin {"height", "entry"}
    BY <2>1, <2>5 DEF HeightReadInv, EntryReadInv
  <2> QED
    BY <2>3, <2>4, <2>5
<1> QED
  BY <1>4, <1>5 DEF HeightInv

-----------------------------------------------------------------------------
(* Nothing is cached, and the main chain is valid.                         *)
LEMMA InitIInv == Init => IInv /\ HeightInv
<1> SUFFICES ASSUME Init PROVE IInv /\ HeightInv
  OBVIOUS
<1>1. head \in Blocks /\ Path[head] \subseteq known /\ known \subseteq Blocks
  BY PathAssumption DEF Init
<1>2. TypeOK
  BY <1>1 DEF Init, TypeOK, Idle, NoRead, ReadType
<1>3. GoalInv /\ BatchInv
  BY DEF Init, GoalInv, BatchInv, Idle
<1>4. SpendsInv
  BY DEF Init, SpendsInv, ValidPath, Invalid
<1>5. CoinInv /\ HashInv
  BY <1>1 DEF Init, CoinInv, HashInv, NoRead
<1>6. HeightInv
  BY DEF Init, HeightInv, CellInv, HeightReadInv, EntryReadInv, NoRead
<1> QED
  BY <1>2, <1>3, <1>4, <1>5, <1>6 DEF IInv

-----------------------------------------------------------------------------
(* The steps of the chain.                                                 *)

(* A write keeps the types if what it assigns itself has them.             *)
LEMMA ReadsTyped ==
  ASSUME TypeOK, NEW op, NEW blocks, Write(op, blocks),
         head' \in Blocks, known' \subseteq Blocks, byHash' \subseteq Blocks,
         UNCHANGED <<byHeight, coinCache, stale>>,
         work' \in [op : {"idle", "reorganize", "reset"}, goal : Blocks \cup {None}]
  PROVE  TypeOK'
<1>1. \A r \in Readers : reads'[r].at \in {"height", "entry"} => reads'[r].key \in Blocks
  BY WriteKeeps DEF TypeOK
<1> QED
  BY <1>1, WriteKeeps DEF TypeOK

(* No batch is pending, so the block was verified against true coins.      *)
LEMMA ConnectIsGrowth ==
  ASSUME IInv, NEW b \in Blocks, Parent[b] = head, Connect(b), UNCHANGED <<byHeight, coinCache>>
  PROVE  Grows(b)
<1>1. b \in Linked
  BY TreeAssumption DEF IInv, TypeOK, Linked
<1>2. Write("connect", {b}) /\ SpendsCorrectly(b, Seen) /\ head' = b
  BY DEF Connect
<1>3. Seen = UtxoOf[head]
  <2>1. batch = NoBatch
    BY <1>2, WriteKeeps DEF IInv
  <2> QED
    BY <2>1 DEF Seen, IInv, CoinInv, Around
<1> QED
  BY <1>1, <1>2, <1>3 DEF Grows

(* Chain._add: a block off the main chain, the next, or a reorganisation.  *)
LEMMA AddBlockStep ==
  ASSUME IInv, NEW b \in Blocks, AddBlock(b)
  PROVE  /\ IInv'
         /\ MaxLate \in {0, 1} /\ HeightInv => HeightInv'
<1> USE DEF IInv
<1>1. batch = NoBatch /\ batch.op = "none" /\ Removed = {} /\ work = Idle
      /\ b \in Linked /\ Has(Parent[b]) /\ UNCHANGED <<byHeight, coinCache, stale>>
  BY DEF AddBlock, NoBatch, Removed, Linked
<1>2. Parent[b] \in Blocks
  BY <1>1, LinkedFacts
<1>3. Parent[b] \in known \cup stale
  BY <1>1 DEF Has, HashInv
<1>4. head \in Blocks /\ head \in known
  BY PathOrder DEF TypeOK, HashInv
<1>5. CASE SaveAlternate(b) /\ byHash' = byHash \cup {Parent[b]} /\ UNCHANGED work
  <2>1. Write("alternate", {b}) /\ known' = known \cup {b} /\ head' = head
    BY <1>5 DEF SaveAlternate
  <2>2. Stays("alternate", {b})
    BY <1>1, <2>1 DEF Stays
  <2>3. batch'.op = "alternate"
    BY <2>1, WriteKeeps
  <2>4. TypeOK'
    BY <1>1, <1>2, <1>5, <2>1, ReadsTyped DEF TypeOK
  <2>5. GoalInv'
    BY <1>1, <1>5, <2>1 DEF GoalInv
  <2>6. HashInv'
    BY <1>1, <1>3, <1>5, <2>1, <2>3 DEF HashInv, Removed
  <2> QED
    BY <2>2, <2>4, <2>5, <2>6, StaysKeeps, WriteKeepsHeights
<1>6. CASE Parent[b] = head /\ Connect(b) /\ byHash' = byHash \cup {head} /\ UNCHANGED work
  <2>1. Grows(b)
    BY <1>1, <1>6, ConnectIsGrowth
  <2>2. Write("connect", {b}) /\ known' = known \cup {b} /\ head' = b
    BY <1>6 DEF Connect
  <2>3. batch'.op = "connect"
    BY <2>2, WriteKeeps
  <2>4. TypeOK'
    BY <1>1, <1>4, <1>6, <2>2, ReadsTyped DEF TypeOK
  <2>5. GoalInv'
    BY <1>1, <1>6 DEF GoalInv, Idle
  <2>6. HashInv'
    BY <1>1, <1>4, <1>6, <2>2, <2>3, LinkedFacts DEF HashInv, Removed
  <2> QED
    BY <2>1, <2>4, <2>5, <2>6, GrowsKeeps, WriteKeepsHeights
<1>7. CASE /\ \A a \in Path[Parent[b]] : Has(a)
           /\ work' = [op |-> "reorganize", goal |-> b]
           /\ byHash' = byHash \cup {a \in Path[Parent[b]] \cup Path[head] :
                                    Height[a] >= Cardinality(Path[head] \cap Path[b]) - 1}
           /\ UNCHANGED <<head, known, batch, reads>>
  <2>1. Path[Parent[b]] \subseteq Blocks /\ Path[head] \subseteq Blocks
    BY <1>2, <1>4, PathAssumption
  <2>2. Path[Parent[b]] \subseteq known \cup stale
    BY <1>1, <1>7 DEF Has, HashInv
  <2>3. TypeOK'
    BY <1>1, <1>7, <2>1 DEF TypeOK
  <2>4. GoalInv' /\ BatchInv' /\ SpendsInv'
    BY <1>1, <1>7 DEF GoalInv, BatchInv, SpendsInv
  <2>5. CoinInv'
    BY <1>1, <1>7 DEF CoinInv, Around
  <2>6. HashInv'
    BY <1>1, <1>7, <2>2 DEF HashInv, Removed
  <2>7. HeightInv => HeightInv'
    BY <1>1, <1>7 DEF HeightInv, CellInv, HeightReadInv, EntryReadInv, Placed
  <2> QED
    BY <2>3, <2>4, <2>5, <2>6, <2>7
<1> QED
  BY <1>5, <1>6, <1>7 DEF AddBlock

(* A reorganisation takes the tip off.                                     *)
LEMMA DisconnectTipStep ==
  ASSUME IInv, DisconnectTip
  PROVE  /\ IInv'
         /\ MaxLate \in {0, 1} /\ HeightInv => HeightInv'
<1> USE DEF IInv
<1>1. work.op = "reorganize" /\ head \notin Path[work.goal] /\ Write("disconnect", {head})
      /\ head' = Parent[head] /\ UNCHANGED <<known, byHash, byHeight, coinCache, work, stale>>
  BY DEF DisconnectTip, cacheVars
<1>2. head \in Linked
  BY <1>1, LinkedFacts, PathOrder DEF GoalInv, TypeOK, Linked
<1>3. Shrinks("disconnect")
  BY <1>1, <1>2 DEF Shrinks
<1>4. batch.op = "none" /\ batch'.op = "disconnect"
  BY <1>1, WriteKeeps
<1>5. Parent[head] \in Blocks /\ Path[Parent[head]] \subseteq Path[head]
  BY <1>2, LinkedFacts
<1>6. TypeOK'
  BY <1>1, <1>5, ReadsTyped DEF TypeOK
<1>7. GoalInv'
  BY <1>1 DEF GoalInv
<1>8. HashInv'
  BY <1>1, <1>4, <1>5 DEF HashInv, Removed
<1> QED
  BY <1>3, <1>6, <1>7, <1>8, ShrinksKeeps, WriteKeepsHeights

(* A reorganisation connects a block of the branch it goes to.             *)
LEMMA ConnectNextStep ==
  ASSUME IInv, ConnectNext
  PROVE  /\ IInv'
         /\ MaxLate \in {0, 1} /\ HeightInv => HeightInv'
<1> USE DEF IInv
<1>1. work.op = "reorganize" /\ UNCHANGED <<byHash, byHeight, coinCache, stale>>
  BY DEF ConnectNext, cacheVars
<1>2. PICK b \in Path[work.goal] :
        /\ Parent[b] = head /\ Connect(b)
        /\ work' = IF b = work.goal THEN Idle ELSE work
  BY DEF ConnectNext
<1>3. b \in Blocks
  BY <1>1, <1>2, LinkedFacts, PathAssumption DEF GoalInv
<1>4. Grows(b)
  BY <1>1, <1>2, <1>3, ConnectIsGrowth
<1>5. Write("connect", {b}) /\ known' = known \cup {b} /\ head' = b /\ b \in Linked
  BY <1>2, <1>4 DEF Connect, Grows
<1>6. batch.op = "none" /\ batch'.op = "connect"
  BY <1>5, WriteKeeps
<1>7. TypeOK'
  <2>1. work' \in [op : {"idle", "reorganize", "reset"}, goal : Blocks \cup {None}]
    BY <1>2 DEF TypeOK, Idle
  <2> QED
    BY <1>1, <1>3, <1>5, <2>1, ReadsTyped DEF TypeOK
<1>8. GoalInv'
  BY <1>1, <1>2 DEF GoalInv, Idle
<1>9. HashInv'
  BY <1>1, <1>2, <1>5, <1>6, LinkedFacts DEF HashInv, Removed
<1> QED
  BY <1>4, <1>7, <1>8, <1>9, GrowsKeeps, WriteKeepsHeights

(* ChainDB.removeChains: what a reset deletes first is off the main chain. *)
LEMMA ResetBegins ==
  ASSUME IInv, NEW b \in Blocks, Reset(b)
  PROVE  /\ IInv'
         /\ MaxLate \in {0, 1} /\ HeightInv => HeightInv'
<1> USE DEF IInv
<1>0. PICK branches : branches = (UNION {Path[a] : a \in known}) \ Path[head]
  OBVIOUS
<1>1. /\ b \in Path[head] /\ Write("remove chains", branches) /\ known' = Path[head]
      /\ byHash' = byHash \cup {b, head} \cup branches \cup {Parent[a] : a \in branches}
      /\ work' = [op |-> "reset", goal |-> b]
      /\ UNCHANGED <<head, byHeight, coinCache, stale>>
  BY <1>0 DEF Reset
<1>2. batch.op = "none" /\ batch'.op = "remove chains" /\ batch'.blocks = branches
  <2>1. Write("remove chains", branches)
    BY <1>1
  <2>2. batch.op = "none"
        /\ batch' = [op |-> "remove chains", blocks |-> branches, from |-> head]
    BY <2>1, WriteKeeps
  <2> QED
    BY <2>2
<1>3. Path[head] \subseteq Blocks /\ head \in Path[head] /\ Genesis \in Path[head]
  BY PathAssumption, PathOrder DEF TypeOK
<1>4. known \subseteq branches \cup Path[head] /\ branches \subseteq Blocks
  BY <1>0, PathAssumption, PathOrder DEF TypeOK
<1>5. ASSUME NEW a \in branches PROVE Parent[a] \in branches \cup Path[head]
  <2>1. PICK x \in known : a \in Path[x] /\ a # Genesis
    BY <1>0, <1>3, <1>5
  <2>2. Parent[a] \in Path[x]
    BY <2>1, PathParent DEF TypeOK
  <2> QED
    BY <1>0, <2>1, <2>2
<1>6. Stays("remove chains", branches)
  BY <1>1 DEF Stays
<1>7. byHash' \subseteq branches \cup Path[head] \cup byHash
  BY <1>1, <1>3, <1>5
<1>8. TypeOK'
  <2>1. byHash' \subseteq Blocks /\ known' \subseteq Blocks
    BY <1>1, <1>3, <1>4, <1>7 DEF TypeOK
  <2> QED
    BY <1>1, <2>1, ReadsTyped DEF TypeOK
<1>9. GoalInv'
  BY <1>1 DEF GoalInv
<1>10. HashInv'
  <2>1. Removed = {} /\ Removed' = branches
    BY <1>2 DEF Removed
  <2> QED
    BY <1>1, <1>4, <1>7, <2>1 DEF HashInv
<1> QED
  BY <1>6, <1>8, <1>9, <1>10, StaysKeeps, WriteKeepsHeights

(* A reset takes the tip off, and its entry with it.                       *)
LEMMA ResetStepStep ==
  ASSUME IInv, ResetStep
  PROVE  /\ IInv'
         /\ MaxLate \in {0, 1} /\ HeightInv => HeightInv'
<1> USE DEF IInv
<1>1. /\ work.op = "reset" /\ head # work.goal /\ Write("remove", {head})
      /\ head' = Parent[head] /\ known' = known \ {head}
      /\ UNCHANGED <<byHash, byHeight, coinCache, work, stale>>
  BY DEF ResetStep, cacheVars
<1>2. head \in Linked
  BY <1>1, PathAssumption DEF GoalInv, TypeOK, Linked
<1>3. Shrinks("remove")
  BY <1>1, <1>2 DEF Shrinks
<1>4. batch.op = "none" /\ batch'.op = "remove" /\ batch'.blocks = {head}
  BY <1>1, WriteKeeps
<1>5. Parent[head] \in Blocks /\ Path[head] = Path[Parent[head]] \cup {head}
      /\ head \notin Path[Parent[head]]
  BY <1>2, LinkedFacts
<1>6. TypeOK'
  BY <1>1, <1>5, ReadsTyped DEF TypeOK
<1>7. GoalInv'
  BY <1>1, <1>5 DEF GoalInv
<1>8. HashInv'
  BY <1>1, <1>4, <1>5 DEF HashInv, Removed
<1> QED
  BY <1>3, <1>6, <1>7, <1>8, ShrinksKeeps, WriteKeepsHeights

(* A reorganisation that fails, a reset that ends: at most the readers'    *)
(* object is replaced.                                                     *)
LEMMA LockReleased ==
  ASSUME IInv, ReorganizeThrows \/ ResetDone
  PROVE  IInv' /\ (HeightInv => HeightInv')
<1> USE DEF IInv
<1>1. work' = Idle /\ UNCHANGED <<head, known, byHash, byHeight, coinCache, batch, stale>>
  BY DEF ReorganizeThrows, ResetDone, cacheVars
<1>2. reads' = reads \/ reads' = [r \in Readers |-> [reads[r] EXCEPT !.same = FALSE]]
  BY DEF ReorganizeThrows, ResetDone
<1>3. /\ reads' \in [Readers -> ReadType]
      /\ \A r \in Readers :
           /\ reads'[r].at = reads[r].at /\ reads'[r].key = reads[r].key
           /\ reads'[r].byHeight = reads[r].byHeight /\ reads'[r].late = reads[r].late
           /\ reads'[r].same => reads[r].same
  <2>1. CASE reads' = reads
    BY <2>1 DEF TypeOK
  <2>2. CASE reads' = [r \in Readers |-> [reads[r] EXCEPT !.same = FALSE]]
    <3>1. ASSUME NEW r \in Readers
          PROVE  /\ reads'[r] \in ReadType
                 /\ reads'[r].at = reads[r].at /\ reads'[r].key = reads[r].key
                 /\ reads'[r].byHeight = reads[r].byHeight /\ reads'[r].late = reads[r].late
                 /\ ~reads'[r].same
      <4>1. reads'[r] = [reads[r] EXCEPT !.same = FALSE] /\ reads[r] \in ReadType
        BY <2>2 DEF TypeOK
      <4> QED
        BY <4>1, ReadFields
    <3> QED
      BY <2>2, <3>1
  <2> QED
    BY <1>2, <2>1, <2>2
<1>4. TypeOK'
  BY <1>1, <1>3 DEF TypeOK, Idle
<1>5. GoalInv' /\ BatchInv' /\ SpendsInv' /\ HashInv'
  BY <1>1 DEF GoalInv, BatchInv, SpendsInv, HashInv, Removed, Idle
<1>6. CoinInv'
  BY <1>1, <1>3 DEF CoinInv, Around
<1>7. HeightInv => HeightInv'
  BY <1>1, <1>3 DEF HeightInv, CellInv, HeightReadInv, EntryReadInv, Placed
<1> QED
  BY <1>4, <1>5, <1>6, <1>7

(* What a commit does to the cells of the cache by height.                 *)
LEMMA CommitCells ==
  ASSUME TypeOK, BatchInv, Commit
  PROVE  /\ byHeight' \in [Heights -> Blocks \cup {None}]
         /\ \A h \in Heights :
              IF batch.op = "connect"
              THEN byHeight'[h] = IF h = Height[head] THEN head ELSE byHeight[h]
              ELSE byHeight'[h] \in {None, byHeight[h]}
<1>1. byHeight' = [h \in Heights |->
       IF \E b \in batch.blocks : Height[b] = h /\ batch.op \in {"connect", "disconnect", "remove"}
       THEN IF batch.op = "connect" THEN CHOOSE b \in batch.blocks : Height[b] = h ELSE None
       ELSE byHeight[h]]
  BY DEF Commit
<1>2. ASSUME NEW h \in Heights
      PROVE  /\ byHeight'[h] \in Blocks \cup {None}
             /\ IF batch.op = "connect"
                THEN byHeight'[h] = IF h = Height[head] THEN head ELSE byHeight[h]
                ELSE byHeight'[h] \in {None, byHeight[h]}
  <2>1. CASE batch.op = "connect"
    <3>1. batch.blocks = {head}
      BY <2>1 DEF BatchInv, Commit
    <3>2. CASE h = Height[head]
      <4>1. (CHOOSE b \in batch.blocks : Height[b] = h) = head
        BY <3>1, <3>2
      <4> QED
        BY <1>1, <2>1, <3>1, <3>2, <4>1 DEF TypeOK
    <3>3. CASE h # Height[head]
      BY <1>1, <2>1, <3>1, <3>3 DEF TypeOK
    <3> QED
      BY <3>2, <3>3
  <2>2. CASE batch.op # "connect"
    BY <1>1, <2>2 DEF TypeOK
  <2> QED
    BY <2>1, <2>2
<1> QED
  BY <1>1, <1>2

(* A commit leaves a reader its read, of the object or of an older one.    *)
LEMMA CommitReads ==
  ASSUME TypeOK, Commit
  PROVE  /\ reads' \in [Readers -> ReadType]
         /\ \A r \in Readers :
              /\ reads'[r].at = reads[r].at /\ reads'[r].key = reads[r].key
              /\ reads'[r].byHeight = reads[r].byHeight /\ reads'[r].late = reads[r].late
              /\ reads'[r].same => reads[r].same /\ ~Overtaken(r)
<1>1. reads' = [r \in Readers |->
        IF Overtaken(r) THEN [reads[r] EXCEPT !.same = FALSE] ELSE reads[r]]
  BY DEF Commit
<1>2. ASSUME NEW r \in Readers
      PROVE  /\ reads'[r] \in ReadType
             /\ reads'[r].at = reads[r].at /\ reads'[r].key = reads[r].key
             /\ reads'[r].byHeight = reads[r].byHeight /\ reads'[r].late = reads[r].late
             /\ reads'[r].same => reads[r].same /\ ~Overtaken(r)
  <2>1. reads[r] \in ReadType
    BY DEF TypeOK
  <2>2. CASE Overtaken(r)
    <3>1. reads'[r] = [reads[r] EXCEPT !.same = FALSE]
      BY <1>1, <2>2
    <3> QED
      BY <2>1, <3>1, ReadFields
  <2>3. CASE ~Overtaken(r)
    <3>1. reads'[r] = reads[r]
      BY <1>1, <2>3
    <3> QED
      BY <2>1, <2>3, <3>1
  <2> QED
    BY <2>2, <2>3
<1> QED
  BY <1>1, <1>2

(* What a commit pushes and unpushes takes one tip's coins to the other's. *)
LEMMA CommitCoins ==
  ASSUME TypeOK, BatchInv, CoinInv, Commit
  PROVE  CoinInv' /\ coinCache' \subseteq Coins
<1>1. /\ batch # NoBatch /\ batch' = NoBatch /\ head' = head
      /\ coinCache' =
           IF batch.op \in {"connect", "disconnect", "remove"}
           THEN (coinCache \ UNION {Unpushed(batch.op, b) : b \in batch.blocks})
                  \cup UNION {Pushed(batch.op, b) : b \in batch.blocks}
           ELSE coinCache
  BY DEF Commit
<1>2. Around' = UtxoOf[head]
  BY <1>1 DEF Around
<1>3. Around = UtxoOf[head] \cup UtxoOf[batch.from]
  BY <1>1 DEF Around
<1>4. ASSUME NEW r \in Readers
      PROVE  /\ reads'[r].at = reads[r].at /\ reads'[r].key = reads[r].key
             /\ reads'[r].same => reads[r].same /\ ~Overtaken(r)
  BY CommitReads
<1>5. CASE batch.op \in {"alternate", "remove chains"}
  <2>1. batch.from = head
    BY <1>1, <1>5 DEF BatchInv
  <2> QED
    BY <1>1, <1>2, <1>3, <1>4, <1>5, <2>1 DEF CoinInv, TypeOK
<1>6. CASE batch.op \in {"connect", "disconnect", "remove"}
  <2>1. PICK d \in Linked :
          /\ batch.blocks = {d}
          /\ \/ batch.op = "connect" /\ d = head /\ batch.from = Parent[d]
             \/ /\ batch.op # "connect" /\ d = batch.from /\ head = Parent[d]
                /\ SpendsCorrectly(d, UtxoOf[head])
    BY <1>1, <1>6 DEF BatchInv
  <2>2. coinCache' = (coinCache \ Unpushed(batch.op, d)) \cup Pushed(batch.op, d)
    BY <1>1, <1>6, <2>1
  <2>3. UtxoOf[d] = (UtxoOf[Parent[d]] \cup Creates[d]) \ Spends[d] /\ d \in Blocks
    BY LinkedFacts
  <2>4. coinCache \subseteq UtxoOf[d] \cup UtxoOf[Parent[d]]
    BY <1>3, <2>1 DEF CoinInv
  <2>5. coinCache' \subseteq UtxoOf[head]
    BY <2>1, <2>2, <2>3, <2>4 DEF Pushed, Unpushed, SpendsCorrectly
  <2>6. UtxoOf[head] \subseteq Coins
    BY CoinAssumption DEF TypeOK
  <2>7. ASSUME NEW r \in Readers, reads'[r].at = "coin" PROVE ~reads'[r].same
    BY <1>4, <1>6, <2>7 DEF Overtaken
  <2> QED
    BY <1>2, <2>5, <2>6, <2>7 DEF CoinInv
<1> QED
  BY <1>1, <1>5, <1>6 DEF BatchInv

(* The caches follow the batch.                                            *)
LEMMA CommitStep ==
  ASSUME IInv, Commit
  PROVE  IInv' /\ (HeightInv => HeightInv')
<1> USE DEF IInv
<1>1. /\ batch # NoBatch /\ batch' = NoBatch /\ UNCHANGED <<head, known, work, stale>>
      /\ byHash' = IF batch.op \in {"connect", "alternate"} THEN byHash \cup batch.blocks
                   ELSE byHash \ Removed
  BY DEF Commit
<1>2. batch'.op = "none" /\ Removed' = {}
  BY <1>1 DEF NoBatch, Removed
<1>3. /\ reads' \in [Readers -> ReadType]
      /\ \A r \in Readers :
           /\ reads'[r].at = reads[r].at /\ reads'[r].key = reads[r].key
           /\ reads'[r].byHeight = reads[r].byHeight /\ reads'[r].late = reads[r].late
           /\ reads'[r].same => reads[r].same /\ ~Overtaken(r)
  BY CommitReads
<1>4. byHash' \subseteq known \cup stale
  <2>1. CASE batch.op \in {"connect", "alternate"}
    <3>1. batch.blocks \subseteq known /\ Removed = {}
      BY <1>1, <2>1, PathOrder DEF BatchInv, TypeOK, HashInv, Removed
    <3> QED
      BY <1>1, <2>1, <3>1 DEF HashInv
  <2>2. CASE batch.op \notin {"connect", "alternate"}
    BY <1>1, <2>2 DEF HashInv
  <2> QED
    BY <2>1, <2>2
<1>5. TypeOK'
  BY <1>1, <1>3, <1>4, CommitCells, CommitCoins DEF TypeOK
<1>6. GoalInv' /\ BatchInv' /\ SpendsInv' /\ HashInv'
  BY <1>1, <1>2, <1>4 DEF GoalInv, BatchInv, SpendsInv, HashInv
<1>7. CoinInv'
  BY CommitCoins
<1>8. ASSUME HeightInv PROVE HeightInv'
  <2>1. ASSUME NEW c \in Blocks, Placed(c), batch.op = "connect" => Height[c] # Height[head]
        PROVE  c \in Path[head] \/ Height[c] > Height[head]
    BY <2>1 DEF Placed
  <2>2. ASSUME NEW h \in Heights, byHeight'[h] # None
        PROVE  Height[byHeight'[h]] = h
               /\ (byHeight'[h] \in Path[head] \/ Height[byHeight'[h]] > Height[head])
    <3>1. CASE batch.op = "connect" /\ h = Height[head]
      <4>1. byHeight'[h] = head
        BY <3>1, CommitCells
      <4> QED
        BY <3>1, <4>1, PathOrder DEF TypeOK
    <3>2. CASE ~(batch.op = "connect" /\ h = Height[head])
      <4>1. byHeight'[h] = byHeight[h] /\ byHeight[h] \in Blocks
        BY <2>2, <3>2, CommitCells DEF TypeOK
      <4>2. Height[byHeight[h]] = h /\ Placed(byHeight[h])
        BY <1>8, <2>2, <4>1, TreeAssumption DEF HeightInv, CellInv
      <4> QED
        BY <2>1, <3>2, <4>1, <4>2
    <3> QED
      BY <3>1, <3>2
  <2>3. CellInv'
    BY <1>1, <2>2 DEF CellInv, Placed
  <2>4. ASSUME NEW r \in Readers PROVE HeightReadInv(r)'
    BY <1>1, <1>3, <1>8 DEF HeightInv, HeightReadInv
  <2>5. ASSUME NEW r \in Readers, reads'[r].at = "entry", reads'[r].byHeight, reads'[r].same
        PROVE  reads'[r].key \in Path[head] \/ Height[reads'[r].key] > Height[head]
    <3>1. Placed(reads[r].key) /\ ~Overtaken(r) /\ reads[r].at = "entry"
      BY <1>3, <1>8, <2>5 DEF HeightInv, EntryReadInv
    <3>2. batch.op # "connect"
      BY <3>1 DEF Overtaken
    <3> QED
      BY <1>3, <3>1, <3>2 DEF Placed
  <2> QED
    BY <1>1, <2>3, <2>4, <2>5 DEF HeightInv, EntryReadInv, Placed
<1> QED
  BY <1>5, <1>6, <1>7, <1>8

-----------------------------------------------------------------------------
(* The steps of the readers.                                               *)

(* The chain does not move, and one read does.                             *)
LEMMA ReadStep ==
  ASSUME IInv, NEW r \in Readers, UNCHANGED <<head, known, work, batch>>,
         NEW new, reads' = [reads EXCEPT ![r] = new],
         new \in ReadType,
         new.at \in {"height", "entry"} => new.key \in Blocks,
         new.at = "coin" /\ new.same => new.key \in Around,
         byHash' \subseteq Blocks, stale' \subseteq Blocks,
         byHash' \subseteq known \cup stale' \cup Removed,
         byHeight' \in [Heights -> Blocks \cup {None}],
         coinCache' \subseteq Coins, coinCache' \subseteq Around
  PROVE  IInv'
<1> USE DEF IInv
<1>1. TypeOK'
  BY DEF TypeOK
<1>2. GoalInv' /\ BatchInv' /\ SpendsInv' /\ HashInv'
  BY DEF GoalInv, BatchInv, SpendsInv, HashInv, Removed
<1>3. Around' = Around
  BY DEF Around
<1>4. CoinInv'
  BY <1>3 DEF CoinInv, TypeOK
<1> QED
  BY <1>1, <1>2, <1>4

(* The same of the heights: what is cached, or will be, may be.            *)
LEMMA ReadStepHeights ==
  ASSUME TypeOK, HeightInv, NEW r \in Readers, UNCHANGED <<head, batch>>,
         NEW new, reads' = [reads EXCEPT ![r] = new],
         new.at = "height" => new.key \in Path[head],
         new.at = "entry" /\ new.byHeight /\ new.same => Placed(new.key),
         NEW b,
         \/ byHeight' = byHeight
         \/ b \in Blocks /\ Placed(b) /\ byHeight' = [byHeight EXCEPT ![Height[b]] = b]
  PROVE  HeightInv'
<1>1. \A c : Placed(c) <=> \/ c \in Path[head'] \/ Height[c] > Height[head']
                           \/ batch'.op = "connect" /\ Height[c] = Height[head']
  BY DEF Placed
<1>2. CellInv'
  <2>1. ASSUME NEW h \in Heights, byHeight'[h] # None
        PROVE  Height[byHeight'[h]] = h /\ Placed(byHeight'[h])
    <3>1. byHeight'[h] = byHeight[h] \/ (byHeight'[h] = b /\ h = Height[b] /\ Placed(b))
      BY <2>1 DEF TypeOK
    <3> QED
      BY <2>1, <3>1 DEF HeightInv, CellInv
  <2> QED
    BY <1>1, <2>1 DEF CellInv, Placed
<1>3. ASSUME NEW s \in Readers PROVE HeightReadInv(s)' /\ EntryReadInv(s)'
  <2>1. CASE s = r
    <3>1. reads'[s] = new
      BY <2>1 DEF TypeOK
    <3> QED
      BY <1>1, <3>1 DEF HeightReadInv, EntryReadInv, Placed
  <2>2. CASE s # r
    <3>1. reads'[s] = reads[s]
      BY <2>2 DEF TypeOK
    <3> QED
      BY <1>1, <3>1 DEF HeightInv, HeightReadInv, EntryReadInv, Placed
  <2> QED
    BY <2>1, <2>2
<1> QED
  BY <1>2, <1>3 DEF HeightInv

(* getEntryByHash of what is not cached.                                   *)
LEMMA AskEntryStep ==
  ASSUME IInv, NEW r \in Readers, NEW b \in Blocks, AskEntry(r, b)
  PROVE  IInv' /\ (HeightInv => HeightInv')
<1> DEFINE new == [NoRead EXCEPT !.at = "entry", !.key = b, !.same = TRUE]
<1>1. reads' = [reads EXCEPT ![r] = new]
      /\ UNCHANGED <<head, known, byHash, byHeight, coinCache, work, batch, stale>>
  BY DEF AskEntry, cacheVars
<1>2. new \in ReadType /\ new.at = "entry" /\ new.key = b /\ new.byHeight = FALSE
  BY DEF NoRead, ReadType
<1> HIDE DEF new
<1>3. IInv'
  BY <1>1, <1>2, ReadStep DEF IInv, TypeOK, CoinInv, HashInv
<1>4. HeightInv => HeightInv'
  BY <1>1, <1>2, ReadStepHeights DEF IInv
<1> QED
  BY <1>3, <1>4

(* getEntryByHeight of what is not cached: the hash is the main chain's.   *)
LEMMA AskHeightStep ==
  ASSUME IInv, NEW r \in Readers, NEW h \in Heights, AskHeight(r, h)
  PROVE  IInv' /\ (HeightInv => HeightInv')
<1>1. PICK b \in MainAt(h) :
        reads' = [reads EXCEPT ![r] =
          [NoRead EXCEPT !.at = "height", !.key = b, !.byHeight = TRUE]]
  BY DEF AskHeight
<1>5. b \in Path[head] /\ b \in Blocks
  BY PathAssumption DEF MainAt, IInv, TypeOK
<1>2. UNCHANGED <<head, known, byHash, byHeight, coinCache, work, batch, stale>>
  BY DEF AskHeight, cacheVars
<1> DEFINE new == [NoRead EXCEPT !.at = "height", !.key = b, !.byHeight = TRUE]
<1>3. new \in ReadType /\ new.at = "height" /\ new.key = b /\ new.byHeight = TRUE
  BY <1>5 DEF NoRead, ReadType
<1>4. reads' = [reads EXCEPT ![r] = new]
  BY <1>1
<1> HIDE DEF new
<1>6. IInv'
  BY <1>2, <1>3, <1>4, <1>5, ReadStep DEF IInv, TypeOK, CoinInv, HashInv
<1>7. HeightInv => HeightInv'
  BY <1>2, <1>3, <1>4, <1>5, ReadStepHeights DEF IInv
<1> QED
  BY <1>6, <1>7

(* getCoin of what is not cached: the coin is unspent now.                 *)
LEMMA AskCoinStep ==
  ASSUME IInv, NEW r \in Readers, NEW c \in Coins, AskCoin(r, c)
  PROVE  IInv' /\ (HeightInv => HeightInv')
<1> DEFINE new == [NoRead EXCEPT !.at = "coin", !.key = c, !.same = TRUE]
<1>1. reads' = [reads EXCEPT ![r] = new] /\ c \in UtxoOf[head]
      /\ UNCHANGED <<head, known, byHash, byHeight, coinCache, work, batch, stale>>
  BY DEF AskCoin, cacheVars
<1>2. new \in ReadType /\ new.at = "coin" /\ new.key = c /\ new.byHeight = FALSE
  BY DEF NoRead, ReadType
<1> HIDE DEF new
<1>3. c \in Around
  BY <1>1 DEF Around
<1>4. IInv'
  BY <1>1, <1>2, <1>3, ReadStep DEF IInv, TypeOK, CoinInv, HashInv
<1>5. HeightInv => HeightInv'
  BY <1>1, <1>2, ReadStepHeights DEF IInv
<1> QED
  BY <1>4, <1>5

(* The hash is there: what it names may still be cached at that height.    *)
LEMMA HeightReadStep ==
  ASSUME IInv, NEW r \in Readers, HeightRead(r)
  PROVE  IInv' /\ (HeightInv => HeightInv')
<1> DEFINE b == reads[r].key
<1> DEFINE new == IF b \in known \ byHash
                  THEN [reads[r] EXCEPT !.at = "entry", !.same = TRUE, !.late = 0] ELSE NoRead
<1>1. /\ reads[r].at = "height"
      /\ byHeight' = IF b \in byHash THEN [byHeight EXCEPT ![Height[b]] = b] ELSE byHeight
      /\ reads' = [reads EXCEPT ![r] = new]
      /\ UNCHANGED <<head, known, byHash, coinCache, work, batch, stale>>
  <2>1. reads' = [reads EXCEPT ![r] =
           IF b \in known \ byHash
           THEN [@ EXCEPT !.at = "entry", !.same = TRUE, !.late = 0] ELSE NoRead]
    BY DEF HeightRead
  <2>2. reads' = [reads EXCEPT ![r] = new]
    BY <2>1 DEF IInv, TypeOK
  <2> QED
    BY <2>2 DEF HeightRead
<1>2. b \in Blocks /\ Height[b] \in Heights
  BY <1>1 DEF IInv, TypeOK, Heights
<1>3. /\ new \in ReadType
      /\ (new.at = "entry" /\ new.key = b) \/ new.at = "idle"
  BY DEF IInv, TypeOK, NoRead, ReadType
<1> HIDE DEF new
<1>4. byHeight' \in [Heights -> Blocks \cup {None}]
  BY <1>1, <1>2 DEF IInv, TypeOK
<1>5. IInv'
  BY <1>1, <1>2, <1>3, <1>4, ReadStep DEF IInv, TypeOK, CoinInv, HashInv
<1>6. HeightInv => HeightInv'
  <2>1. HeightInv => Placed(b)
    BY <1>1 DEF HeightInv, HeightReadInv, Placed
  <2> HIDE DEF b
  <2>2. byHeight' = byHeight \/ byHeight' = [byHeight EXCEPT ![Height[b]] = b]
    BY <1>1
  <2> QED
    BY <1>1, <1>2, <1>3, <2>1, <2>2, ReadStepHeights DEF IInv
<1> QED
  BY <1>5, <1>6

(* The entry is there.                                                     *)
LEMMA EntryReadStep ==
  ASSUME IInv, NEW r \in Readers, EntryRead(r)
  PROVE  IInv' /\ (HeightInv => HeightInv')
<1> DEFINE b == reads[r].key
<1>1. /\ reads[r].at = "entry" /\ byHash' = byHash \cup {b}
      /\ byHeight' = IF reads[r].byHeight /\ reads[r].same
                     THEN [byHeight EXCEPT ![Height[b]] = b] ELSE byHeight
      /\ stale' = stale \cup ({b} \ known)
      /\ reads' = [reads EXCEPT ![r] = NoRead]
      /\ UNCHANGED <<head, known, coinCache, work, batch>>
  BY DEF EntryRead
<1>2. b \in Blocks /\ Height[b] \in Heights
  BY <1>1 DEF IInv, TypeOK, Heights
<1>3. /\ NoRead \in ReadType
      /\ NoRead.at = "idle"
  BY DEF NoRead, ReadType
<1>4. byHeight' \in [Heights -> Blocks \cup {None}]
  BY <1>1, <1>2 DEF IInv, TypeOK
<1>5. byHash' \subseteq Blocks /\ stale' \subseteq Blocks
      /\ byHash' \subseteq known \cup stale' \cup Removed
  BY <1>1, <1>2 DEF IInv, TypeOK, HashInv
<1>6. IInv'
  BY <1>1, <1>3, <1>4, <1>5, ReadStep DEF IInv, TypeOK, CoinInv
<1>7. HeightInv => HeightInv'
  <2>1. HeightInv /\ reads[r].byHeight /\ reads[r].same => Placed(b)
    BY <1>1 DEF HeightInv, EntryReadInv
  <2> HIDE DEF b
  <2> QED
    BY <1>1, <1>2, <1>3, <2>1, ReadStepHeights DEF IInv
<1> QED
  BY <1>6, <1>7

(* The coin is there, and cached if ChainDB.state is the same object.      *)
LEMMA CoinReadStep ==
  ASSUME IInv, NEW r \in Readers, CoinRead(r)
  PROVE  IInv' /\ (HeightInv => HeightInv')
<1>1. /\ reads[r].at = "coin"
      /\ coinCache' = IF reads[r].same THEN coinCache \cup {reads[r].key} ELSE coinCache
      /\ reads' = [reads EXCEPT ![r] = NoRead]
      /\ UNCHANGED <<head, known, byHash, byHeight, work, batch, stale>>
  BY DEF CoinRead
<1>2. /\ NoRead \in ReadType
      /\ NoRead.at = "idle"
  BY DEF NoRead, ReadType
<1>3. coinCache' \subseteq Around
  BY <1>1 DEF IInv, CoinInv
<1>4. Around \subseteq Coins
  BY CoinAssumption, LinkedFacts DEF IInv, TypeOK, BatchInv, Around
<1>5. IInv'
  BY <1>1, <1>2, <1>3, <1>4, ReadStep DEF IInv, TypeOK, HashInv
<1>6. HeightInv => HeightInv'
  BY <1>1, <1>2, ReadStepHeights DEF IInv
<1> QED
  BY <1>5, <1>6

(* A restart keeps the disk, where a batch is either written or not.       *)
LEMMA RestartStep ==
  ASSUME IInv, Restart
  PROVE  IInv' /\ HeightInv'
<1>1. /\ byHash' = {} /\ byHeight' = [h \in Heights |-> None] /\ coinCache' = {}
      /\ work' = Idle /\ batch' = NoBatch /\ reads' = [r \in Readers |-> NoRead] /\ stale' = {}
      /\ UNCHANGED <<head, known>>
  BY DEF Restart
<1>2. TypeOK'
  BY <1>1 DEF IInv, TypeOK, Idle, NoRead, ReadType
<1>3. GoalInv' /\ BatchInv' /\ SpendsInv'
  BY <1>1 DEF IInv, GoalInv, BatchInv, SpendsInv, Idle
<1>4. CoinInv' /\ HashInv'
  BY <1>1 DEF IInv, CoinInv, HashInv, NoRead
<1>5. HeightInv'
  BY <1>1 DEF HeightInv, CellInv, HeightReadInv, EntryReadInv, NoRead
<1> QED
  BY <1>2, <1>3, <1>4, <1>5 DEF IInv

(* One case for each action.                                               *)
LEMMA NextKeeps ==
  ASSUME IInv, [Next]_vars
  PROVE  /\ IInv'
         /\ MaxLate \in {0, 1} /\ HeightInv => HeightInv'
<1>1. ASSUME NEW b \in Blocks, AddBlock(b) \/ Reset(b)
      PROVE  IInv' /\ (MaxLate \in {0, 1} /\ HeightInv => HeightInv')
  BY <1>1, AddBlockStep, ResetBegins
<1>2. CASE DisconnectTip
  BY <1>2, DisconnectTipStep
<1>3. CASE ConnectNext
  BY <1>3, ConnectNextStep
<1>4. CASE ReorganizeThrows \/ ResetDone
  BY <1>4, LockReleased
<1>5. CASE ResetStep
  BY <1>5, ResetStepStep
<1>6. CASE Commit
  BY <1>6, CommitStep
<1>7. ASSUME NEW r \in Readers, Reads(r) PROVE IInv' /\ (HeightInv => HeightInv')
  BY <1>7, AskEntryStep, AskHeightStep, AskCoinStep, HeightReadStep, EntryReadStep, CoinReadStep
     DEF Reads
<1>8. CASE Restart
  BY <1>8, RestartStep
<1>9. CASE UNCHANGED vars
  <2>1. UNCHANGED <<head, known, byHash, byHeight, coinCache, work, batch, reads, stale>>
    BY <1>9 DEF vars, cacheVars
  <2>2. IInv'
    BY <2>1 DEF IInv, TypeOK, GoalInv, BatchInv, SpendsInv, CoinInv, Around, HashInv, Removed
  <2>3. HeightInv => HeightInv'
    BY <2>1 DEF HeightInv, CellInv, HeightReadInv, EntryReadInv, Placed
  <2> QED
    BY <2>2, <2>3
<1> QED
  BY <1>1, <1>2, <1>3, <1>4, <1>5, <1>6, <1>7, <1>8, <1>9 DEF Next, Writes

-----------------------------------------------------------------------------
(* ChainDB.getCoin puts nothing in the coin cache that a block has spent   *)
(* or taken back since, however many batches a read is overtaken by: it    *)
(* compares ChainDB.state with the object it took hold of.                 *)
THEOREM CoinCacheCorrect == Spec => []CoinCacheIsTrue
<1>1. IInv => CoinCacheIsTrue
  BY DEF IInv, CoinInv, Around, CoinCacheIsTrue
<1> QED
  BY <1>1, InitIInv, NextKeeps, PTL DEF Spec

(* So the chain, which verifies the inputs of a block against this cache,  *)
(* connects none but those that spend coins of the block's own branch, in  *)
(* the order that the branch has them.                                     *)
THEOREM CacheMisleadsNoBlock == Spec => []SpendsInv
<1>1. IInv => SpendsInv
  BY DEF IInv
<1> QED
  BY <1>1, InitIInv, NextKeeps, PTL DEF Spec

(* The entries of the main chain are on the disk, and those that hasEntry  *)
(* finds in the cache too, or were cached after a removal that overtook    *)
(* their read.                                                             *)
HashCacheIsTrue ==
  batch = NoBatch => Path[head] \subseteq known /\ byHash \subseteq known \cup stale

(* The cache of entries by hash says so however late the database answers. *)
THEOREM HashCacheCorrect == Spec => []HashCacheIsTrue
<1>1. IInv => HashCacheIsTrue
  BY DEF IInv, HashInv, HashCacheIsTrue, Removed, NoBatch
<1> QED
  BY <1>1, InitIInv, NextKeeps, PTL DEF Spec

(* The same of the entries by hash and by height, when a read is overtaken *)
(* by one batch at most: getEntryByHeight takes hold of Chain.state only   *)
(* once it has the hash, and two batches before that can replace the block.*)
THEOREM EntryCachesCorrect == ASSUME MaxLate \in {0, 1} PROVE Spec => []EntryCachesAreTrue
<1>1. IInv /\ HeightInv => EntryCachesAreTrue
  <2> SUFFICES ASSUME IInv, HeightInv, batch = NoBatch PROVE EntryCachesAreTrue
    BY DEF EntryCachesAreTrue
  <2>1. batch.op = "none" /\ Removed = {}
    BY DEF NoBatch, Removed
  <2>2. ASSUME NEW h \in Heights, h <= Height[head], byHeight[h] # None
        PROVE  byHeight[h] \in MainAt(h)
    <3>1. byHeight[h] \in Blocks /\ head \in Blocks
      BY <2>2 DEF IInv, TypeOK
    <3>2. Height[byHeight[h]] = h /\ Placed(byHeight[h])
      BY <2>2 DEF HeightInv, CellInv
    <3>3. h \in Nat /\ Height[head] \in Nat
      BY <3>1, <3>2, HeightAssumption
    <3> QED
      BY <2>1, <2>2, <3>2, <3>3 DEF Placed, MainAt
  <2> QED
    BY <2>1, <2>2 DEF EntryCachesAreTrue, IInv, HashInv
<1>2. Init => IInv /\ HeightInv
  BY InitIInv
<1>3. IInv /\ HeightInv /\ [Next]_vars => IInv' /\ HeightInv'
  BY NextKeeps
<1> QED
  BY <1>1, <1>2, <1>3, PTL DEF Spec
=============================================================================
