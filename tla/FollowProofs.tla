---------------------------- MODULE FollowProofs ----------------------------
(***************************************************************************)
(* The wallet follows the node.  What is inductive is FollowInv: the       *)
(* wallet's block is the end of a chain from the start block, of which the *)
(* wallet need not have every hash any more (Linked); some of its blocks   *)
(* have all of the wallet's transactions confirmed, one the first few, and *)
(* the ones above none (Holds); what holds txLock says where that one is   *)
(* (AtWork); the notifications that wait lead from there to the tip of the *)
(* node's chain without going below the hashes that are kept (QueueOK,     *)
(* FloorOK).  From it: what a quiet wallet has confirmed,                  *)
(* that no assertion of the transaction database fails, and the promise of *)
(* module WalletLedger with the confirmed figure.                          *)
(***************************************************************************)
EXTENDS WalletProofs

(* What holds at the top, and below wherever it holds above, holds down to *)
(* the bottom.                                                             *)
LEMMA Downwards ==
  ASSUME NEW hi \in Nat, NEW lo \in 0..hi, NEW K, hi \in K,
         \A k \in lo..(hi - 1) : k + 1 \in K => k \in K
  PROVE  \A k \in lo..hi : k \in K
<1> SUFFICES ASSUME NEW k \in lo..hi, k \notin K PROVE FALSE
  OBVIOUS
<1> DEFINE Out == {d \in 0..(hi - lo) : hi - d \notin K}
<1>1. Out \subseteq Nat /\ hi - k \in Out
  <2>1. hi - k \in 0..(hi - lo) /\ hi - (hi - k) = k
    OBVIOUS
  <2> QED
    BY <2>1
<1>2. PICK d \in Out : \A e \in Out : d <= e
  <2> HIDE DEF Out
  <2> QED
    BY <1>1, LeastNumber
<1>3. d \in 0..(hi - lo) /\ hi - d \notin K
  OBVIOUS
<1>4. d # 0
  <2>1. hi - 0 = hi
    OBVIOUS
  <2> QED
    BY <1>3, <2>1
<1>5. /\ d - 1 \in 0..(hi - lo) /\ ~(d <= d - 1) /\ hi - (d - 1) = (hi - d) + 1
      /\ hi - d \in lo..(hi - 1)
  BY <1>3, <1>4
<1>6. d - 1 \notin Out
  <2> HIDE DEF Out
  <2> QED
    BY <1>2, <1>5
<1>7. hi - (d - 1) \in K
  BY <1>5, <1>6
<1> QED
  BY <1>3, <1>5, <1>7

-----------------------------------------------------------------------------
(* Chains of blocks.                                                       *)

(* p leads from the start block up to height n, one block a height.        *)
Chain(p, n) ==
  /\ p[0] = Start
  /\ \A k \in 0..n : p[k] \in Blocks /\ Height[p[k]] = k
  /\ \A k \in 1..n : Parent[p[k]] = p[k - 1]

(* A block of a chain comes before the ones above it.                      *)
LEMMA ChainBefore ==
  ASSUME NEW p, NEW n \in Nat, Chain(p, n), NEW j \in 0..n, NEW i \in 0..j
  PROVE  Before(p[i], p[j])
<1> SUFFICES ASSUME NEW S \in SUBSET Blocks, p[j] \in S,
                    \A x \in S : Parent[x] \in S \cup {None}
             PROVE  p[i] \in S
  BY DEF Before
<1> DEFINE K == {k \in 0..j : p[k] \in S}
<1>1. ASSUME NEW k \in i..(j - 1), k + 1 \in K PROVE k \in K
  <2>1. k \in 0..n /\ k + 1 \in 1..n /\ (k + 1) - 1 = k /\ k \in 0..j
    OBVIOUS
  <2>2. Parent[p[k + 1]] = p[k] /\ p[k] \in Blocks
    BY <2>1 DEF Chain
  <2>3. p[k] # None
    BY <2>2, WalletAssumption
  <2> QED
    BY <1>1, <2>1, <2>2, <2>3
<1>2. j \in K /\ j \in Nat
  OBVIOUS
<1>3. i \in K
  <2> HIDE DEF K
  <2> QED
    BY <1>1, <1>2, Downwards
<1> QED
  BY <1>3

(* ... and nothing else does.                                              *)
LEMMA BeforeInChain ==
  ASSUME NEW p, NEW n \in Nat, Chain(p, n), Parent[Start] = None, NEW a, Before(a, p[n])
  PROVE  \E k \in 0..n : p[k] = a
<1> DEFINE S == {p[k] : k \in 0..n}
<1>1. S \in SUBSET Blocks /\ p[n] \in S
  BY DEF Chain
<1>2. ASSUME NEW x \in S PROVE Parent[x] \in S \cup {None}
  <2>1. PICK k \in 0..n : x = p[k]
    OBVIOUS
  <2>2. CASE k = 0
    BY <2>1, <2>2 DEF Chain
  <2>3. CASE k # 0
    <3>1. k \in 1..n /\ k - 1 \in 0..n
      BY <2>3
    <3>2. Parent[x] = p[k - 1]
      BY <2>1, <3>1 DEF Chain
    <3> QED
      BY <3>1, <3>2
  <2> QED
    BY <2>2, <2>3
<1>3. a \in S
  <2> HIDE DEF S
  <2> QED
    BY <1>1, <1>2 DEF Before
<1> QED
  BY <1>3

(* Two chains that meet are one below.                                     *)
LEMMA ChainsMeet ==
  ASSUME NEW p, NEW m \in Nat, Chain(p, m), NEW q, NEW n \in Nat, Chain(q, n),
         NEW j \in 0..m, j <= n, p[j] = q[j]
  PROVE  \A i \in 0..j : p[i] = q[i]
<1> DEFINE K == {k \in 0..j : p[k] = q[k]}
<1>1. ASSUME NEW k \in 0..(j - 1), k + 1 \in K PROVE k \in K
  <2>1. k + 1 \in 1..m /\ k + 1 \in 1..n /\ (k + 1) - 1 = k /\ k \in 0..j
    OBVIOUS
  <2>2. Parent[p[k + 1]] = p[k] /\ Parent[q[k + 1]] = q[k]
    BY <2>1 DEF Chain
  <2> QED
    BY <1>1, <2>1, <2>2
<1>2. j \in K /\ j \in Nat /\ 0 \in 0..j
  OBVIOUS
<1>3. \A i \in 0..j : i \in K
  <2> HIDE DEF K
  <2> QED
    BY <1>1, <1>2, Downwards
<1> QED
  BY <1>3

(* A chain may be cut off, and its blocks seen through another function.   *)
LEMMA ChainPart ==
  ASSUME NEW p, NEW n \in Nat, Chain(p, n), NEW m \in 0..n, NEW q, \A k \in 0..m : q[k] = p[k]
  PROVE  Chain(q, m)
<1>1. \A k \in 0..m : k \in 0..n
  OBVIOUS
<1>2. \A k \in 1..m : k \in 1..n /\ k \in 0..m /\ k - 1 \in 0..m
  OBVIOUS
<1>3. 0 \in 0..m
  OBVIOUS
<1> QED
  BY <1>1, <1>2, <1>3 DEF Chain

(* It grows by a block whose parent is its last one.                       *)
LEMMA ChainGrows ==
  ASSUME NEW p, NEW n \in Nat, Chain(p, n), NEW q, \A k \in 0..n : q[k] = p[k],
         q[n + 1] \in Blocks, Height[q[n + 1]] = n + 1, Parent[q[n + 1]] = p[n]
  PROVE  Chain(q, n + 1)
<1>1. \A k \in 0..(n + 1) : k \in 0..n \/ k = n + 1
  OBVIOUS
<1>2. \A k \in 1..(n + 1) : (k \in 1..n /\ k - 1 \in 0..n /\ k \in 0..n) \/ k = n + 1
  OBVIOUS
<1>3. 0 \in 0..n /\ n \in 0..n /\ (n + 1) - 1 = n
  OBVIOUS
<1> QED
  BY <1>1, <1>2, <1>3 DEF Chain

-----------------------------------------------------------------------------
(* The transactions of a chain.                                            *)

Size(b) == Len(BlockTxs[b])

(* Those of its blocks below height n, and the first m of the one there.   *)
Placed(p, n, m) ==
  {t \in Txs : \/ \E k \in 0..(n - 1) : \E i \in 1..Size(p[k]) : BlockTxs[p[k]][i] = t
               \/ \E i \in 1..m : BlockTxs[p[n]][i] = t}

LEMMA BlockIsSeq ==
  ASSUME NEW b \in Blocks
  PROVE  /\ BlockTxs[b] \in Seq(Txs) /\ Size(b) \in Nat /\ DOMAIN BlockTxs[b] = 1..Size(b)
         /\ \A i \in 1..Size(b) : BlockTxs[b][i] \in Txs
         /\ Range(BlockTxs[b]) = {BlockTxs[b][i] : i \in 1..Size(b)}
<1>1. BlockTxs[b] \in Seq(Txs)
  BY WalletAssumption
<1> QED
  BY <1>1, LenProperties, ElementOfSeq DEF Size, Range

(* A transaction has one place in a chain.                                 *)
LEMMA OnePlace ==
  ASSUME ValidBlocks, NEW p, NEW n \in Nat, Chain(p, n),
         NEW k \in 0..n, NEW l \in 0..n, NEW i \in 1..Size(p[k]), NEW j \in 1..Size(p[l]),
         BlockTxs[p[k]][i] = BlockTxs[p[l]][j]
  PROVE  k = l /\ i = j
<1>1. p[k] \in Blocks /\ p[l] \in Blocks /\ Height[p[k]] = k /\ Height[p[l]] = l
  BY DEF Chain
<1>2. ASSUME NEW a \in 0..n, NEW c \in 0..n, a < c
      PROVE  Range(BlockTxs[p[a]]) \cap Range(BlockTxs[p[c]]) = {}
  <2>1. a \in 0..c /\ p[a] \in Blocks /\ p[c] \in Blocks /\ Height[p[a]] = a /\ Height[p[c]] = c
    BY <1>2 DEF Chain
  <2>2. Before(p[a], p[c])
    BY <2>1, ChainBefore
  <2>3. p[a] # p[c]
    BY <1>2, <2>1
  <2> QED
    BY <2>1, <2>2, <2>3 DEF ValidBlocks
<1>3. BlockTxs[p[k]][i] \in Range(BlockTxs[p[k]]) /\ BlockTxs[p[k]][i] \in Range(BlockTxs[p[l]])
  BY <1>1, BlockIsSeq
<1>4. k = l
  <2>1. ~(k < l) /\ ~(l < k)
    BY <1>2, <1>3
  <2> QED
    BY <2>1
<1>5. IsInjective(BlockTxs[p[k]])
  BY <1>1 DEF ValidBlocks
<1> QED
  BY <1>1, <1>4, <1>5, BlockIsSeq DEF IsInjective

(* What comes before it in the chain is not spent twice, and is there.     *)
LEMMA PlacedFits ==
  ASSUME ValidBlocks, NEW p, NEW n \in Nat, Chain(p, n), NEW m \in 0..Size(p[n])
  PROVE  /\ \A t, u \in Placed(p, n, m) : t # u => In(t) \cap In(u) = {}
         /\ \A t \in Placed(p, n, m) : \A o \in In(t) :
              Creator[o] # None => Creator[o] \in Placed(p, n, m)
<1>1. \A k \in 0..n : p[k] \in Blocks /\ Height[p[k]] = k
  BY DEF Chain
<1>r. \A k \in 0..n : Range(BlockTxs[p[k]]) = {BlockTxs[p[k]][i] : i \in 1..Size(p[k])}
  BY <1>1, BlockIsSeq
<1>2. p[n] \in Blocks /\ Size(p[n]) \in Nat
  BY <1>1, BlockIsSeq
<1>3. ASSUME NEW t \in Placed(p, n, m)
      PROVE  /\ t \in Txs
             /\ \E k \in 0..n : \E i \in 1..Size(p[k]) : BlockTxs[p[k]][i] = t /\ (k = n => i <= m)
  <2>1. CASE \E k \in 0..(n - 1) : \E i \in 1..Size(p[k]) : BlockTxs[p[k]][i] = t
    <3>1. \A k \in 0..(n - 1) : k \in 0..n /\ k # n
      OBVIOUS
    <3> QED
      BY <2>1, <3>1, <1>3 DEF Placed
  <2>2. CASE \E i \in 1..m : BlockTxs[p[n]][i] = t
    <3>1. n \in 0..n /\ \A i \in 1..m : i \in 1..Size(p[n]) /\ i <= m
      BY <1>2
    <3> QED
      BY <2>2, <3>1, <1>3 DEF Placed
  <2> QED
    BY <1>3, <2>1, <2>2 DEF Placed
<1>4. ASSUME NEW t \in Placed(p, n, m), NEW u \in Placed(p, n, m), t # u
      PROVE  In(t) \cap In(u) = {}
  <2>1. PICK k \in 0..n : \E i \in 1..Size(p[k]) : BlockTxs[p[k]][i] = t
    BY <1>3
  <2>2. PICK l \in 0..n : \E j \in 1..Size(p[l]) : BlockTxs[p[l]][j] = u
    BY <1>3
  <2>3. t \in Range(BlockTxs[p[k]]) /\ u \in Range(BlockTxs[p[l]])
    BY <1>r, <2>1, <2>2
  <2>4. k \in 0..l \/ l \in 0..k
    OBVIOUS
  <2>5. Before(p[k], p[l]) \/ Before(p[l], p[k])
    BY <2>4, ChainBefore
  <2>6. In(t) \cap In(u) = {} \/ In(u) \cap In(t) = {}
    BY <1>1, <1>4, <2>3, <2>5 DEF ValidBlocks
  <2> QED
    BY <2>6
<1>5. ASSUME NEW t \in Placed(p, n, m), NEW o \in In(t), Creator[o] # None
      PROVE  Creator[o] \in Placed(p, n, m)
  <2>0. PICK k \in 0..n : \E i \in 1..Size(p[k]) : BlockTxs[p[k]][i] = t /\ (k = n => i <= m)
    BY <1>3
  <2>1. PICK i \in 1..Size(p[k]) : BlockTxs[p[k]][i] = t /\ (k = n => i <= m)
    BY <2>0
  <2>2. Creator[o] \in Txs
    <3>1. Creator \in [Outs -> Txs \cup {None}] /\ o \in Outs
      BY <1>3, NotOwn, TXAssumption
    <3> QED
      BY <1>5, <3>1
  <2>3. \/ \E j \in 1..(i - 1) : BlockTxs[p[k]][j] = Creator[o]
        \/ \E a \in Blocks \ {p[k]} : Before(a, p[k]) /\ Creator[o] \in Range(BlockTxs[a])
    <3>1. i \in DOMAIN BlockTxs[p[k]] /\ p[k] \in Blocks
      BY <1>1, <2>1, BlockIsSeq
    <3> QED
      BY <1>5, <2>1, <3>1 DEF ValidBlocks
  <2>4. CASE \E j \in 1..(i - 1) : BlockTxs[p[k]][j] = Creator[o]
    <3>1. PICK j \in 1..(i - 1) : BlockTxs[p[k]][j] = Creator[o]
      BY <2>4
    <3>2. CASE k = n
      <4>1. j \in 1..m
        BY <1>2, <2>1, <3>2
      <4> QED
        BY <2>2, <3>1, <3>2, <4>1 DEF Placed
    <3>3. CASE k # n
      <4>1. k \in 0..(n - 1) /\ j \in 1..Size(p[k])
        BY <1>1, <3>3, BlockIsSeq
      <4> QED
        BY <2>2, <3>1, <4>1 DEF Placed
    <3> QED
      BY <3>2, <3>3
  <2>5. CASE \E a \in Blocks \ {p[k]} : Before(a, p[k]) /\ Creator[o] \in Range(BlockTxs[a])
    <3>1. PICK a \in Blocks \ {p[k]} : Before(a, p[k]) /\ Creator[o] \in Range(BlockTxs[a])
      BY <2>5
    <3>2. Chain(p, k)
      BY ChainPart
    <3>3. PICK l \in 0..k : p[l] = a
      BY <3>1, <3>2, BeforeInChain DEF ValidBlocks
    <3>4. l # k
      BY <3>1, <3>3
    <3>5. l \in 0..(n - 1)
      BY <3>4
    <3>6. \E j \in 1..Size(p[l]) : BlockTxs[p[l]][j] = Creator[o]
      <4>1. l \in 0..n /\ Creator[o] \in Range(BlockTxs[p[l]])
        BY <3>1, <3>3
      <4> QED
        BY <1>r, <4>1
    <3> QED
      BY <2>2, <3>5, <3>6 DEF Placed
  <2> QED
    BY <2>3, <2>4, <2>5
<1> QED
  BY <1>4, <1>5

(* The next transaction is not one of those before it.                     *)
LEMMA NextPlaced ==
  ASSUME ValidBlocks, NEW p, NEW n \in Nat, Chain(p, n), NEW m \in 1..Size(p[n]), NEW k \in 1..Size(p[n])
  PROVE  /\ Placed(p, n, m) = Placed(p, n, m - 1) \cup {BlockTxs[p[n]][m]}
         /\ BlockTxs[p[n]][k] \in Placed(p, n, m) <=> k <= m
<1>1. p[n] \in Blocks /\ n \in 0..n
  BY DEF Chain
<1>2. BlockTxs[p[n]][m] \in Txs /\ BlockTxs[p[n]][k] \in Txs /\ Size(p[n]) \in Nat
  BY <1>1, BlockIsSeq
<1>3. \A i \in 1..m : i \in 1..(m - 1) \/ i = m
  OBVIOUS
<1>4. \A i \in 1..(m - 1) : i \in 1..m
  OBVIOUS
<1>5. m \in 1..m
  OBVIOUS
<1>6. Placed(p, n, m) = Placed(p, n, m - 1) \cup {BlockTxs[p[n]][m]}
  BY <1>2, <1>3, <1>4, <1>5 DEF Placed
<1>7. ASSUME k <= m PROVE BlockTxs[p[n]][k] \in Placed(p, n, m)
  <2>1. k \in 1..m
    BY <1>2, <1>7
  <2> QED
    BY <1>2, <2>1 DEF Placed
<1>8. ASSUME BlockTxs[p[n]][k] \in Placed(p, n, m) PROVE k <= m
  <2>1. ASSUME NEW l \in 0..(n - 1), NEW i \in 1..Size(p[l]), BlockTxs[p[l]][i] = BlockTxs[p[n]][k]
        PROVE  FALSE
    <3>1. l \in 0..n
      OBVIOUS
    <3>2. l = n
      BY <1>1, <2>1, <3>1, OnePlace
    <3> QED
      BY <3>2
  <2>2. PICK i \in 1..m : BlockTxs[p[n]][i] = BlockTxs[p[n]][k]
    BY <1>8, <2>1 DEF Placed
  <2>3. i \in 1..Size(p[n])
    BY <1>2
  <2>4. i = k
    BY <1>1, <2>2, <2>3, OnePlace
  <2> QED
    BY <2>4
<1> QED
  BY <1>6, <1>7, <1>8

-----------------------------------------------------------------------------
(* Block records: which of a block's transactions they list, and what a    *)
(* rollback reads off them.                                                *)

(* txs lists the wallet's among the first n transactions of block b.       *)
ListsFirst(txs, b, n) ==
  /\ Range(txs) = {t \in Txs : RelevantTo(t) /\ \E i \in 1..n : BlockTxs[b][i] = t}
  /\ \A i, j \in DOMAIN txs : i < j =>
       \E k, l \in 1..n : k < l /\ BlockTxs[b][k] = txs[i] /\ BlockTxs[b][l] = txs[j]

LEMMA ListsNothing ==
  ASSUME NEW b
  PROVE  ListsFirst(<<>>, b, 0)
BY DEF ListsFirst, Range

LEMMA ListsMore ==
  ASSUME NEW b \in Blocks, NEW n \in 1..Size(b), NEW txs \in Seq(Txs), ListsFirst(txs, b, n - 1)
  PROVE  IF RelevantTo(BlockTxs[b][n])
         THEN ListsFirst(Append(txs, BlockTxs[b][n]), b, n)
         ELSE ListsFirst(txs, b, n)
<1> DEFINE t == BlockTxs[b][n]
           a == Append(txs, t)
           N == Len(txs)
<1>1. Size(b) \in Nat /\ t \in Txs
  BY BlockIsSeq
<1>2. (\A i \in 1..(n - 1) : i \in 1..n) /\ (\A i \in 1..n : i \in 1..(n - 1) \/ i = n) /\ n \in 1..n
  BY <1>1
<1>3. /\ Range(txs) = {u \in Txs : RelevantTo(u) /\ \E i \in 1..(n - 1) : BlockTxs[b][i] = u}
      /\ \A i, j \in DOMAIN txs : i < j =>
           \E k, l \in 1..(n - 1) : k < l /\ BlockTxs[b][k] = txs[i] /\ BlockTxs[b][l] = txs[j]
  BY DEF ListsFirst
<1>4. CASE ~RelevantTo(t)
  BY <1>2, <1>3, <1>4 DEF ListsFirst
<1>5. CASE RelevantTo(t)
  <2>1. /\ a \in Seq(Txs) /\ Range(a) = Range(txs) \cup {t} /\ Len(a) = N + 1 /\ N \in Nat
        /\ DOMAIN txs = 1..N /\ (\A i \in 1..N : a[i] = txs[i]) /\ a[N + 1] = t
    BY <1>1, AppendOnce, AppendProperties, LenProperties
  <2>2. DOMAIN a = 1..(N + 1)
    BY <2>1, LenProperties
  <2> HIDE DEF a, N
  <2>3. Range(a) = {u \in Txs : RelevantTo(u) /\ \E i \in 1..n : BlockTxs[b][i] = u}
    BY <1>1, <1>2, <1>3, <1>5, <2>1
  <2>4. ASSUME NEW i \in DOMAIN a, NEW j \in DOMAIN a, i < j
        PROVE  \E k, l \in 1..n : k < l /\ BlockTxs[b][k] = a[i] /\ BlockTxs[b][l] = a[j]
    <3>1. i \in 1..N /\ (j \in 1..N \/ j = N + 1)
      BY <2>1, <2>2, <2>4
    <3>2. CASE j \in 1..N
      <4>1. i \in DOMAIN txs /\ j \in DOMAIN txs /\ a[i] = txs[i] /\ a[j] = txs[j]
        BY <2>1, <3>1, <3>2
      <4>2. PICK k \in 1..(n - 1), l \in 1..(n - 1) :
              k < l /\ BlockTxs[b][k] = txs[i] /\ BlockTxs[b][l] = txs[j]
        BY <1>3, <2>4, <4>1, Zenon
      <4>3. k \in 1..n /\ l \in 1..n
        BY <1>2
      <4> QED
        BY <4>1, <4>2, <4>3
    <3>3. CASE j = N + 1
      <4>1. txs[i] \in Range(txs)
        BY <2>1, <3>1 DEF Range
      <4>2. PICK k \in 1..(n - 1) : BlockTxs[b][k] = txs[i]
        BY <1>3, <4>1
      <4>3. k < n /\ a[i] = txs[i] /\ a[j] = BlockTxs[b][n]
        BY <1>1, <2>1, <3>1, <3>3
      <4> QED
        BY <1>2, <4>2, <4>3
    <3> QED
      BY <3>1, <3>2, <3>3
  <2>5. ListsFirst(a, b, n)
    BY <2>3, <2>4 DEF ListsFirst
  <2> QED
    BY <1>5, <2>5 DEF a
<1> QED
  BY <1>4, <1>5

(* Without its last one it lists those of a shorter part of the block.     *)
LEMMA ListsLess ==
  ASSUME NEW b \in Blocks, IsInjective(BlockTxs[b]), NEW n \in 0..Size(b),
         NEW txs \in Seq(Txs), txs # <<>>, IsInjective(txs), ListsFirst(txs, b, n)
  PROVE  \E m \in 0..Size(b) : ListsFirst(Front(txs), b, m)
<1> DEFINE f == Front(txs)
           N == Len(txs)
<1>1. /\ Size(b) \in Nat /\ DOMAIN BlockTxs[b] = 1..Size(b)
      /\ N \in Nat \ {0} /\ DOMAIN txs = 1..N
  BY BlockIsSeq, LenProperties, EmptySeq
<1>2. /\ f \in Seq(Txs) /\ Len(f) = N - 1 /\ (\A i \in 1..(N - 1) : f[i] = txs[i])
      /\ Range(f) = Range(txs) \ {Last(txs)} /\ Last(txs) = txs[N] /\ Last(txs) \in Range(txs)
  BY FrontOnce DEF Last
<1>3. DOMAIN f = 1..(N - 1)
  BY <1>2, LenProperties
<1> HIDE DEF f, N
<1>4. /\ Range(txs) = {u \in Txs : RelevantTo(u) /\ \E i \in 1..n : BlockTxs[b][i] = u}
      /\ \A i, j \in DOMAIN txs : i < j =>
           \E k, l \in 1..n : k < l /\ BlockTxs[b][k] = txs[i] /\ BlockTxs[b][l] = txs[j]
  BY DEF ListsFirst
<1>5. PICK p \in 1..n : BlockTxs[b][p] = txs[N]
  BY <1>2, <1>4
<1>6. /\ p - 1 \in 0..Size(b) /\ (\A i \in 1..(p - 1) : i \in 1..n /\ i # p) /\ p \in 1..Size(b)
      /\ \A i \in 1..n : i \in 1..Size(b)
  BY <1>1
<1>7. \A i, j \in 1..n : BlockTxs[b][i] = BlockTxs[b][j] => i = j
  BY <1>1, <1>6 DEF IsInjective
<1>8. ASSUME NEW i \in 1..(N - 1)
      PROVE  \E k \in 1..(p - 1) : BlockTxs[b][k] = txs[i]
  <2>1. i \in 1..N /\ N \in 1..N /\ i < N
    BY <1>1
  <2>a. i \in DOMAIN txs /\ N \in DOMAIN txs
    BY <1>1, <2>1
  <2>2. PICK k \in 1..n : \E l \in 1..n : k < l /\ BlockTxs[b][k] = txs[i] /\ BlockTxs[b][l] = txs[N]
    BY <1>4, <2>1, <2>a, Zenon
  <2>3. k < p
    BY <1>5, <1>7, <2>2
  <2>4. k \in 1..(p - 1)
    BY <2>3
  <2> QED
    BY <2>2, <2>4
<1>9. Range(f) = {u \in Txs : RelevantTo(u) /\ \E i \in 1..(p - 1) : BlockTxs[b][i] = u}
  <2>1. ASSUME NEW u \in Range(f)
        PROVE  u \in Txs /\ RelevantTo(u) /\ \E i \in 1..(p - 1) : BlockTxs[b][i] = u
    <3>1. u \in Range(txs)
      BY <1>2, <2>1
    <3>2. PICK i \in 1..(N - 1) : u = f[i]
      BY <1>3, <2>1 DEF Range
    <3> QED
      BY <1>2, <1>4, <1>8, <3>1, <3>2
  <2>2. ASSUME NEW u \in Txs, RelevantTo(u), NEW i \in 1..(p - 1), BlockTxs[b][i] = u
        PROVE  u \in Range(f)
    <3>1. u \in Range(txs)
      BY <1>4, <1>6, <2>2
    <3>2. u # Last(txs)
      BY <1>2, <1>5, <1>6, <1>7, <2>2
    <3> QED
      BY <1>2, <3>1, <3>2
  <2> QED
    BY <2>1, <2>2
<1>10. ASSUME NEW i \in DOMAIN f, NEW j \in DOMAIN f, i < j
       PROVE  \E k, l \in 1..(p - 1) : k < l /\ BlockTxs[b][k] = f[i] /\ BlockTxs[b][l] = f[j]
  <2>1. i \in 1..(N - 1) /\ j \in 1..(N - 1) /\ i \in 1..N /\ j \in 1..N
    BY <1>1, <1>3
  <2>2. PICK k \in 1..n, l \in 1..n : k < l /\ BlockTxs[b][k] = txs[i] /\ BlockTxs[b][l] = txs[j]
    BY <1>1, <1>4, <1>10, <2>1
  <2>3. PICK l2 \in 1..(p - 1) : BlockTxs[b][l2] = txs[j]
    BY <1>8, <2>1
  <2>4. l = l2
    BY <1>6, <1>7, <2>2, <2>3
  <2>5. k \in 1..(p - 1) /\ l \in 1..(p - 1)
    BY <2>2, <2>3, <2>4
  <2> QED
    BY <1>2, <2>1, <2>2, <2>5
<1> QED
  BY <1>6, <1>9, <1>10 DEF ListsFirst, f

(* One element in front of a sequence.                                     *)
LEMMA InFront ==
  ASSUME NEW S, NEW x \in S, NEW s \in Seq(S)
  PROVE  LET c == <<x>> \o s
         IN  /\ c \in Seq(S) /\ Len(c) = Len(s) + 1 /\ c # <<>>
             /\ c[1] = x /\ \A i \in 1..Len(s) : c[i + 1] = s[i]
             /\ Head(c) = x /\ Tail(c) = s
<1> DEFINE l == <<x>>
           c == l \o s
<1>1. l \in Seq(S) /\ Len(l) = 1 /\ l[1] = x
  OBVIOUS
<1>2. Len(s) \in Nat
  BY LenProperties
<1> HIDE DEF l
<1>3. /\ c \in Seq(S) /\ Len(c) = Len(l) + Len(s)
      /\ \A i \in 1..(Len(l) + Len(s)) : c[i] = IF i <= Len(l) THEN l[i] ELSE s[i - Len(l)]
  BY <1>1, ConcatProperties
<1> HIDE DEF c
<1>4. Len(c) = Len(s) + 1 /\ c[1] = x /\ c # <<>>
  <2>1. 1 \in 1..(Len(l) + Len(s)) /\ 1 <= Len(l)
    BY <1>1, <1>2
  <2>2. Len(c) = Len(s) + 1 /\ Len(c) # 0
    BY <1>1, <1>2, <1>3
  <2> QED
    BY <1>1, <1>3, <2>1, <2>2, EmptySeq
<1>5. ASSUME NEW i \in 1..Len(s) PROVE c[i + 1] = s[i]
  <2>1. i + 1 \in 1..(Len(l) + Len(s)) /\ ~(i + 1 <= Len(l)) /\ (i + 1) - Len(l) = i
    BY <1>1, <1>2
  <2> QED
    BY <1>3, <2>1
<1>6. Tail(c) = s
  <2>1. /\ Tail(c) \in Seq(S) /\ Len(Tail(c)) = Len(c) - 1
        /\ \A i \in 1..Len(Tail(c)) : Tail(c)[i] = c[i + 1]
    BY <1>3, <1>4, HeadTailProperties
  <2>2. Len(Tail(c)) = Len(s)
    BY <1>2, <1>4, <2>1
  <2> QED
    BY <1>5, <2>1, <2>2, SeqEqual
<1>7. Head(c) = x
  <2>1. Head(c) = c[1]
    BY <1>3, <1>4
  <2> QED
    BY <1>4, <2>1
<1> QED
  BY <1>3, <1>4, <1>5, <1>6, <1>7 DEF c, l

LEMMA BackwardsParts ==
  ASSUME NEW S, NEW s \in Seq(S)
  PROVE  /\ s = <<>> => Backwards(s) = <<>>
         /\ s # <<>> => Backwards(s) = <<Last(s)>> \o Backwards(Front(s))
         /\ Backwards(s) \in Seq(S)
<1> DEFINE n == Len(s)
           B == Backwards(s)
<1>1. n \in Nat /\ \A i \in 1..n : s[i] \in S
  BY LenProperties, ElementOfSeq
<1>2. B = [i \in 1..n |-> s[n - i + 1]]
  BY DEF Backwards, Reverse
<1>3. B \in Seq(S)
  BY BackwardsIsSeq
<1>4. Len(B) = n
  <2>1. DOMAIN B = 1..n
    BY <1>2
  <2>2. DOMAIN B = 1..Len(B) /\ Len(B) \in Nat
    BY <1>3, LenProperties
  <2> HIDE DEF B, n
  <2> QED
    BY <1>1, <2>1, <2>2
<1>5. CASE s = <<>>
  <2>1. n = 0
    BY <1>5, EmptySeq
  <2>2. B = <<>>
    BY <1>2, <2>1, <1>3, <1>4, EmptySeq
  <2> QED
    BY <1>3, <1>5, <2>2
<1>6. CASE s # <<>>
  <2> DEFINE f == Front(s)
             F == Backwards(f)
             l == <<Last(s)>>
  <2>1. f \in Seq(S) /\ Len(f) = n - 1 /\ \A i \in 1..(n - 1) : f[i] = s[i]
    BY <1>6, FrontOnce
  <2>2. n # 0 /\ Last(s) = s[n] /\ Last(s) \in S
    BY <1>1, <1>6, EmptySeq DEF Last
  <2>3. F \in Seq(S) /\ F = [i \in 1..(n - 1) |-> f[(n - 1) - i + 1]]
    BY <2>1, BackwardsIsSeq DEF Backwards, Reverse
  <2>4. Len(F) = n - 1
    <3>1. DOMAIN F = 1..(n - 1)
      BY <2>3
    <3>2. DOMAIN F = 1..Len(F) /\ Len(F) \in Nat
      BY <2>3, LenProperties
    <3> HIDE DEF F, n, f
    <3> QED
      BY <1>1, <2>2, <3>1, <3>2
  <2>5. /\ l \o F \in Seq(S) /\ Len(l \o F) = Len(F) + 1 /\ (l \o F)[1] = Last(s)
        /\ \A i \in 1..Len(F) : (l \o F)[i + 1] = F[i]
    BY <2>2, <2>3, InFront
  <2> HIDE DEF F, n, f, l, B
  <2>7. ASSUME NEW i \in 1..n PROVE B[i] = (l \o F)[i]
    <3>2. CASE i = 1
      <4>1. n - 1 + 1 = n /\ 1 \in 1..n
        BY <1>1, <3>2
      <4>2. B[1] = s[n]
        BY <1>2, <4>1
      <4> QED
        BY <2>2, <2>5, <3>2, <4>2
    <3>3. CASE i # 1
      <4>1. /\ i - 1 \in 1..(n - 1) /\ (n - 1) - (i - 1) + 1 = n - i + 1 /\ n - i + 1 \in 1..(n - 1)
            /\ (i - 1) + 1 = i
        BY <1>1, <3>3
      <4>2. F[i - 1] = f[n - i + 1]
        BY <2>3, <4>1
      <4>3. (l \o F)[(i - 1) + 1] = F[i - 1]
        BY <2>4, <2>5, <4>1
      <4> QED
        BY <1>2, <2>1, <4>1, <4>2, <4>3
    <3> QED
      BY <3>2, <3>3
  <2>8. B = l \o F
    <3>1. Len(l \o F) = n
      BY <1>1, <2>2, <2>4, <2>5
    <3> QED
      BY <1>3, <1>4, <2>5, <2>7, <3>1, SeqEqual
  <2> QED
    BY <1>3, <1>6, <2>8 DEF B, F, f, l
<1> QED
  BY <1>5, <1>6

(* Above empty block records there is nothing to take back.                *)
LEMMA StackEmpty ==
  ASSUME NEW bl, bl \in [Heights -> Seq(Txs)], NEW h \in 0..(MaxHeight + 1),
         \A k \in h..MaxHeight : bl[k] = <<>>
  PROVE  Stacked(bl)[h] = <<>>
<1>m. MaxHeight \in Nat
  BY TXAssumption
<1> DEFINE K == {k \in 0..(MaxHeight + 1) : Stacked(bl)[k] = <<>>}
<1>1. ASSUME NEW k \in h..((MaxHeight + 1) - 1), k + 1 \in K PROVE k \in K
  <2>1. k \in Heights /\ k \in h..MaxHeight /\ k \in 0..(MaxHeight + 1)
    BY <1>m DEF Heights
  <2>2. Stacked(bl)[k] = <<>> \o Backwards(<<>>)
    BY <1>1, <2>1, StackedIs
  <2>3. Backwards(<<>>) = <<>> /\ <<>> \in Seq(Txs)
    BY BackwardsParts, EmptySeq
  <2>4. Stacked(bl)[k] = <<>>
    BY <2>2, <2>3, ConcatEmptySeq
  <2> QED
    BY <2>1, <2>4
<1>2. MaxHeight + 1 \in K /\ MaxHeight + 1 \in Nat /\ h \in 0..(MaxHeight + 1) /\ h \in h..(MaxHeight + 1)
  <2>1. Stacked(bl)[MaxHeight + 1] = <<>> /\ MaxHeight + 1 \in 0..(MaxHeight + 1)
    <3>1. Stacked(bl)[MaxHeight + 1] = <<>>
      BY StackedIs, Zenon
    <3> QED
      BY <1>m, <3>1
  <2>2. MaxHeight + 1 \in K
    BY <2>1
  <2> HIDE DEF K
  <2> QED
    BY <1>m, <2>2
<1>3. h \in K
  <2> HIDE DEF K
  <2> QED
    BY <1>1, <1>2, Downwards
<1> QED
  BY <1>3

(* What is read off first is the last one of the topmost block record with *)
(* anything in it, and the rest is what is above without it.               *)
LEMMA StackTop ==
  ASSUME NEW bl, bl \in [Heights -> Seq(Txs)], NEW k \in Heights, NEW h \in 0..k,
         bl[k] # <<>>, \A j \in (k + 1)..MaxHeight : bl[j] = <<>>
  PROVE  LET less == [bl EXCEPT ![k] = Front(bl[k])]
         IN  /\ Stacked(bl)[h] # <<>>
             /\ Head(Stacked(bl)[h]) = Last(bl[k])
             /\ Tail(Stacked(bl)[h]) = Stacked(less)[h]
<1> DEFINE less == [bl EXCEPT ![k] = Front(bl[k])]
           A == Stacked(bl)
           B == Stacked(less)
           l == <<Last(bl[k])>>
<1>m. MaxHeight \in Nat /\ k \in 0..MaxHeight /\ k \in Nat /\ k + 1 \in 0..(MaxHeight + 1)
  BY TXAssumption DEF Heights
<1>1. /\ bl[k] \in Seq(Txs) /\ Front(bl[k]) \in Seq(Txs) /\ Last(bl[k]) \in Range(bl[k])
      /\ Last(bl[k]) \in Txs
  <2>1. bl[k] \in Seq(Txs)
    OBVIOUS
  <2>2. Range(bl[k]) \subseteq Txs
    BY <2>1, LenProperties, ElementOfSeq DEF Range
  <2> QED
    BY <2>1, <2>2, FrontOnce
<1>2. /\ less \in [Heights -> Seq(Txs)] /\ less[k] = Front(bl[k])
      /\ \A j \in Heights : j # k => less[j] = bl[j]
  BY <1>1
<1>3. \A j \in (k + 1)..MaxHeight : less[j] = <<>>
  <2>1. \A j \in (k + 1)..MaxHeight : j \in Heights /\ j # k
    BY <1>m DEF Heights
  <2> QED
    BY <1>2, <2>1
<1>4. l \in Seq(Txs)
  BY <1>1
<1> HIDE DEF less
<1>5. A[k + 1] = <<>> /\ B[k + 1] = <<>>
  BY <1>m, <1>2, <1>3, StackEmpty
<1>6. \A j \in 0..(MaxHeight + 1) : A[j] \in Seq(Txs) /\ B[j] \in Seq(Txs)
  BY <1>2, StackedIs
<1>7. A[k] = l \o B[k]
  <2>1. A[k] = <<>> \o Backwards(bl[k]) /\ B[k] = <<>> \o Backwards(Front(bl[k]))
    BY <1>2, <1>5, StackedIs
  <2>2. /\ Backwards(bl[k]) = l \o Backwards(Front(bl[k]))
        /\ Backwards(bl[k]) \in Seq(Txs) /\ Backwards(Front(bl[k])) \in Seq(Txs)
    BY <1>1, BackwardsParts
  <2>3. A[k] = Backwards(bl[k]) /\ B[k] = Backwards(Front(bl[k]))
    BY <2>1, <2>2, ConcatEmptySeq
  <2> QED
    BY <2>2, <2>3
<1> DEFINE K == {j \in 0..k : A[j] = l \o B[j]}
<1>8. ASSUME NEW j \in h..(k - 1), j + 1 \in K PROVE j \in K
  <2>1. j \in Heights /\ j # k /\ j \in 0..k /\ j + 1 \in 0..(MaxHeight + 1)
    BY <1>m DEF Heights
  <2>2. A[j] = A[j + 1] \o Backwards(bl[j]) /\ B[j] = B[j + 1] \o Backwards(bl[j])
    BY <1>2, <2>1, StackedIs
  <2>3. B[j + 1] \in Seq(Txs) /\ Backwards(bl[j]) \in Seq(Txs)
    <3>1. bl[j] \in Seq(Txs)
      BY <2>1
    <3> QED
      BY <1>6, <2>1, <3>1, BackwardsIsSeq
  <2>4. A[j] = (l \o B[j + 1]) \o Backwards(bl[j])
    BY <1>8, <2>2
  <2>a. (l \o B[j + 1]) \o Backwards(bl[j]) = l \o (B[j + 1] \o Backwards(bl[j]))
    <3> HIDE DEF l, A, B
    <3> DEFINE x == B[j + 1]
               y == Backwards(bl[j])
    <3>1. x \in Seq(Txs) /\ y \in Seq(Txs) /\ l \in Seq(Txs)
      BY <1>4, <2>3
    <3> HIDE DEF x, y
    <3>2. (l \o x) \o y = l \o (x \o y)
      BY <3>1, ConcatAssociative
    <3> QED
      BY <3>2 DEF x, y
  <2>5. A[j] = l \o B[j]
    BY <2>2, <2>4, <2>a
  <2> QED
    BY <2>1, <2>5
<1>9. h \in K
  <2>1. k \in K /\ h \in h..k
    BY <1>7, <1>m
  <2> HIDE DEF K
  <2> QED
    BY <1>m, <1>8, <2>1, Downwards
<1>10. A[h] = l \o B[h] /\ B[h] \in Seq(Txs)
  <2>1. h \in 0..(MaxHeight + 1)
    BY <1>m
  <2> QED
    BY <1>6, <1>9, <2>1
<1> HIDE DEF A, B
<1>11. A[h] # <<>> /\ Head(A[h]) = Last(bl[k]) /\ Tail(A[h]) = B[h]
  BY <1>1, <1>10, InFront
<1> QED
  BY <1>11 DEF less, A, B

(* ... and if nothing is read off, nothing is there.                       *)
LEMMA StackFound ==
  ASSUME NEW bl, bl \in [Heights -> Seq(Txs)], NEW h \in 0..MaxHeight,
         \E k \in h..MaxHeight : bl[k] # <<>>
  PROVE  \E k \in h..MaxHeight : bl[k] # <<>> /\ \A j \in (k + 1)..MaxHeight : bl[j] = <<>>
<1> DEFINE D == {d \in 0..(MaxHeight - h) : bl[MaxHeight - d] # <<>>}
<1>m. MaxHeight \in Nat
  BY TXAssumption
<1>1. D \subseteq Nat /\ D # {}
  <2>1. PICK k \in h..MaxHeight : bl[k] # <<>>
    OBVIOUS
  <2>2. MaxHeight - k \in 0..(MaxHeight - h) /\ MaxHeight - (MaxHeight - k) = k
    BY <1>m
  <2>3. MaxHeight - k \in D
    BY <2>1, <2>2
  <2>4. \A d \in D : d \in Nat
    BY <1>m
  <2> HIDE DEF D
  <2> QED
    BY <2>3, <2>4
<1>2. PICK d \in D : \A e \in D : d <= e
  <2> HIDE DEF D
  <2> QED
    BY <1>1, LeastNumber
<1>3. d \in 0..(MaxHeight - h) /\ bl[MaxHeight - d] # <<>> /\ MaxHeight - d \in h..MaxHeight
  BY <1>m
<1>4. ASSUME NEW j \in (MaxHeight - d + 1)..MaxHeight, bl[j] # <<>> PROVE FALSE
  <2>1. MaxHeight - j \in 0..(MaxHeight - h) /\ MaxHeight - (MaxHeight - j) = j /\ ~(d <= MaxHeight - j)
    BY <1>m, <1>3
  <2>2. MaxHeight - j \in D
    BY <1>4, <2>1
  <2> HIDE DEF D
  <2> QED
    BY <1>2, <2>1, <2>2
<1> QED
  BY <1>3, <1>4

-----------------------------------------------------------------------------
(* The heights on record.                                                  *)

Confirmed == {t \in Txs : rec[t] \in Heights}

(* The wallet records what is its own, and the coins and undo coins of a   *)
(* confirmed transaction's outputs have its height.                        *)
OwnKnown == \A t \in Txs : rec[t] # None => RelevantTo(t)

HeightsAgree ==
  \A o \in Mine : Creator[o] \in Confirmed =>
    /\ credit[o] # None => credit[o].height = rec[Creator[o]]
    /\ \A t \in Txs : undo[t][o] # None => undo[t][o] = rec[Creator[o]]

HeightInv == OwnKnown /\ HeightsAgree

LEMMA HeightsStay ==
  ASSUME HeightInv, UNCHANGED <<rec, credit, undo>>
  PROVE  HeightInv'
BY DEF HeightInv, OwnKnown, HeightsAgree, Confirmed

(* What is erased takes its undo coins along and gives their heights back. *)
LEMMA EraseHeights ==
  ASSUME Records, JobOK, HeightInv, Erase
  PROVE  HeightInv'
<1> USE Sentinels
<1> DEFINE t == Top.tx
<1>1. /\ job.op \in {"add", "remove"} /\ job.path # <<>>
      /\ credit' = Restored(t)
      /\ undo' = [undo EXCEPT ![t] = [o \in Outs |-> None]]
      /\ rec' = [rec EXCEPT ![t] = None]
  BY DEF Erase, Top
<1>2. t \in Txs
  BY <1>1, EraseFinds
<1> HIDE DEF t
<1>3. RecordTypes /\ Mine \subseteq Outs
  BY TXAssumption DEF Records
<1>4. rec'[t] = None /\ \A u \in Txs : u # t => rec'[u] = rec[u]
  BY <1>1, <1>2, <1>3 DEF RecordTypes
<1>5. OwnKnown'
  BY <1>4 DEF HeightInv, OwnKnown
<1>6. ASSUME NEW o \in Mine, Creator[o] \in Confirmed'
      PROVE  /\ credit'[o] # None => credit'[o].height = rec'[Creator[o]]
             /\ \A u \in Txs : undo'[u][o] # None => undo'[u][o] = rec'[Creator[o]]
  <2>1. /\ Creator[o] \in Txs /\ Creator[o] # t /\ rec'[Creator[o]] = rec[Creator[o]]
        /\ Creator[o] \in Confirmed /\ o \in Outs
    BY <1>3, <1>4, <1>6 DEF Confirmed
  <2>2. \A u \in Txs : undo'[u][o] # None => u # t /\ undo'[u][o] = undo[u][o]
    BY <1>1, <1>2, <1>3, <2>1 DEF RecordTypes
  <2>3. o \notin MyOuts(t)
    BY <1>2, <2>1, NotOwn
  <2>4. CASE o \in HasUndo(t)
    <3>1. undo[t][o] # None /\ credit'[o] = [height |-> undo[t][o], spent |-> FALSE]
      BY <1>1, <2>1, <2>4 DEF Restored, HasUndo
    <3> QED
      BY <1>2, <2>1, <2>2, <3>1 DEF HeightInv, HeightsAgree
  <2>5. CASE o \notin HasUndo(t)
    <3>1. credit'[o] = credit[o]
      BY <1>1, <2>1, <2>3, <2>5 DEF Restored
    <3> QED
      BY <2>1, <2>2, <3>1 DEF HeightInv, HeightsAgree
  <2> QED
    BY <2>4, <2>5
<1>7. HeightsAgree'
  BY <1>6 DEF HeightsAgree
<1> QED
  BY <1>5, <1>7 DEF HeightInv

(* What comes in gives its height to its outputs, spent ones included, and *)
(* keeps that of what it spends.                                           *)
LEMMA InsertHeights ==
  ASSUME Records, JobOK, HeightInv, InsertTX
  PROVE  HeightInv'
<1> USE Sentinels
<1> DEFINE t == job.tx
           h == job.height
           spent == Spendable(t)
           resolved == Resolved(t)
           new == MyOuts(t) \ resolved
           pending == {o \in resolved : rec[spender[o]] = Unconfirmed}
<1>1. /\ job.op = "add" /\ rec[t] = None /\ Ours(t)
      /\ rec' = [rec EXCEPT ![t] = h]
      /\ credit' = [o \in Outs |->
           IF o \in spent
           THEN IF h = Unconfirmed THEN [credit[o] EXCEPT !.spent = TRUE] ELSE None
           ELSE IF o \in new THEN [height |-> h, spent |-> FALSE]
           ELSE IF o \in pending THEN [height |-> h, spent |-> TRUE]
           ELSE credit[o]]
      /\ undo' = [u \in Txs |-> [o \in Outs |->
           IF u = t /\ o \in spent THEN credit[o].height
           ELSE IF o \in resolved /\ spender[o] = u THEN h
           ELSE undo[u][o]]]
  BY DEF InsertTX, Inserting, Working
<1>2. t \in Txs /\ h \in Heights \cup {Unconfirmed}
  BY <1>1, JobFields DEF JobOK
<1>3. RecordTypes /\ Spends /\ (\A o \in Mine : CoinAgrees(o)) /\ Mine \subseteq Outs
  BY TXAssumption DEF Records
<1>4. rec'[t] = h /\ \A u \in Txs : u # t => rec'[u] = rec[u]
  BY <1>1, <1>2, <1>3 DEF RecordTypes
<1>5. RelevantTo(t)
  <2>1. PICK o : o \in Spendable(t) \cup MyOuts(t)
    BY <1>1 DEF Ours
  <2>2. CASE o \in MyOuts(t)
    BY <2>2 DEF RelevantTo
  <2>3. CASE o \in Spendable(t)
    <3>1. o \in In(t) /\ o \in Outs /\ credit[o] # None
      BY <2>3 DEF Spendable, Credits
    <3>2. o \in Mine
      BY <1>3, <3>1 DEF Spends
    <3> QED
      BY <3>1, <3>2 DEF RelevantTo
  <2> QED
    BY <2>1, <2>2, <2>3
<1>6. OwnKnown'
  BY <1>4, <1>5 DEF HeightInv, OwnKnown
<1>7. ASSUME NEW o \in Mine, Creator[o] \in Confirmed'
      PROVE  /\ credit'[o] # None => credit'[o].height = rec'[Creator[o]]
             /\ \A u \in Txs : undo'[u][o] # None => undo'[u][o] = rec'[Creator[o]]
  <2>1. o \in Outs /\ Creator[o] \in Txs
    BY <1>3, <1>7 DEF Confirmed
  <2>2. /\ credit'[o] =
             (IF o \in spent
              THEN IF h = Unconfirmed THEN [credit[o] EXCEPT !.spent = TRUE] ELSE None
              ELSE IF o \in new THEN [height |-> h, spent |-> FALSE]
              ELSE IF o \in pending THEN [height |-> h, spent |-> TRUE]
              ELSE credit[o])
        /\ \A u \in Txs : undo'[u][o] =
             (IF u = t /\ o \in spent THEN credit[o].height
              ELSE IF o \in resolved /\ spender[o] = u THEN h
              ELSE undo[u][o])
    BY <1>1, <2>1
  <2>3. CASE Creator[o] = t
    <3>1. o \in MyOuts(t) /\ o \notin In(t) /\ ~KnownOut(o)
      <4>1. o \in OutsOf(t)
        BY <2>1, <2>3 DEF OutsOf
      <4> QED
        BY <1>1, <1>2, <2>3, <4>1, NotOwn DEF MyOuts, KnownOut
    <3>2. o \notin spent /\ credit[o] = None /\ (spender[o] # None => undo[spender[o]][o] = None)
      BY <1>3, <3>1 DEF Spendable, CoinAgrees
    <3>3. \A u \in Txs : undo[u][o] = None
      BY <1>3, <2>1, <3>2 DEF Spends
    <3>4. credit'[o] # None => credit'[o].height = h
      BY <2>2, <3>2
    <3> HIDE DEF resolved, spent
    <3>5. \A u \in Txs : undo'[u][o] # None => undo'[u][o] = h
      BY <2>2, <3>2, <3>3
    <3> QED
      BY <1>4, <2>3, <3>4, <3>5
  <2>4. CASE Creator[o] # t
    <3>1. o \notin MyOuts(t)
      BY <1>2, <2>4, NotOwn
    <3>2. o \notin resolved /\ o \notin new /\ o \notin pending
      BY <3>1 DEF Resolved
    <3>3. rec'[Creator[o]] = rec[Creator[o]] /\ Creator[o] \in Confirmed
      BY <1>4, <1>7, <2>1, <2>4 DEF Confirmed
    <3>4. /\ credit[o] # None => credit[o].height = rec[Creator[o]]
          /\ \A u \in Txs : undo[u][o] # None => undo[u][o] = rec[Creator[o]]
      BY <3>3 DEF HeightInv, HeightsAgree
    <3>5. CASE o \in spent
      <4>1. credit[o] # None /\ credit[o] \in Credit
        BY <1>3, <2>1, <3>5 DEF Spendable, Credits, RecordTypes
      <4>2. [credit[o] EXCEPT !.spent = TRUE].height = credit[o].height
        BY <4>1 DEF Credit
      <4> HIDE DEF resolved, spent
      <4> QED
        BY <2>2, <3>2, <3>3, <3>4, <3>5, <4>1, <4>2
    <3>6. CASE o \notin spent
      <4> HIDE DEF resolved, spent, new, pending
      <4> QED
        BY <2>2, <3>2, <3>3, <3>4, <3>6
    <3> QED
      BY <3>5, <3>6
  <2> QED
    BY <2>3, <2>4
<1>8. HeightsAgree'
  BY <1>7 DEF HeightsAgree
<1> QED
  BY <1>6, <1>8 DEF HeightInv

(* A confirmation gives its height to the coins and undo coins of the      *)
(* outputs, ...                                                            *)
LEMMA ConfirmHeights ==
  ASSUME Records, JobOK, HeightInv, ConfirmTX
  PROVE  HeightInv'
<1> USE Sentinels
<1> DEFINE t == job.tx
           h == job.height
           gone == HasUndo(t)
           mempool == {o \in MyOuts(t) : credit[o].spent}
<1>0. job.op = "add" /\ rec[t] = Unconfirmed
  BY DEF ConfirmTX, Confirming, Working
<1>2. t \in Txs /\ h \in Heights \cup {Unconfirmed}
  BY <1>0, JobFields DEF JobOK
<1>3. RecordTypes /\ Spends /\ (\A o \in Mine : CoinAgrees(o)) /\ Mine \subseteq Outs
  BY TXAssumption DEF Records
<1>a. Late(t) = {}
  BY <1>0, <1>2, NoneLate
<1>b. MyOuts(t) \cap Credits = MyOuts(t)
  <2>1. ConfirmAssertions(t) = {}
    BY DEF ConfirmTX
  <2> QED
    BY <2>1 DEF ConfirmAssertions
<1>1. /\ rec' = [rec EXCEPT ![t] = h]
      /\ credit' = [o \in Outs |->
           IF o \in gone THEN None
           ELSE IF o \in MyOuts(t) THEN [credit[o] EXCEPT !.height = h]
           ELSE credit[o]]
      /\ undo' = [UndoOfSpenders(mempool, h) EXCEPT ![t] = [o \in Outs |-> @[o]]]
  BY <1>a DEF ConfirmTX
<1>4. rec'[t] = h /\ \A u \in Txs : u # t => rec'[u] = rec[u]
  BY <1>1, <1>2, <1>3 DEF RecordTypes
<1>5. OwnKnown'
  BY <1>0, <1>2, <1>4 DEF HeightInv, OwnKnown
<1>6. \A u \in Txs, o \in Outs : undo'[u][o] =
        (IF o \in mempool /\ spender[o] = u /\ undo[u][o] # None THEN h ELSE undo[u][o])
  <2> HIDE DEF mempool
  <2> QED
    BY <1>1, <1>2 DEF UndoOfSpenders
<1>7. ASSUME NEW o \in Mine, Creator[o] \in Confirmed'
      PROVE  /\ credit'[o] # None => credit'[o].height = rec'[Creator[o]]
             /\ \A u \in Txs : undo'[u][o] # None => undo'[u][o] = rec'[Creator[o]]
  <2>1. o \in Outs /\ Creator[o] \in Txs
    BY <1>3, <1>7 DEF Confirmed
  <2>2. CASE Creator[o] = t
    <3>1. o \in MyOuts(t) /\ o \notin gone
      <4>1. o \in OutsOf(t) /\ o \in MyOuts(t)
        BY <2>1, <2>2 DEF OutsOf, MyOuts
      <4> QED
        BY <1>2, <4>1, NotOwn DEF HasUndo
    <3>2. credit[o] # None /\ credit[o] \in Credit
      BY <1>b, <1>3, <2>1, <3>1 DEF Credits, RecordTypes
    <3>3. credit'[o].height = h
      <4>1. credit'[o] = [credit[o] EXCEPT !.height = h]
        BY <1>1, <2>1, <3>1
      <4> QED
        BY <3>2, <4>1 DEF Credit
    <3>4. ASSUME NEW u \in Txs, undo'[u][o] # None PROVE undo'[u][o] = h
      <4>1. CASE o \in mempool
        <5>1. undo[u][o] # None
          BY <1>2, <1>6, <2>1, <3>4
        <5>2. spender[o] = u
          BY <1>3, <2>1, <5>1 DEF Spends
        <5> HIDE DEF mempool
        <5> QED
          BY <1>6, <2>1, <4>1, <5>1, <5>2
      <4>2. CASE o \notin mempool
        <5>1. credit[o].spent = FALSE
          BY <3>1, <3>2, <4>2 DEF Credit
        <5>2. spender[o] = None
          BY <1>3, <3>2, <5>1 DEF CoinAgrees
        <5>3. undo[u][o] = None
          BY <1>3, <2>1, <5>2 DEF Spends
        <5> QED
          BY <1>6, <2>1, <3>4, <4>2, <5>3
      <4> QED
        BY <4>1, <4>2
    <3> QED
      BY <1>4, <2>2, <3>3, <3>4
  <2>3. CASE Creator[o] # t
    <3>1. o \notin MyOuts(t) /\ o \notin mempool
      BY <1>2, <2>3, NotOwn
    <3>2. rec'[Creator[o]] = rec[Creator[o]] /\ Creator[o] \in Confirmed
      BY <1>4, <1>7, <2>1, <2>3 DEF Confirmed
    <3>3. /\ credit[o] # None => credit[o].height = rec[Creator[o]]
          /\ \A u \in Txs : undo[u][o] # None => undo[u][o] = rec[Creator[o]]
      BY <3>2 DEF HeightInv, HeightsAgree
    <3>4. credit'[o] # None => credit'[o] = credit[o]
      BY <1>1, <2>1, <3>1
    <3>5. \A u \in Txs : undo'[u][o] = undo[u][o]
      <4> HIDE DEF mempool
      <4> QED
        BY <1>6, <2>1, <3>1
    <3> QED
      BY <3>2, <3>3, <3>4, <3>5
  <2> QED
    BY <2>2, <2>3
<1>8. HeightsAgree'
  BY <1>7 DEF HeightsAgree
<1> QED
  BY <1>5, <1>8 DEF HeightInv

(* ... and a disconnection takes the height from its undo coins.           *)
LEMMA DisconnectHeights ==
  ASSUME Records, JobOK, HeightInv, DisconnectTX
  PROVE  HeightInv'
<1> USE Sentinels
<1> DEFINE t == job.tx
           back == HasUndo(t)
           kept == MyOuts(t) \cap Credits
           reheight == {o \in MyOuts(t) : o \in kept => credit[o].spent}
<1>1. /\ job.op = "unconfirm" /\ rec[t] \in Heights
      /\ rec' = [rec EXCEPT ![t] = Unconfirmed]
      /\ credit' = [o \in Outs |->
           IF o \in back THEN [height |-> undo[t][o], spent |-> TRUE]
           ELSE IF o \in kept THEN [credit[o] EXCEPT !.height = Unconfirmed]
           ELSE credit[o]]
      /\ undo' = UndoOfSpenders(reheight, OldHeight(rec[t]))
  BY DEF DisconnectTX, Disconnecting, Working
<1>2. t \in Txs
  BY <1>1, JobFields DEF JobOK
<1>3. RecordTypes /\ Mine \subseteq Outs
  BY TXAssumption DEF Records
<1>4. rec'[t] = Unconfirmed /\ \A u \in Txs : u # t => rec'[u] = rec[u]
  BY <1>1, <1>2, <1>3 DEF RecordTypes
<1>5. OwnKnown'
  BY <1>1, <1>2, <1>4 DEF HeightInv, OwnKnown
<1>6. ASSUME NEW o \in Mine, Creator[o] \in Confirmed'
      PROVE  /\ credit'[o] # None => credit'[o].height = rec'[Creator[o]]
             /\ \A u \in Txs : undo'[u][o] # None => undo'[u][o] = rec'[Creator[o]]
  <2>1. /\ o \in Outs /\ Creator[o] \in Txs /\ Creator[o] # t /\ rec'[Creator[o]] = rec[Creator[o]]
        /\ Creator[o] \in Confirmed
    BY <1>2, <1>3, <1>4, <1>6 DEF Confirmed
  <2>2. o \notin MyOuts(t) /\ o \notin kept /\ o \notin reheight
    BY <1>2, <2>1, NotOwn
  <2>3. /\ credit[o] # None => credit[o].height = rec[Creator[o]]
        /\ \A u \in Txs : undo[u][o] # None => undo[u][o] = rec[Creator[o]]
    BY <2>1 DEF HeightInv, HeightsAgree
  <2>4. \A u \in Txs : undo'[u][o] = undo[u][o]
    <3> HIDE DEF reheight
    <3> QED
      BY <1>1, <2>1, <2>2 DEF UndoOfSpenders
  <2>5. CASE o \in back
    <3>1. undo[t][o] # None /\ credit'[o].height = undo[t][o]
      BY <1>1, <2>1, <2>5 DEF HasUndo
    <3> QED
      BY <1>2, <2>1, <2>3, <2>4, <3>1
  <2>6. CASE o \notin back
    <3>1. credit'[o] = credit[o]
      BY <1>1, <2>1, <2>2, <2>6
    <3> QED
      BY <2>1, <2>3, <2>4, <3>1
  <2> QED
    BY <2>5, <2>6
<1>7. HeightsAgree'
  BY <1>6 DEF HeightsAgree
<1> QED
  BY <1>5, <1>7 DEF HeightInv

LEMMA NextHeights ==
  ASSUME WalletInv, HeightInv, [Next]_allVars
  PROVE  HeightInv'
<1>0. Records /\ JobOK
  BY DEF WalletInv
<1>1. CASE Step
  <2>1. CASE Erase \/ InsertTX \/ ConfirmTX \/ DisconnectTX
    BY <1>0, <2>1, EraseHeights, InsertHeights, ConfirmHeights, DisconnectHeights
  <2>2. CASE \/ Descend \/ Ignore \/ IndexRBF \/ Reject \/ ConfirmThrows \/ DisconnectThrows
             \/ NothingToUnconfirm
    <3>1. UNCHANGED <<rec, credit, undo>>
      BY <2>2 DEF Descend, Ignore, IndexRBF, Reject, ConfirmThrows, DisconnectThrows, Throws,
                  NothingToUnconfirm, records
    <3> QED
      BY <3>1, HeightsStay
  <2> QED
    BY <1>1, <2>1, <2>2 DEF Step
<1>2. CASE UNCHANGED <<rec, credit, undo>>
  BY <1>2, HeightsStay
<1>3. CASE NodeStep \/ Open \/ Opened \/ (\E h \in Heights : Rescan(h)) \/ UNCHANGED allVars
  BY <1>2, <1>3 DEF NodeStep, Connect, ChainReset, Disconnect, Relay, Open, Opened, Rescan, vars, allVars
<1>4. CASE \/ ConnectBlock \/ AddTX \/ RemoveBlock \/ RollBack \/ StartRescan \/ Drop
           \/ Skip \/ MaybeMark
  BY <1>2, <1>4 DEF ConnectBlock, AddTX, RemoveBlock, RollBack, StartRescan, Drop, Skip, MaybeMark, vars
<1>5. CASE Connected \/ Disconnected \/ Reverted \/ LockChain \/ ScanBlock \/ Scanned
  BY <1>2, <1>5 DEF Connected, Disconnected, Reverted, LockChain, ScanBlock, Scanned, vars
<1>6. CASE Insert \/ UnconfirmNext \/ Caught \/ BatchFails \/ Crash \/ (\E t \in Txs : Abandon(t))
  BY <1>2, <1>6 DEF Insert, Add, UnconfirmNext, Unconfirm, Caught, BatchFails, CommitFails, Crash,
                    Abandon, RemoveTX, records
<1> QED
  BY <1>1, <1>3, <1>4, <1>5, <1>6 DEF Next, Undisturbed, WalletStep
-----------------------------------------------------------------------------
(* The invariant of a wallet that follows the chain, until it is lost.     *)

Here == sync.height

(* The one chain that leads to the block the wallet is at.                 *)
TrailTo(b, n) == CHOOSE p \in [0..n -> Blocks] : Chain(p, n) /\ p[n] = b
Trail == TrailTo(hashes[Here], Here)

(* The wallet's blocks and the node's are chains from the start block; the *)
(* wallet need not have the hashes of all of them.                         *)
Linked ==
  /\ sync.startHeight = 0 /\ sync.start = Start
  /\ Chain(Trail, Here) /\ Trail[Here] = hashes[Here]
  /\ \A k \in 0..Here : hashes[k] \in {Trail[k], None}
MainPath == [k \in 0..(Len(main) - 1) |-> main[k + 1]]
MainOK == Chain(MainPath, Len(main) - 1)

(* The hashes from some height up are there.                               *)
Kept(h) == \A k \in h..Here : hashes[k] # None

(* The lowest block the chain may fall back to, and the heights of blocks  *)
(* the wallet can be told of: it still knows its own block there.          *)
FloorOK == floor \in Nat /\ Kept(floor) /\ floor <= Height[Tip] /\ Height[Tip] < floor + KeepBlocks
Safe == {h \in Nat : h < floor + KeepBlocks /\ Kept(h)}
Within(S, b) == {h \in S : Height[b] < h + KeepBlocks}
Onward(b) == Within(Safe, b)

(* Confirmed are the wallet's transactions of its blocks below height L    *)
(* and of the first m of the one there, and no others.                     *)
Holds(L, m) ==
  /\ \A k \in 0..(L - 1) : ListsFirst(blocks[k], Trail[k], Size(Trail[k]))
  /\ ListsFirst(blocks[L], Trail[L], m)
  /\ \A k \in (L + 1)..MaxHeight : blocks[k] = <<>>

Full(L, m) == L = Here /\ m = Size(Trail[Here])

(* The first n transactions of a block have been handed out.               *)
Handed(m, b, n) ==
  /\ work.todo = SubSeq(BlockTxs[b], n + 1, Size(b))
  /\ \/ /\ job.op = "add" /\ n >= 1 /\ job.tx = BlockTxs[b][n] /\ job.height = Here
        /\ sync.marked /\ m >= n - 1
     \/ job.op # "add" /\ m >= n

Adding(L, m, b) ==
  L = Here /\ b = Trail[Here] /\ \E n \in 0..Size(b) : Handed(m, b, n)

(* What is taken back one by one, the one under way included.              *)
UndoIs(s) ==
  IF job.op = "unconfirm"
  THEN s # <<>> /\ Head(s) = job.tx /\ Tail(s) = work.todo
  ELSE s = work.todo

(* The work that holds txLock, and what is confirmed meanwhile.            *)
Resting(L, m) ==
  /\ work = NoWork
  /\ phase = "down" => L = Here \/ ~OnMain(Trail[L])
  /\ phase # "down" => Full(L, m)
  /\ phase = "opening" => Trail[Here] = Tip

Rescanning(L) ==
  work.op = "rescan" /\ phase = "opening" /\ L = Here /\ OnMain(Trail[Here])

Connecting(L, m) ==
  /\ work.op = "connect" /\ phase = "up"
  /\ \/ work.block = None /\ Full(L, m) /\ (job.op = "add" => job.height = Unconfirmed)
     \/ work.block # None /\ Adding(L, m, work.block)

Scanning(L, m) ==
  /\ work.op = "scan" /\ phase = "opening"
  /\ Here + 1 <= Len(main) /\ Trail[Here] = main[Here + 1]
  /\ \/ /\ work.block = None /\ L = Here /\ work.todo = <<>> /\ job.op # "add"
        /\ work.rest = SubSeq(main, Here + 1, Len(main))
     \/ /\ work.block # None /\ Adding(L, m, work.block)
        /\ work.rest = SubSeq(main, Here + 2, Len(main))

RemovingBlock(L) ==
  /\ work.op = "disconnect" /\ phase = "up"
  /\ L = Here /\ L >= 1 /\ work.prev = Trail[L - 1] /\ UndoIs(Above[L])

Reverting(L) ==
  /\ work.op = "revert" /\ phase # "down" /\ ~work.reset
  /\ \E to \in 0..(L - 1) :
       /\ work.tip = Trail[to] /\ UndoIs(Above[to + 1])
       /\ phase = "up" => ~work.scan
       /\ phase = "opening" => /\ work.scan /\ OnMain(Trail[to])
                               /\ \A k \in (to + 1)..Here : ~OnMain(Trail[k])

AtWork(L, m) ==
  \/ Resting(L, m) \/ Rescanning(L) \/ Connecting(L, m) \/ Scanning(L, m)
  \/ RemovingBlock(L) \/ Reverting(L)

(* The operation of the wallet belongs to that work, and whatever it       *)
(* removes is not confirmed.                                               *)
JobMatches ==
  /\ job.op # "threw"
  /\ job.op = "add" => work.op \in {"connect", "scan"}
  /\ job.op = "unconfirm" => work.op \in {"disconnect", "revert"}
  /\ phase = "down" => job = Idle /\ work = NoWork
  /\ Underway => \A w \in Pend(job) : w.height = Unconfirmed /\ RelevantTo(w.tx)

(* The notifications lead from the block the wallet will be at to the tip. *)
Moves(x, n, y) ==
  \/ n.type = "connect" /\ Parent[n.block] = x /\ y = n.block
  \/ n.type = "disconnect" /\ n.block = x /\ y = Parent[x]
  \/ n.type = "reset" /\ y = n.block /\ Before(y, x)
  \/ n.type = "tx" /\ y = x

(* None of the tips on the way is as far as KeepBlocks below one before it.*)
Leads(x, q, y, S) ==
  \E tips \in [0..Len(q) -> Blocks] :
    /\ tips[0] = x /\ tips[Len(q)] = y
    /\ \A i \in 1..Len(q) : Moves(tips[i - 1], q[i], tips[i])
    /\ \A i \in 0..Len(q) : Height[tips[i]] \in S
    /\ \A j \in 0..Len(q) : \A i \in 0..j : Height[tips[i]] < Height[tips[j]] + KeepBlocks

Target ==
  IF work.op = "disconnect" THEN work.prev
  ELSE IF work.op = "revert" THEN work.tip
  ELSE Trail[Here]

(* Without notifications to go by, the wallet finds the main chain again.  *)
Anchored == \E m \in 0..Here : Kept(m) /\ OnMain(Trail[m])
QueueOK == IF phase = "up" THEN Leads(Target, queue, Tip, Safe) ELSE queue = <<>> /\ Anchored

(* A new wallet has nothing before it has seen a transaction of its own.   *)
MarkOK == sync.marked \/ (~Marked /\ phase # "up" /\ Here = 0 /\ blocks[0] = <<>>)

Follows ==
  /\ alarm = {} /\ Linked /\ MainOK /\ FloorOK /\ JobMatches /\ QueueOK /\ MarkOK
  /\ phase \in {"down", "opening", "up"}
  /\ \E L \in 0..Here : \E m \in 0..Size(Trail[L]) : Holds(L, m) /\ AtWork(L, m)

FollowInv == WalletInv /\ HeightInv /\ (~lost => Follows)

-----------------------------------------------------------------------------
(* Ways through the blocks.                                                *)
LEMMA HeightsAreNat ==
  /\ KeepBlocks \in Nat /\ KeepBlocks >= 1 /\ MaxHeight \in Nat
  /\ \A b \in Blocks : Height[b] \in Nat /\ Height[b] \in 0..MaxHeight
BY WalletAssumption, TXAssumption DEF Heights

LEMMA LeadsNowhere ==
  ASSUME NEW x \in Blocks, NEW y, NEW S
  PROVE  /\ Leads(x, <<>>, y, S) => x = y /\ Height[x] \in S
         /\ x = y /\ Height[x] \in S => Leads(x, <<>>, y, S)
<1>1. Len(<<>>) = 0
  BY EmptySeq
<1>2. ASSUME Leads(x, <<>>, y, S) PROVE x = y /\ Height[x] \in S
  BY <1>1, <1>2 DEF Leads
<1>3. ASSUME x = y, Height[x] \in S PROVE Leads(x, <<>>, y, S)
  <2> DEFINE tips == [i \in 0..0 |-> x]
  <2>1. /\ tips \in [0..Len(<<>>) -> Blocks] /\ tips[0] = x /\ tips[Len(<<>>)] = y
        /\ \A i \in 0..Len(<<>>) : tips[i] = x /\ i = 0
    BY <1>1, <1>3
  <2>2. \A i \in 1..Len(<<>>) : Moves(tips[i - 1], <<>>[i], tips[i])
    BY <1>1
  <2>3. Height[x] < Height[x] + KeepBlocks
    BY HeightsAreNat
  <2>4. \A j \in 0..Len(<<>>) : \A i \in 0..j : Height[tips[i]] < Height[tips[j]] + KeepBlocks
    BY <1>1, <2>1, <2>3
  <2> HIDE DEF tips
  <2> QED
    BY <1>3, <2>1, <2>2, <2>4 DEF Leads
<1> QED
  BY <1>2, <1>3

LEMMA LeadsOn ==
  ASSUME NEW x, NEW U, NEW q \in Seq(U), NEW y, NEW S, NEW T, S \subseteq T, Leads(x, q, y, S),
         NEW n \in U, NEW z \in Blocks, Moves(y, n, z),
         Height[z] \in T, \A h \in S : h < Height[z] + KeepBlocks
  PROVE  Leads(x, Append(q, n), z, T)
<1> DEFINE N == Len(q)
           a == Append(q, n)
<1>1. N \in Nat /\ Len(a) = N + 1 /\ a[N + 1] = n /\ \A i \in 1..N : a[i] = q[i]
  BY LenProperties, AppendProperties
<1> HIDE DEF a
<1>2. PICK tips \in [0..N -> Blocks] :
        /\ tips[0] = x /\ tips[N] = y
        /\ \A i \in 1..N : Moves(tips[i - 1], q[i], tips[i])
        /\ \A i \in 0..N : Height[tips[i]] \in S
        /\ \A j \in 0..N : \A i \in 0..j : Height[tips[i]] < Height[tips[j]] + KeepBlocks
  BY DEF Leads
<1> HIDE DEF N
<1> DEFINE next == [i \in 0..(N + 1) |-> IF i = N + 1 THEN z ELSE tips[i]]
<1>3. /\ next \in [0..Len(a) -> Blocks] /\ next[0] = x /\ next[Len(a)] = z
      /\ next[N + 1] = z /\ \A i \in 0..N : next[i] = tips[i]
  BY <1>1, <1>2
<1>4. ASSUME NEW i \in 1..Len(a) PROVE Moves(next[i - 1], a[i], next[i])
  <2>1. CASE i \in 1..N
    <3>1. next[i - 1] = tips[i - 1] /\ next[i] = tips[i] /\ a[i] = q[i]
      BY <1>1, <2>1
    <3> QED
      BY <1>2, <2>1, <3>1
  <2>2. CASE i = N + 1
    <3>1. next[i - 1] = y /\ next[i] = z /\ a[i] = n
      BY <1>1, <1>2, <2>2
    <3> QED
      BY <3>1
  <2> QED
    BY <1>1, <2>1, <2>2
<1> HIDE DEF next
<1>5. \A i \in 0..(N + 1) : i \in 0..N \/ i = N + 1
  BY <1>1
<1>6. \A i \in 0..Len(a) : Height[next[i]] \in T
  BY <1>1, <1>2, <1>3, <1>5
<1>7. ASSUME NEW j \in 0..Len(a), NEW i \in 0..j
      PROVE  Height[next[i]] < Height[next[j]] + KeepBlocks
  <2>1. i \in 0..(N + 1) /\ j \in 0..(N + 1)
    BY <1>1
  <2>2. CASE j \in 0..N
    <3>1. i \in 0..N
      BY <1>1, <2>2
    <3> QED
      BY <1>2, <1>3, <2>2, <3>1
  <2>3. CASE j = N + 1 /\ i \in 0..N
    BY <1>2, <1>3, <2>3
  <2>4. CASE j = N + 1 /\ i = N + 1
    BY <1>3, <2>4, HeightsAreNat
  <2> QED
    BY <1>5, <2>1, <2>2, <2>3, <2>4
<1> QED
  BY <1>3, <1>4, <1>6, <1>7 DEF Leads, a

LEMMA LeadsFirst ==
  ASSUME NEW x, NEW U, NEW q \in Seq(U), q # <<>>, NEW y, NEW S, Leads(x, q, y, S)
  PROVE  \E z \in Blocks :
           /\ Moves(x, Head(q), z) /\ Height[z] \in S
           /\ Leads(z, Tail(q), y, Within(S, z))
<1> DEFINE N == Len(q)
           t == Tail(q)
<1>1. /\ N \in Nat \ {0} /\ Len(t) = N - 1 /\ Head(q) = q[1]
      /\ \A i \in 1..(N - 1) : t[i] = q[i + 1]
  <2>1. N \in Nat \ {0}
    BY LenProperties, EmptySeq
  <2>2. Len(t) = N - 1 /\ \A i \in 1..Len(t) : t[i] = q[i + 1]
    BY HeadTailProperties
  <2> QED
    BY <2>1, <2>2
<1> HIDE DEF t
<1>2. PICK tips \in [0..N -> Blocks] :
        /\ tips[0] = x /\ tips[N] = y
        /\ \A i \in 1..N : Moves(tips[i - 1], q[i], tips[i])
        /\ \A i \in 0..N : Height[tips[i]] \in S
        /\ \A j \in 0..N : \A i \in 0..j : Height[tips[i]] < Height[tips[j]] + KeepBlocks
  BY DEF Leads
<1> HIDE DEF N
<1> DEFINE rest == [i \in 0..(N - 1) |-> tips[i + 1]]
           T == Within(S, tips[1])
<1>3. tips[1] \in Blocks /\ Moves(x, Head(q), tips[1]) /\ Height[tips[1]] \in S
  <2>1. 1 \in 1..N /\ 1 - 1 = 0 /\ 1 \in 0..N
    BY <1>1
  <2>2. Moves(tips[1 - 1], q[1], tips[1])
    BY <1>2, <2>1
  <2> QED
    BY <1>1, <1>2, <2>1, <2>2
<1>4. /\ rest \in [0..Len(t) -> Blocks] /\ rest[0] = tips[1] /\ rest[Len(t)] = y
      /\ \A i \in 0..Len(t) : rest[i] = tips[i + 1]
  <2>1. \A i \in 0..(N - 1) : i + 1 \in 0..N
    BY <1>1
  <2>2. 0 \in 0..(N - 1) /\ 0 + 1 = 1 /\ N - 1 \in 0..(N - 1) /\ (N - 1) + 1 = N
    BY <1>1
  <2> QED
    BY <1>1, <1>2, <2>1, <2>2
<1>5. ASSUME NEW i \in 1..Len(t) PROVE Moves(rest[i - 1], t[i], rest[i])
  <2>1. i + 1 \in 1..N /\ (i + 1) - 1 = i /\ i \in 1..(N - 1) /\ (i - 1) + 1 = i
        /\ i - 1 \in 0..(N - 1) /\ i \in 0..(N - 1)
    BY <1>1
  <2>2. Moves(tips[(i + 1) - 1], q[i + 1], tips[i + 1])
    BY <1>2, <2>1
  <2>3. rest[i - 1] = tips[i] /\ rest[i] = tips[i + 1] /\ t[i] = q[i + 1]
    BY <1>1, <2>1
  <2> QED
    BY <2>1, <2>2, <2>3
<1> HIDE DEF rest
<1>6. ASSUME NEW i \in 0..Len(t) PROVE Height[rest[i]] \in T
  <2>1. i + 1 \in 0..N /\ 1 \in 0..(i + 1)
    BY <1>1
  <2>2. Height[tips[i + 1]] \in S /\ Height[tips[1]] < Height[tips[i + 1]] + KeepBlocks
    BY <1>2, <2>1
  <2> QED
    BY <1>4, <2>2 DEF Within
<1>7. ASSUME NEW j \in 0..Len(t), NEW i \in 0..j
      PROVE  Height[rest[i]] < Height[rest[j]] + KeepBlocks
  <2>1. j + 1 \in 0..N /\ i + 1 \in 0..(j + 1) /\ i \in 0..Len(t)
    BY <1>1
  <2>2. Height[tips[i + 1]] < Height[tips[j + 1]] + KeepBlocks
    BY <1>2, <2>1
  <2> QED
    BY <1>4, <2>1, <2>2
<1> HIDE DEF T
<1>8. Leads(tips[1], t, y, T)
  BY <1>4, <1>5, <1>6, <1>7 DEF Leads
<1> QED
  BY <1>3, <1>8 DEF t, T

(* Fewer heights may be allowed.                                           *)
LEMMA LeadsWithin ==
  ASSUME NEW x, NEW q, NEW y, NEW S, NEW T, Leads(x, q, y, S), S \subseteq T
  PROVE  Leads(x, q, y, T)
BY DEF Leads

(* A chain that goes through a block below both tips still does so after a *)
(* move.                                                                   *)
LEMMA MovesThrough ==
  ASSUME ValidBlocks, NEW x \in Blocks, NEW n, NEW y \in Blocks, Moves(x, n, y),
         NEW r, Chain(r, Height[x]), r[Height[x]] = x, NEW m \in 0..Height[x], m \in 0..Height[y]
  PROVE  \E s : Chain(s, Height[y]) /\ s[Height[y]] = y /\ s[m] = r[m]
<1>1. Height[x] \in Nat /\ Height[y] \in Nat /\ x # None /\ y # None
  BY HeightsAreNat, WalletAssumption
<1>2. CASE Parent[y] = x
  <2> DEFINE s == [k \in 0..(Height[x] + 1) |-> IF k = Height[x] + 1 THEN y ELSE r[k]]
  <2>1. Height[y] = Height[x] + 1
    BY <1>1, <1>2 DEF ValidBlocks
  <2>2. s[Height[x] + 1] = y /\ \A k \in 0..Height[x] : s[k] = r[k]
    BY <1>1
  <2> HIDE DEF s
  <2>3. Chain(s, Height[x] + 1)
    BY <1>1, <1>2, <2>1, <2>2, ChainGrows
  <2> QED
    BY <2>1, <2>2, <2>3
<1>3. CASE \E k \in 0..Height[x] : r[k] = y
  <2>1. PICK k \in 0..Height[x] : r[k] = y
    BY <1>3
  <2>2. Height[y] = k
    BY <1>1, <2>1 DEF Chain
  <2>3. Chain(r, k)
    BY <1>1, ChainPart
  <2> QED
    BY <2>1, <2>2, <2>3
<1>4. ASSUME y = Parent[x] PROVE \E k \in 0..Height[x] : r[k] = y
  <2>1. Height[x] = Height[y] + 1
    BY <1>1, <1>4 DEF ValidBlocks
  <2>2. Height[x] \in 1..Height[x] /\ Height[x] - 1 \in 0..Height[x]
    BY <1>1, <2>1
  <2>3. Parent[r[Height[x]]] = r[Height[x] - 1]
    BY <2>2 DEF Chain
  <2> QED
    BY <1>4, <2>2, <2>3
<1>5. ASSUME Before(y, x) PROVE \E k \in 0..Height[x] : r[k] = y
  <2>1. Parent[Start] = None /\ Before(y, r[Height[x]])
    BY <1>5 DEF ValidBlocks
  <2> QED
    BY <1>1, <2>1, BeforeInChain
<1>6. ASSUME y = x PROVE \E k \in 0..Height[x] : r[k] = y
  BY <1>1, <1>6
<1> QED
  BY <1>2, <1>3, <1>4, <1>5, <1>6 DEF Moves

(* The chains to all of the tips go through the block at the lowest one.   *)
MeetAt(x, p, y, m) ==
  /\ m \in 0..Height[x] /\ m \in 0..Height[y]
  /\ \E r : Chain(r, Height[y]) /\ r[Height[y]] = y /\ r[m] = p[m]
LEMMA LeadsThrough ==
  ASSUME ValidBlocks, NEW x, NEW q, Len(q) \in Nat, NEW y, NEW S, Leads(x, q, y, S),
         NEW p, Chain(p, Height[x]), p[Height[x]] = x
  PROVE  \E m \in S : MeetAt(x, p, y, m)
<1> DEFINE N == Len(q)
<1>1. PICK tips \in [0..N -> Blocks] :
        /\ tips[0] = x /\ tips[N] = y
        /\ \A i \in 1..N : Moves(tips[i - 1], q[i], tips[i])
        /\ \A i \in 0..N : Height[tips[i]] \in S
  BY DEF Leads
<1>2. N \in Nat /\ 0 \in 0..N /\ N \in 0..N
  OBVIOUS
<1> HIDE DEF N
<1>3. \A i \in 0..N : tips[i] \in Blocks /\ Height[tips[i]] \in Nat
  BY <1>1, HeightsAreNat
<1> DEFINE H == {Height[tips[i]] : i \in 0..N}
<1>4. H \subseteq Nat /\ H # {}
  BY <1>2, <1>3
<1>5. PICK m \in H : \A h \in H : m <= h
  <2> HIDE DEF H
  <2> QED
    BY <1>4, LeastNumber
<1>6. m \in S /\ m \in Nat /\ \A i \in 0..N : m \in 0..Height[tips[i]]
  BY <1>1, <1>3, <1>5
<1> HIDE DEF H
<1>7. \E r : Chain(r, Height[y]) /\ r[Height[y]] = y /\ r[m] = p[m]
  <2> DEFINE Through(i) ==
               \E r : Chain(r, Height[tips[i]]) /\ r[Height[tips[i]]] = tips[i] /\ r[m] = p[m]
             Bad == {i \in 0..N : ~Through(i)}
  <2>1. SUFFICES ASSUME Bad # {} PROVE FALSE
    <3>1. Through(N)
      BY <1>2, <2>1
    <3> QED
      BY <1>1, <3>1
  <2>2. Bad \subseteq Nat
    BY <1>2
  <2>3. PICK i \in Bad : \A k \in Bad : i <= k
    <3> HIDE DEF Bad
    <3> QED
      BY <2>1, <2>2, LeastNumber
  <2>4. i \in 0..N /\ ~Through(i)
    OBVIOUS
  <2>5. i # 0
    BY <1>1, <2>4
  <2>6. i \in 1..N /\ i - 1 \in 0..N /\ ~(i <= i - 1)
    BY <1>2, <2>4, <2>5
  <2>7. Through(i - 1)
    BY <2>3, <2>6
  <2>8. PICK r : /\ Chain(r, Height[tips[i - 1]]) /\ r[Height[tips[i - 1]]] = tips[i - 1]
                 /\ r[m] = p[m]
    BY <2>7
  <2>9. Moves(tips[i - 1], q[i], tips[i]) /\ tips[i - 1] \in Blocks /\ tips[i] \in Blocks
    BY <1>1, <1>3, <2>4, <2>6
  <2>10. m \in 0..Height[tips[i - 1]] /\ m \in 0..Height[tips[i]]
    BY <1>6, <2>4, <2>6
  <2>11. \E s : Chain(s, Height[tips[i]]) /\ s[Height[tips[i]]] = tips[i] /\ s[m] = r[m]
    BY <2>8, <2>9, <2>10, MovesThrough
  <2> QED
    BY <2>4, <2>8, <2>11
<1>8. m \in 0..Height[x] /\ m \in 0..Height[y]
  BY <1>1, <1>2, <1>6
<1> QED
  BY <1>6, <1>7, <1>8 DEF MeetAt

(* The greatest of some numbers is not below any of them.                  *)
LEMMA MaxIsGreatest ==
  ASSUME NEW n \in Nat, NEW S \in SUBSET (0..n), S # {}
  PROVE  Max(S) \in S /\ \A k \in S : k <= Max(S)
<1> DEFINE D == {n - x : x \in S}
<1>1. D \subseteq Nat /\ D # {}
  <2>1. \A x \in S : x \in 0..n /\ n - x \in Nat
    OBVIOUS
  <2> QED
    BY <2>1
<1>2. PICK d \in D : \A e \in D : d <= e
  <2> HIDE DEF D
  <2> QED
    BY <1>1, LeastNumber
<1>3. PICK x \in S : d = n - x
  OBVIOUS
<1>4. \A y \in S : n - y \in D /\ y \in 0..n
  OBVIOUS
<1> HIDE DEF D
<1>5. \A y \in S : n - x <= n - y
  BY <1>2, <1>3, <1>4
<1>6. \A y \in S : x >= y
  BY <1>3, <1>4, <1>5
<1>7. \E g \in S : \A y \in S : g >= y
  BY <1>6
<1> QED
  BY <1>4, <1>7 DEF Max

-----------------------------------------------------------------------------
(* What the invariant says of the wallet's place and of the node's.        *)
LEMMA PlaceFacts ==
  ASSUME WalletInv
  PROVE  /\ MaxHeight \in Nat /\ Here \in 0..MaxHeight /\ Here \in Nat /\ Here \in Heights
         /\ sync \in [height : Heights, marked : BOOLEAN, startHeight : Heights, start : Blocks]
         /\ hashes \in [Heights -> Blocks \cup {None}]
         /\ blocks \in [Heights -> Seq(Txs)] /\ queue \in Seq(Note) /\ work \in Work
         /\ Len(main) \in Nat \ {0} /\ DOMAIN main = 1..Len(main)
         /\ (\A i \in 1..Len(main) : main[i] \in Blocks)
         /\ Tip = main[Len(main)] /\ Tip \in Blocks
         /\ \A b : OnMain(b) <=> \E i \in 1..Len(main) : main[i] = b
<1>1. /\ main \in Seq(Blocks) /\ main # <<>> /\ InChain /\ blocks \in [Heights -> Seq(Txs)]
      /\ queue \in Seq(Note) /\ work \in Work
  BY DEF WalletInv, WalletOK, Queued, Records, RecordTypes
<1>2. /\ Len(main) \in Nat \ {0} /\ DOMAIN main = 1..Len(main)
      /\ \A i \in 1..Len(main) : main[i] \in Blocks
  BY <1>1, LenProperties, ElementOfSeq, EmptySeq
<1>3. Tip = main[Len(main)] /\ Tip \in Blocks
  BY <1>2 DEF Tip, Last
<1>4. \A b : OnMain(b) <=> \E i \in 1..Len(main) : main[i] = b
  BY <1>2 DEF OnMain, Range
<1>5. MaxHeight \in Nat /\ Here \in 0..MaxHeight /\ Here \in Nat /\ Here \in Heights
  BY <1>1, TXAssumption DEF InChain, Heights, Here
<1> QED
  BY <1>1, <1>2, <1>3, <1>4, <1>5 DEF InChain

LEMMA LinkFacts ==
  ASSUME WalletInv, Linked
  PROVE  /\ Chain(Trail, Here) /\ Trail[0] = Start /\ Start \in Blocks
         /\ \A k \in 0..Here : Trail[k] \in Blocks /\ Height[Trail[k]] = k /\ Trail[k] # None
                               /\ k \in Heights /\ k \in Nat
                               /\ (hashes[k] # None => hashes[k] = Trail[k])
         /\ \A k \in 1..Here : Parent[Trail[k]] = Trail[k - 1]
         /\ hashes[Here] = Trail[Here]
<1>1. MaxHeight \in Nat /\ Here \in 0..MaxHeight
  BY PlaceFacts
<1>2. /\ Chain(Trail, Here) /\ Trail[Here] = hashes[Here]
      /\ \A k \in 0..Here : hashes[k] \in {Trail[k], None}
  BY DEF Linked
<1>3. \A k \in 0..Here : k \in Heights /\ k \in Nat
  BY <1>1 DEF Heights
<1> QED
  BY <1>2, <1>3, WalletAssumption DEF Chain

LEMMA MainFacts ==
  ASSUME WalletInv, MainOK
  PROVE  /\ Chain(MainPath, Len(main) - 1) /\ Len(main) - 1 \in Nat
         /\ \A k \in 0..(Len(main) - 1) : MainPath[k] = main[k + 1] /\ Height[main[k + 1]] = k
         /\ \A i \in 1..Len(main) : main[i] \in Blocks /\ Height[main[i]] = i - 1 /\ main[i] # None
         /\ \A i \in 2..Len(main) : Parent[main[i]] = main[i - 1]
         /\ main[1] = Start /\ Height[Tip] = Len(main) - 1
<1>1. /\ Len(main) \in Nat \ {0} /\ Tip = main[Len(main)]
      /\ \A i \in 1..Len(main) : main[i] \in Blocks
  BY PlaceFacts
<1>2. Chain(MainPath, Len(main) - 1)
  BY DEF MainOK
<1>3. \A k \in 0..(Len(main) - 1) : MainPath[k] = main[k + 1] /\ Height[main[k + 1]] = k
  BY <1>1, <1>2 DEF MainPath, Chain
<1>4. \A i \in 1..Len(main) : i - 1 \in 0..(Len(main) - 1) /\ (i - 1) + 1 = i
  BY <1>1
<1>5. \A i \in 1..Len(main) : Height[main[i]] = i - 1
  BY <1>3, <1>4
<1>6. ASSUME NEW i \in 2..Len(main) PROVE Parent[main[i]] = main[i - 1]
  <2>1. /\ i - 1 \in 1..(Len(main) - 1) /\ i - 1 \in 0..(Len(main) - 1)
        /\ (i - 1) - 1 \in 0..(Len(main) - 1) /\ (i - 1) + 1 = i /\ ((i - 1) - 1) + 1 = i - 1
    BY <1>1
  <2>2. Parent[MainPath[i - 1]] = MainPath[(i - 1) - 1]
    BY <1>2, <2>1 DEF Chain
  <2>3. MainPath[i - 1] = main[i] /\ MainPath[(i - 1) - 1] = main[i - 1]
    BY <1>3, <2>1, Zenon
  <2> QED
    BY <2>2, <2>3
<1>7. main[1] = Start
  <2>1. 0 \in 0..(Len(main) - 1) /\ 0 + 1 = 1
    BY <1>1
  <2>2. MainPath[0] = main[1]
    BY <1>3, <2>1
  <2> QED
    BY <1>2, <2>2 DEF Chain
<1>8. Height[Tip] = Len(main) - 1 /\ Len(main) - 1 \in Nat
  BY <1>1, <1>5
<1> QED
  BY <1>1, <1>2, <1>3, <1>5, <1>6, <1>7, <1>8, WalletAssumption

(* A block of the wallet's that is on the main chain has its place there,  *)
(* and so do those below it.                                               *)
LEMMA OnMainMeets ==
  ASSUME WalletInv, Linked, MainOK, NEW k \in 0..Here, OnMain(Trail[k])
  PROVE  /\ k + 1 \in 1..Len(main) /\ Trail[k] = main[k + 1]
         /\ \A j \in 0..k : Trail[j] = main[j + 1] /\ OnMain(Trail[j])
<1>1. PICK i \in 1..Len(main) : main[i] = Trail[k]
  BY PlaceFacts
<1>2. Height[Trail[k]] = k /\ k \in Nat /\ Chain(Trail, Here) /\ Here \in Nat
  BY LinkFacts, PlaceFacts
<1>3. Height[main[i]] = i - 1 /\ Len(main) \in Nat
  BY MainFacts, PlaceFacts
<1>4. i = k + 1 /\ k + 1 \in 1..Len(main) /\ k <= Len(main) - 1 /\ k \in 0..(Len(main) - 1)
  BY <1>1, <1>2, <1>3
<1>5. Trail[k] = MainPath[k]
  BY <1>1, <1>4, MainFacts
<1>6. \A j \in 0..k : Trail[j] = MainPath[j]
  BY <1>2, <1>4, <1>5, ChainsMeet, MainFacts
<1>7. \A j \in 0..k : j \in 0..(Len(main) - 1) /\ j + 1 \in 1..Len(main)
  BY <1>3, <1>4
<1>8. \A j \in 0..k : Trail[j] = main[j + 1]
  BY <1>6, <1>7, MainFacts
<1>9. \A j \in 0..k : OnMain(Trail[j])
  BY <1>7, <1>8, PlaceFacts
<1> QED
  BY <1>1, <1>4, <1>8, <1>9

(* The wallet moves to a block no more than one above it.                  *)
LEMMA SyncTo ==
  ASSUME WalletInv, NEW b \in Blocks, Height[b] <= Here + 1, SyncState(b)
  PROVE  /\ sync' = [sync EXCEPT !.height = Height[b]]
         /\ Here' = Height[b] /\ sync'.marked = sync.marked
         /\ sync'.startHeight = sync.startHeight /\ sync'.start = sync.start
         /\ hashes'[Height[b]] = b
         /\ \A k \in 0..(Height[b] - 1) :
              /\ hashes'[k] \in {hashes[k], None}
              /\ hashes'[k] # hashes[k] => Height[b] > Here /\ k = Height[b] - KeepBlocks
<1> DEFINE h == Height[b]
           gone == IF h < Here
                   THEN {k \in Heights : k > h /\ k > Here - KeepBlocks /\ k <= Here}
                   ELSE IF h > Here THEN {h - KeepBlocks} ELSE {}
<1>1. MaxHeight \in Nat /\ Here \in Nat /\ h \in 0..MaxHeight /\ h \in Heights
      /\ sync \in [height : Heights, marked : BOOLEAN, startHeight : Heights, start : Blocks]
  BY PlaceFacts, WalletAssumption DEF Heights
<1>2. /\ hashes' = [k \in Heights |-> IF k = h THEN b ELSE IF k \in gone THEN None ELSE hashes[k]]
      /\ sync' = [sync EXCEPT !.height = h]
  BY DEF SyncState, OutOfReach, Here
<1>3. ASSUME NEW k \in 0..(h - 1)
      PROVE  k \in Heights /\ k # h /\ (k \in gone => h > Here /\ k = h - KeepBlocks)
  <2>1. k \in Heights /\ k # h
    BY <1>1 DEF Heights
  <2>2. ~(k > h)
    BY <1>1
  <2> QED
    BY <2>1, <2>2
<1> HIDE DEF h, gone
<1>4. /\ hashes'[h] = b
      /\ \A k \in 0..(h - 1) : /\ hashes'[k] \in {hashes[k], None}
                               /\ hashes'[k] # hashes[k] => h > Here /\ k = h - KeepBlocks
  BY <1>1, <1>2, <1>3
<1>5. /\ sync'.height = h /\ sync'.marked = sync.marked
      /\ sync'.startHeight = sync.startHeight /\ sync'.start = sync.start
  BY <1>1, <1>2
<1> QED
  BY <1>2, <1>4, <1>5 DEF Here, h

(* The chain the wallet is on, as soon as some chain leads to its block.   *)
LEMMA TrailIs ==
  ASSUME NEW n \in Nat, NEW p, Chain(p, n)
  PROVE  /\ Chain(TrailTo(p[n], n), n) /\ TrailTo(p[n], n)[n] = p[n]
         /\ \A k \in 0..n : TrailTo(p[n], n)[k] = p[k]
<1> DEFINE q == [k \in 0..n |-> p[k]]
           t == TrailTo(p[n], n)
<1>1. n \in 0..n /\ \A k \in 0..n : q[k] = p[k] /\ p[k] \in Blocks
  BY DEF Chain
<1>2. q \in [0..n -> Blocks] /\ q[n] = p[n]
  BY <1>1
<1>3. Chain(q, n)
  <2> HIDE DEF q
  <2> QED
    BY <1>1, ChainPart
<1> HIDE DEF q
<1>4. t \in [0..n -> Blocks] /\ Chain(t, n) /\ t[n] = p[n]
  BY <1>2, <1>3 DEF TrailTo
<1> HIDE DEF t
<1>5. \A k \in 0..n : t[k] = p[k]
  BY <1>1, <1>4, ChainsMeet
<1> QED
  BY <1>4, <1>5 DEF t

LEMMA LinkStays ==
  ASSUME UNCHANGED <<sync, hashes>>
  PROVE  /\ Trail' = Trail /\ Here' = Here /\ (Linked => Linked')
         /\ \A h : Kept(h)' <=> Kept(h)
         /\ floor' = floor => Safe' = Safe /\ (Kept(floor) => Kept(floor)')
         /\ main' = main /\ Anchored => Anchored'
<1>1. Here' = Here /\ hashes' = hashes
  BY DEF Here
<1>2. Trail' = Trail
  BY <1>1 DEF Trail
<1>3. \A h : Kept(h)' <=> Kept(h)
  BY <1>1 DEF Kept
<1>4. Linked => Linked'
  BY <1>1, <1>2 DEF Linked, Chain
<1>5. floor' = floor => Safe' = Safe /\ (Kept(floor) => Kept(floor)')
  BY <1>1, <1>3 DEF Safe, Kept
<1>6. main' = main /\ Anchored => Anchored'
  BY <1>1, <1>2, <1>3 DEF Anchored, OnMain
<1> QED
  BY <1>1, <1>2, <1>3, <1>4, <1>5, <1>6

(* What the chain of another block is, once the wallet has moved there.    *)
LEMMA LinkMoves ==
  ASSUME WalletInv, Linked, NEW h \in Nat, NEW p, Chain(p, h),
         Here' = h, hashes'[h] = p[h], sync'.startHeight = 0, sync'.start = Start,
         \A k \in 0..(h - 1) : hashes'[k] \in {p[k], None}
  PROVE  Linked' /\ \A k \in 0..h : Trail'[k] = p[k]
<1>1. Trail' = TrailTo(p[h], h)
  BY DEF Trail
<1>2. Chain(Trail', h) /\ Trail'[h] = p[h] /\ \A k \in 0..h : Trail'[k] = p[k]
  BY <1>1, TrailIs
<1>3. \A k \in 0..h : k \in 0..(h - 1) \/ k = h
  OBVIOUS
<1>4. \A k \in 0..h : hashes'[k] \in {Trail'[k], None}
  BY <1>2, <1>3
<1>5. Chain(Trail, Here)' <=> Chain(Trail', h)
  BY DEF Chain
<1> QED
  BY <1>2, <1>4, <1>5 DEF Linked

LEMMA SyncUp ==
  ASSUME WalletInv, Linked, NEW b \in Blocks, Height[b] = Here + 1, Parent[b] = Trail[Here], SyncState(b)
  PROVE  /\ Linked' /\ Here' = Here + 1 /\ sync'.marked = sync.marked /\ Trail'[Here + 1] = b
         /\ \A k \in 0..Here : Trail'[k] = Trail[k]
         /\ \A h \in Nat : Kept(h) /\ Height[b] < h + KeepBlocks => Kept(h)'
<1>0. Here \in Nat /\ KeepBlocks \in Nat
  BY PlaceFacts, HeightsAreNat
<1>1. Here \in Nat /\ Here + 1 <= Here + 1 /\ (Here + 1) - 1 = Here /\ Here + 1 > Here
  BY <1>0
<1>2. /\ Here' = Here + 1 /\ sync'.marked = sync.marked
      /\ sync'.startHeight = sync.startHeight /\ sync'.start = sync.start
      /\ hashes'[Here + 1] = b
      /\ \A k \in 0..Here : /\ hashes'[k] \in {hashes[k], None}
                            /\ hashes'[k] # hashes[k] => k = (Here + 1) - KeepBlocks
  BY <1>1, SyncTo
<1> DEFINE p == [k \in 0..(Here + 1) |-> IF k = Here + 1 THEN b ELSE Trail[k]]
<1>3. /\ p[Here + 1] = b /\ \A k \in 0..Here : p[k] = Trail[k]
  BY <1>1
<1> HIDE DEF p
<1>4. Chain(p, Here + 1)
  <2>1. Chain(Trail, Here)
    BY LinkFacts
  <2> QED
    BY <1>1, <1>3, <2>1, ChainGrows
<1>5. /\ \A k \in 0..Here : hashes'[k] \in {p[k], None}
      /\ sync'.startHeight = 0 /\ sync'.start = Start
  BY <1>2, <1>3 DEF Linked
<1>6. Linked' /\ \A k \in 0..(Here + 1) : Trail'[k] = p[k]
  BY <1>1, <1>2, <1>3, <1>4, <1>5, LinkMoves
<1>7. /\ Trail'[Here + 1] = b /\ \A k \in 0..Here : Trail'[k] = Trail[k]
  <2>1. Here + 1 \in 0..(Here + 1) /\ \A k \in 0..Here : k \in 0..(Here + 1)
    BY <1>1
  <2> QED
    BY <1>3, <1>6, <2>1
<1>8. ASSUME NEW h \in Nat, Kept(h), Height[b] < h + KeepBlocks PROVE Kept(h)'
  <2>1. ASSUME NEW k \in h..(Here + 1) PROVE hashes'[k] # None
    <3>1. CASE k = Here + 1
      BY <1>2, <3>1, WalletAssumption
    <3>2. CASE k # Here + 1
      <4>1. k \in 0..Here /\ k \in h..Here /\ k # (Here + 1) - KeepBlocks
        BY <1>0, <1>8, <3>2
      <4> QED
        BY <1>2, <1>8, <4>1 DEF Kept
    <3> QED
      BY <3>1, <3>2
  <2> QED
    BY <1>2, <2>1 DEF Kept
<1> QED
  BY <1>2, <1>6, <1>7, <1>8

LEMMA SyncDown ==
  ASSUME WalletInv, Linked, NEW h \in 0..Here, SyncState(Trail[h])
  PROVE  /\ Linked' /\ Here' = h /\ sync'.marked = sync.marked
         /\ \A k \in 0..h : Trail'[k] = Trail[k]
         /\ \A k \in Nat : Kept(k) => Kept(k)'
<1>1. /\ Here \in Nat /\ Trail[h] \in Blocks /\ Height[Trail[h]] = h /\ h <= Here + 1 /\ h \in Nat
      /\ ~(h > Here) /\ Trail[h] # None /\ Chain(Trail, Here)
  <2>1. Here \in Nat
    BY PlaceFacts
  <2>2. Trail[h] \in Blocks /\ Height[Trail[h]] = h /\ Trail[h] # None /\ Chain(Trail, Here)
    BY LinkFacts
  <2> QED
    BY <2>1, <2>2
<1>2. /\ Here' = h /\ sync'.marked = sync.marked
      /\ sync'.startHeight = sync.startHeight /\ sync'.start = sync.start
      /\ hashes'[h] = Trail[h] /\ \A k \in 0..(h - 1) : hashes'[k] = hashes[k]
  BY <1>1, SyncTo
<1>3. \A k \in 0..(h - 1) : k \in 0..Here
  BY <1>1
<1>4. Chain(Trail, h)
  BY <1>1, ChainPart
<1>5. /\ \A k \in 0..(h - 1) : hashes'[k] \in {Trail[k], None}
      /\ sync'.startHeight = 0 /\ sync'.start = Start
  BY <1>2, <1>3 DEF Linked
<1>6. Linked' /\ \A k \in 0..h : Trail'[k] = Trail[k]
  BY <1>1, <1>2, <1>4, <1>5, LinkMoves
<1>7. ASSUME NEW k \in Nat, Kept(k) PROVE Kept(k)'
  <2>1. \A i \in k..h : i = h \/ (i \in 0..(h - 1) /\ i \in k..Here)
    BY <1>1
  <2>2. \A i \in k..h : hashes'[i] # None
    BY <1>1, <1>2, <1>7, <2>1 DEF Kept
  <2> QED
    BY <1>2, <2>2 DEF Kept
<1> QED
  BY <1>2, <1>6, <1>7

LEMMA HoldsStay ==
  ASSUME NEW L \in Nat, NEW m, Holds(L, m), blocks' = blocks, \A k \in 0..L : Trail'[k] = Trail[k]
  PROVE  Holds(L, m)'
<1>1. \A k \in 0..(L - 1) : k \in 0..L
  OBVIOUS
<1>2. L \in 0..L
  OBVIOUS
<1>3. \A k \in 0..(L - 1) : ListsFirst(blocks'[k], Trail'[k], Size(Trail'[k]))
  BY <1>1 DEF Holds
<1>4. ListsFirst(blocks'[L], Trail'[L], m)
  BY <1>2 DEF Holds
<1>5. \A k \in (L + 1)..MaxHeight : blocks'[k] = <<>>
  BY DEF Holds
<1> QED
  BY <1>3, <1>4, <1>5 DEF Holds, ListsFirst, RelevantTo

-----------------------------------------------------------------------------
(* What is confirmed.                                                      *)
LEMMA PlacedAt ==
  ASSUME ValidBlocks, NEW p, NEW n \in Nat, Chain(p, n), NEW m \in 0..Size(p[n]), NEW k \in 1..Size(p[n])
  PROVE  BlockTxs[p[n]][k] \in Placed(p, n, m) <=> k <= m
<1>1. p[n] \in Blocks /\ n \in 0..n
  BY DEF Chain
<1>2. Size(p[n]) \in Nat
  BY <1>1, BlockIsSeq
<1>3. CASE m = 0
  <2>1. ASSUME BlockTxs[p[n]][k] \in Placed(p, n, m) PROVE FALSE
    <3>1. \A i : i \notin 1..m
      BY <1>3
    <3>2. PICK l \in 0..(n - 1) : \E i \in 1..Size(p[l]) : BlockTxs[p[l]][i] = BlockTxs[p[n]][k]
      BY <2>1, <3>1 DEF Placed
    <3>3. PICK i \in 1..Size(p[l]) : BlockTxs[p[l]][i] = BlockTxs[p[n]][k]
      BY <3>2
    <3>4. l \in 0..n /\ l # n
      OBVIOUS
    <3>5. l = n
      BY <1>1, <3>3, <3>4, OnePlace
    <3> QED
      BY <3>4, <3>5
  <2>2. ~(k <= m)
    BY <1>2, <1>3
  <2> QED
    BY <2>1, <2>2
<1>4. CASE m # 0
  <2>1. m \in 1..Size(p[n])
    BY <1>2, <1>4
  <2> QED
    BY <2>1, NextPlaced
<1> QED
  BY <1>3, <1>4

(* The wallet's place in the chain, and what it has confirmed there.       *)
At(L, m) == Linked /\ L \in 0..Here /\ m \in 0..Size(Trail[L]) /\ Holds(L, m)

LEMMA ConfirmedIs ==
  ASSUME WalletInv, NEW L, NEW m, At(L, m)
  PROVE  Confirmed = {t \in Placed(Trail, L, m) : RelevantTo(t)}
<1>1. /\ \A k \in 0..(L - 1) : ListsFirst(blocks[k], Trail[k], Size(Trail[k]))
      /\ ListsFirst(blocks[L], Trail[L], m)
      /\ \A k \in (L + 1)..MaxHeight : blocks[k] = <<>>
      /\ L \in 0..Here
  BY DEF At, Holds
<1>2. MaxHeight \in Nat /\ Here \in 0..MaxHeight
  BY PlaceFacts
<1>3. \A h \in Heights, t \in Txs : rec[t] = h <=> t \in Range(blocks[h])
  BY DEF WalletInv, Records, InBlocks
<1>4. \A h \in Heights : h \in 0..(L - 1) \/ h = L \/ h \in (L + 1)..MaxHeight
  BY <1>1, <1>2 DEF Heights
<1>5. (\A h \in 0..(L - 1) : h \in Heights) /\ L \in Heights
  BY <1>1, <1>2 DEF Heights
<1>6. ASSUME NEW t \in Confirmed PROVE t \in Placed(Trail, L, m) /\ RelevantTo(t)
  <2>1. t \in Txs /\ rec[t] \in Heights /\ t \in Range(blocks[rec[t]])
    BY <1>3, <1>6 DEF Confirmed
  <2>2. CASE rec[t] \in 0..(L - 1)
    BY <1>1, <2>1, <2>2 DEF ListsFirst, Placed
  <2>3. CASE rec[t] = L
    BY <1>1, <2>1, <2>3 DEF ListsFirst, Placed
  <2>4. CASE rec[t] \in (L + 1)..MaxHeight
    BY <1>1, <2>1, <2>4 DEF Range
  <2> QED
    BY <1>4, <2>1, <2>2, <2>3, <2>4
<1>7. ASSUME NEW t \in Placed(Trail, L, m), RelevantTo(t) PROVE t \in Confirmed
  <2>1. t \in Txs
    BY DEF Placed
  <2>2. CASE \E k \in 0..(L - 1) : \E i \in 1..Size(Trail[k]) : BlockTxs[Trail[k]][i] = t
    <3>1. PICK k \in 0..(L - 1) : \E i \in 1..Size(Trail[k]) : BlockTxs[Trail[k]][i] = t
      BY <2>2
    <3>2. t \in Range(blocks[k])
      BY <1>1, <1>7, <2>1, <3>1 DEF ListsFirst
    <3> QED
      BY <1>3, <1>5, <2>1, <3>2 DEF Confirmed
  <2>3. CASE \E i \in 1..m : BlockTxs[Trail[L]][i] = t
    <3>1. t \in Range(blocks[L])
      BY <1>1, <1>7, <2>1, <2>3 DEF ListsFirst
    <3> QED
      BY <1>3, <1>5, <2>1, <3>1 DEF Confirmed
  <2> QED
    BY <1>7, <2>2, <2>3 DEF Placed
<1> QED
  BY <1>6, <1>7

(* The wallet's chain up to some block.                                    *)
LEMMA AtChain ==
  ASSUME WalletInv, NEW L, NEW m, At(L, m)
  PROVE  /\ L \in Nat /\ L \in Heights /\ Chain(Trail, L) /\ Trail[L] \in Blocks
         /\ m \in Nat /\ Size(Trail[L]) \in Nat /\ m \in 0..Size(Trail[L]) /\ Height[Trail[L]] = L
<1>1. Linked /\ L \in 0..Here /\ m \in 0..Size(Trail[L])
  BY DEF At
<1>2. L \in Nat /\ L \in Heights /\ Trail[L] \in Blocks /\ Height[Trail[L]] = L
  BY <1>1, LinkFacts
<1>3. Size(Trail[L]) \in Nat
  BY <1>2, BlockIsSeq
<1>4. Chain(Trail, L)
  BY <1>1, LinkFacts, PlaceFacts, ChainPart
<1> QED
  BY <1>1, <1>2, <1>3, <1>4

(* No output is spent twice by what is confirmed, and where it spends what *)
(* another transaction of the wallet's made, that one is confirmed too.    *)
LEMMA Closed ==
  ASSUME ValidBlocks, WalletInv, NEW L, NEW m, At(L, m), NEW t \in Confirmed
  PROVE  /\ \A u \in Confirmed : u # t => In(u) \cap In(t) = {}
         /\ \A o \in In(t) : Creator[o] # None /\ RelevantTo(Creator[o]) => Creator[o] \in Confirmed
<1>1. L \in Nat /\ Chain(Trail, L) /\ m \in 0..Size(Trail[L])
  BY AtChain
<1>2. Confirmed = {u \in Placed(Trail, L, m) : RelevantTo(u)}
  BY ConfirmedIs
<1>3. /\ \A u, v \in Placed(Trail, L, m) : u # v => In(u) \cap In(v) = {}
      /\ \A u \in Placed(Trail, L, m) : \A o \in In(u) :
           Creator[o] # None => Creator[o] \in Placed(Trail, L, m)
  BY <1>1, PlacedFits
<1> QED
  BY <1>2, <1>3

(* The next transaction of the block fits what is confirmed.               *)
LEMMA NextFits ==
  ASSUME ValidBlocks, StartsEarly, WalletInv, NEW L, NEW m, At(L, m),
         NEW n \in 1..Size(Trail[L]), m >= n - 1, NEW t, t = BlockTxs[Trail[L]][n]
  PROVE  /\ t \in Txs
         /\ t \in Confirmed <=> RelevantTo(t) /\ m >= n
         /\ t \notin Confirmed /\ RelevantTo(t) =>
              /\ m = n - 1
              /\ \A u \in Confirmed : In(u) \cap In(t) = {}
              /\ \A o \in In(t) : Creator[o] # None /\ RelevantTo(Creator[o]) => Creator[o] \in Confirmed
              /\ \A u \in Confirmed : \A o \in In(u) : Creator[o] # t
              /\ Relevant(t)
<1>1. /\ L \in Nat /\ Chain(Trail, L) /\ Trail[L] \in Blocks /\ m \in Nat
      /\ m \in 0..Size(Trail[L]) /\ Size(Trail[L]) \in Nat
  BY AtChain
<1>2. t \in Txs
  BY <1>1, BlockIsSeq
<1>3. Confirmed = {u \in Placed(Trail, L, m) : RelevantTo(u)}
  BY ConfirmedIs
<1>4. t \in Placed(Trail, L, m) <=> n <= m
  BY <1>1, PlacedAt
<1>5. t \in Confirmed <=> RelevantTo(t) /\ m >= n
  BY <1>1, <1>3, <1>4
<1>6. ASSUME t \notin Confirmed, RelevantTo(t)
      PROVE  /\ m = n - 1
             /\ \A u \in Confirmed : In(u) \cap In(t) = {}
             /\ \A o \in In(t) : Creator[o] # None /\ RelevantTo(Creator[o]) => Creator[o] \in Confirmed
             /\ \A u \in Confirmed : \A o \in In(u) : Creator[o] # t
             /\ Relevant(t)
  <2>1. m = n - 1
    BY <1>1, <1>5, <1>6
  <2>2. n \in 0..Size(Trail[L])
    BY <1>1
  <2>3. Placed(Trail, L, n) = Placed(Trail, L, m) \cup {t}
    BY <1>1, <2>1, NextPlaced
  <2>4. /\ \A u, v \in Placed(Trail, L, n) : u # v => In(u) \cap In(v) = {}
        /\ \A u \in Placed(Trail, L, n) : \A o \in In(u) :
             Creator[o] # None => Creator[o] \in Placed(Trail, L, n)
    BY <1>1, <2>2, PlacedFits
  <2>5. /\ \A u \in Placed(Trail, L, m) : \A o \in In(u) :
             Creator[o] # None => Creator[o] \in Placed(Trail, L, m)
    BY <1>1, PlacedFits
  <2>6. \A o \in In(t) : Creator[o] # t /\ o \in Outs
    BY <1>2, NotOwn
  <2>7. t \notin Placed(Trail, L, m) /\ t # None
    BY <1>1, <1>2, <1>4, <2>1, Sentinels
  <2>8. \A u \in Confirmed : In(u) \cap In(t) = {}
    <3>1. t \in Placed(Trail, L, n) /\ \A u \in Confirmed : u \in Placed(Trail, L, n) /\ u # t
      BY <1>3, <1>6, <2>3
    <3> QED
      BY <2>4, <3>1
  <2>9. \A o \in In(t) : Creator[o] # None /\ RelevantTo(Creator[o]) => Creator[o] \in Confirmed
    <3>1. t \in Placed(Trail, L, n)
      BY <2>3
    <3>2. \A o \in In(t) : Creator[o] # None => Creator[o] \in Placed(Trail, L, m)
      BY <2>3, <2>4, <2>6, <3>1
    <3> QED
      BY <1>3, <3>2
  <2>10. \A u \in Confirmed : \A o \in In(u) : Creator[o] # t
    <3>1. ASSUME NEW u \in Confirmed, NEW o \in In(u), Creator[o] = t PROVE FALSE
      <4>1. u \in Placed(Trail, L, m) /\ Creator[o] # None
        BY <1>3, <2>7, <3>1
      <4> QED
        BY <2>5, <2>7, <3>1, <4>1
    <3> QED
      BY <3>1
  <2>11. Relevant(t)
    <3>1. CASE MyOuts(t) # {}
      BY <3>1 DEF Relevant
    <3>2. CASE In(t) \cap Mine # {}
      <4>1. PICK o \in In(t) : o \in Mine
        BY <3>2
      <4>2. o \in Outs /\ Creator[o] # None /\ Creator[o] \in Txs /\ None \notin Heights
        <5>1. o \in Outs /\ Creator \in [Outs -> Txs \cup {None}]
          BY <2>6, TXAssumption
        <5>2. Creator[o] # None
          BY <4>1 DEF StartsEarly
        <5> QED
          BY <5>1, <5>2, Sentinels
      <4>3. RelevantTo(Creator[o])
        <5>1. o \in MyOuts(Creator[o])
          BY <4>1, <4>2 DEF MyOuts, OutsOf
        <5> QED
          BY <5>1 DEF RelevantTo
      <4>4. Creator[o] \in Confirmed
        BY <2>9, <4>2, <4>3
      <4>5. KnownOut(o)
        BY <4>2, <4>4 DEF Confirmed, KnownOut
      <4>6. spender[o] # None => rec[spender[o]] = Unconfirmed
        <5>1. SUFFICES ASSUME spender[o] # None, rec[spender[o]] # Unconfirmed PROVE FALSE
          OBVIOUS
        <5>2. spender[o] \in Txs /\ o \in In(spender[o]) /\ rec[spender[o]] # None
              /\ rec[spender[o]] \in Heights \cup {Unconfirmed, None}
          BY <4>2, <5>1 DEF WalletInv, Records, RecordTypes, Spends
        <5>3. spender[o] \in Confirmed
          BY <5>1, <5>2 DEF Confirmed
        <5> QED
          BY <2>8, <5>2, <5>3
      <4>7. credit[o] # None
        BY <4>1, <4>5, <4>6 DEF WalletInv, Records, CoinAgrees
      <4> QED
        BY <4>1, <4>2, <4>7 DEF Relevant, Spendable, Credits
    <3> QED
      BY <1>6, <3>1, <3>2 DEF RelevantTo
  <2> QED
    BY <2>1, <2>8, <2>9, <2>10, <2>11
<1> QED
  BY <1>2, <1>5, <1>6

-----------------------------------------------------------------------------
(* How what is confirmed grows and shrinks.                                *)
LEMMA Passed ==
  ASSUME WalletInv, NEW L, NEW n, n - 1 \in Nat, At(L, n - 1), n \in 1..Size(Trail[L]),
         ~RelevantTo(BlockTxs[Trail[L]][n])
  PROVE  At(L, n)
<1>1. L \in Heights /\ L \in Nat /\ Trail[L] \in Blocks /\ Size(Trail[L]) \in Nat
  BY AtChain
<1>2. blocks[L] \in Seq(Txs)
  BY <1>1, PlaceFacts
<1>3. ListsFirst(blocks[L], Trail[L], n)
  BY <1>1, <1>2, ListsMore DEF At, Holds
<1> QED
  BY <1>1, <1>3 DEF At, Holds

LEMMA Added ==
  ASSUME WalletInv, NEW L, NEW n, n - 1 \in Nat, At(L, n - 1), n \in 1..Size(Trail[L]),
         RelevantTo(BlockTxs[Trail[L]][n]),
         blocks' = [blocks EXCEPT ![L] = Append(@, BlockTxs[Trail[L]][n])], Trail' = Trail
  PROVE  Holds(L, n)'
<1>1. L \in Heights /\ L \in Nat /\ Trail[L] \in Blocks /\ Size(Trail[L]) \in Nat
  BY AtChain
<1>2. blocks[L] \in Seq(Txs) /\ blocks \in [Heights -> Seq(Txs)] /\ MaxHeight \in Nat
  BY <1>1, PlaceFacts
<1>3. ListsFirst(Append(blocks[L], BlockTxs[Trail[L]][n]), Trail[L], n)
  BY <1>1, <1>2, ListsMore DEF At, Holds
<1>4. /\ blocks'[L] = Append(blocks[L], BlockTxs[Trail[L]][n])
      /\ \A k \in Heights : k # L => blocks'[k] = blocks[k]
  BY <1>1, <1>2
<1>5. /\ \A k \in 0..(L - 1) : k \in Heights /\ k # L
      /\ \A k \in (L + 1)..MaxHeight : k \in Heights /\ k # L
  BY <1>1, <1>2 DEF Heights
<1>6. \A k \in 0..(L - 1) : ListsFirst(blocks'[k], Trail'[k], Size(Trail'[k]))
  BY <1>4, <1>5 DEF At, Holds
<1>7. \A k \in (L + 1)..MaxHeight : blocks'[k] = <<>>
  BY <1>4, <1>5 DEF At, Holds
<1>8. ListsFirst(blocks'[L], Trail'[L], n)
  BY <1>3, <1>4
<1> QED
  BY <1>6, <1>7, <1>8 DEF Holds, ListsFirst, RelevantTo

(* The transaction to take back is the last one of the topmost record that *)
(* is not empty.                                                           *)
LEMMA UndoNext ==
  ASSUME WalletInv, NEW L, NEW m, At(L, m), NEW h \in 0..L, job.op = "unconfirm", UndoIs(Above[h])
  PROVE  \E k \in h..L :
           /\ blocks[k] # <<>> /\ (\A j \in (k + 1)..MaxHeight : blocks[j] = <<>>)
           /\ job.tx = Last(blocks[k]) /\ rec[job.tx] = k /\ job.tx \in Txs
           /\ work.todo = Stacked([blocks EXCEPT ![k] = Front(blocks[k])])[h]
<1>1. /\ L \in Nat /\ L \in Heights /\ MaxHeight \in Nat /\ blocks \in [Heights -> Seq(Txs)]
      /\ Above = Stacked(blocks)
  BY AtChain, PlaceFacts DEF Above, Stacked
<1>2. h \in 0..MaxHeight /\ h \in 0..(MaxHeight + 1)
  BY <1>1 DEF Heights
<1>3. Stacked(blocks)[h] # <<>> /\ Head(Stacked(blocks)[h]) = job.tx /\ Tail(Stacked(blocks)[h]) = work.todo
  BY <1>1 DEF UndoIs
<1>4. \E k \in h..MaxHeight : blocks[k] # <<>>
  BY <1>1, <1>2, <1>3, StackEmpty
<1>5. PICK k \in h..MaxHeight : blocks[k] # <<>> /\ \A j \in (k + 1)..MaxHeight : blocks[j] = <<>>
  BY <1>1, <1>2, <1>4, StackFound
<1>6. k \in Heights /\ h \in 0..k /\ k \in Nat
  BY <1>1, <1>2 DEF Heights
<1>7. k \in h..L
  <2>1. \A j \in (L + 1)..MaxHeight : blocks[j] = <<>>
    BY DEF At, Holds
  <2>2. ~(k > L)
    BY <1>1, <1>5, <1>6, <2>1
  <2> QED
    BY <1>1, <1>6, <2>2
<1>8. /\ Head(Stacked(blocks)[h]) = Last(blocks[k])
      /\ Tail(Stacked(blocks)[h]) = Stacked([blocks EXCEPT ![k] = Front(blocks[k])])[h]
  BY <1>1, <1>5, <1>6, StackTop
<1>9. Last(blocks[k]) \in Range(blocks[k]) /\ Last(blocks[k]) \in Txs
  <2>1. blocks[k] \in Seq(Txs)
    BY <1>1, <1>6
  <2>2. Last(blocks[k]) \in Range(blocks[k])
    BY <1>5, <2>1, FrontOnce
  <2> QED
    BY <2>1, <2>2, LenProperties, ElementOfSeq DEF Range
<1>10. rec[Last(blocks[k])] = k
  BY <1>6, <1>9 DEF WalletInv, Records, InBlocks
<1> QED
  BY <1>3, <1>5, <1>7, <1>8, <1>9, <1>10

LEMMA Undone ==
  ASSUME ValidBlocks, WalletInv, NEW L, NEW m, At(L, m), NEW k \in 0..L,
         blocks[k] # <<>>, \A j \in (k + 1)..MaxHeight : blocks[j] = <<>>,
         blocks' = [blocks EXCEPT ![k] = Front(@)], Trail' = Trail
  PROVE  \E n \in 0..Size(Trail[k]) : Holds(k, n)'
<1>1. /\ L \in Nat /\ L \in Heights /\ MaxHeight \in Nat /\ blocks \in [Heights -> Seq(Txs)]
      /\ m \in 0..Size(Trail[L]) /\ Linked /\ L \in 0..Here /\ Here \in Nat
  BY AtChain, PlaceFacts DEF At
<1>2. k \in Heights /\ k \in 0..Here /\ k \in Nat
  BY <1>1 DEF Heights
<1>3. Trail[k] \in Blocks /\ blocks[k] \in Seq(Txs)
  BY <1>1, <1>2, LinkFacts
<1>4. Size(Trail[k]) \in Nat
  BY <1>3, BlockIsSeq
<1>5. \E n \in 0..Size(Trail[k]) : ListsFirst(blocks[k], Trail[k], n)
  <2>1. CASE k = L
    BY <1>1, <2>1 DEF At, Holds
  <2>2. CASE k # L
    <3>1. k \in 0..(L - 1)
      BY <1>1, <2>2
    <3>2. ListsFirst(blocks[k], Trail[k], Size(Trail[k]))
      BY <3>1 DEF At, Holds
    <3> QED
      BY <1>4, <3>2
  <2> QED
    BY <2>1, <2>2
<1>6. PICK n \in 0..Size(Trail[k]) : ListsFirst(blocks[k], Trail[k], n)
  BY <1>5
<1>7. IsInjective(BlockTxs[Trail[k]]) /\ IsInjective(blocks[k])
  BY <1>2, <1>3 DEF ValidBlocks, WalletInv, Records, InBlocks
<1>8. PICK r \in 0..Size(Trail[k]) : ListsFirst(Front(blocks[k]), Trail[k], r)
  BY <1>3, <1>6, <1>7, ListsLess
<1>9. blocks'[k] = Front(blocks[k]) /\ \A j \in Heights : j # k => blocks'[j] = blocks[j]
  BY <1>1, <1>2
<1>10. /\ \A j \in 0..(k - 1) : j \in Heights /\ j # k /\ j \in 0..(L - 1)
       /\ \A j \in (k + 1)..MaxHeight : j \in Heights /\ j # k
  BY <1>1, <1>2 DEF Heights
<1>11. \A j \in 0..(k - 1) : ListsFirst(blocks'[j], Trail'[j], Size(Trail'[j]))
  BY <1>9, <1>10 DEF At, Holds
<1>12. \A j \in (k + 1)..MaxHeight : blocks'[j] = <<>>
  BY <1>9, <1>10
<1>a. ListsFirst(blocks'[k], Trail'[k], r)
  BY <1>8, <1>9
<1>13. Holds(k, r)'
  BY <1>a, <1>11, <1>12 DEF Holds, ListsFirst, RelevantTo
<1> QED
  BY <1>13

LEMMA NoneLeft ==
  ASSUME WalletInv, NEW h \in 0..MaxHeight, Above[h] = <<>>
  PROVE  \A k \in h..MaxHeight : blocks[k] = <<>>
<1>1. MaxHeight \in Nat /\ blocks \in [Heights -> Seq(Txs)] /\ Above = Stacked(blocks)
  BY PlaceFacts DEF Above, Stacked
<1>2. SUFFICES ASSUME \E k \in h..MaxHeight : blocks[k] # <<>> PROVE FALSE
  OBVIOUS
<1>3. PICK k \in h..MaxHeight : blocks[k] # <<>> /\ \A j \in (k + 1)..MaxHeight : blocks[j] = <<>>
  BY <1>1, <1>2, StackFound
<1>4. k \in Heights /\ h \in 0..k
  BY <1>1 DEF Heights
<1>5. Stacked(blocks)[h] # <<>>
  BY <1>1, <1>3, <1>4, StackTop
<1> QED
  BY <1>1, <1>5

-----------------------------------------------------------------------------
(* A batch of the transaction database leaves the wallet where it is.      *)
LEMMA FrameKeeps ==
  ASSUME WalletInv, Follows, UNCHANGED walletVars, floor' = floor, sync.marked \/ blocks' = blocks,
         alarm' = {}, JobMatches',
         NEW L \in 0..Here, NEW m \in 0..Size(Trail[L]), Holds(L, m)', AtWork(L, m)'
  PROVE  Follows'
<1>1. /\ sync' = sync /\ hashes' = hashes /\ main' = main /\ queue' = queue /\ phase' = phase
      /\ work' = work
  BY DEF walletVars
<1>a. /\ Trail' = Trail /\ Here' = Here /\ (Linked => Linked') /\ Safe' = Safe
      /\ (\A h : Kept(h)' <=> Kept(h)) /\ (Anchored => Anchored')
  BY <1>1, LinkStays
<1>b. Tip' = Tip /\ Target' = Target /\ \A b : OnMain(b)' <=> OnMain(b)
  BY <1>1, <1>a DEF Tip, Target, OnMain
<1>2. Linked' /\ MainOK' /\ FloorOK'
  <2>1. Linked /\ MainOK /\ FloorOK
    BY DEF Follows
  <2>2. MainPath' = MainPath
    BY <1>1 DEF MainPath
  <2>3. FloorOK'
    BY <1>a, <1>b, <2>1 DEF FloorOK
  <2>4. MainOK'
    BY <1>1, <2>1, <2>2 DEF MainOK, Chain
  <2> QED
    BY <1>a, <2>1, <2>3, <2>4
<1>3. QueueOK'
  <2>1. QueueOK
    BY DEF Follows
  <2> QED
    BY <1>1, <1>a, <1>b, <2>1 DEF QueueOK, Leads, Moves, Before
<1>4. MarkOK'
  BY <1>1, <1>a DEF Follows, MarkOK
<1>5. \E l \in 0..Here' : \E n \in 0..Size(Trail'[l]) : Holds(l, n)' /\ AtWork(l, n)'
  BY <1>a
<1> QED
  BY <1>1, <1>2, <1>3, <1>4, <1>5 DEF Follows, Size

(* An operation that ends, or that goes on for the same transaction.       *)
LEMMA IdleMatches ==
  ASSUME JobMatches, job' = Idle, UNCHANGED walletVars
  PROVE  JobMatches'
BY DEF JobMatches, Idle, Underway, walletVars

LEMMA WorkStays ==
  ASSUME UNCHANGED walletVars, blocks' = blocks, NEW L, NEW m, AtWork(L, m),
         job.op # "unconfirm", job'.op # "unconfirm", job'.op = "add" <=> job.op = "add",
         job.op = "add" => job'.tx = job.tx /\ job'.height = job.height
  PROVE  AtWork(L, m)'
<1>1. /\ sync' = sync /\ Trail' = Trail /\ main' = main /\ phase' = phase /\ work' = work
      /\ Here' = Here /\ Above' = Above /\ Tip' = Tip
  BY LinkStays DEF walletVars, Above, Tip
<1>2. \A b : OnMain(b)' <=> OnMain(b)
  BY <1>1 DEF OnMain
<1>3. \A s : UndoIs(s)' <=> UndoIs(s)
  BY <1>1 DEF UndoIs
<1>4. ASSUME NEW b, Adding(L, m, b) PROVE Adding(L, m, b)'
  <2>1. PICK n \in 0..Size(b) : Handed(m, b, n)
    BY <1>4 DEF Adding
  <2>2. Handed(m, b, n)'
    BY <1>1, <2>1 DEF Handed
  <2> QED
    BY <1>1, <1>4, <2>2 DEF Adding
<1>5. CASE Resting(L, m)
  <2>1. Resting(L, m)'
    BY <1>1, <1>2, <1>5 DEF Resting, Full
  <2> QED
    BY <2>1 DEF AtWork
<1>6. CASE Rescanning(L)
  <2>1. Rescanning(L)'
    BY <1>1, <1>2, <1>6 DEF Rescanning
  <2> QED
    BY <2>1 DEF AtWork
<1>7. CASE Connecting(L, m)
  <2>1. Connecting(L, m)'
    BY <1>1, <1>4, <1>7 DEF Connecting, Full
  <2> QED
    BY <2>1 DEF AtWork
<1>8. CASE Scanning(L, m)
  <2>1. Scanning(L, m)'
    BY <1>1, <1>4, <1>8 DEF Scanning
  <2> QED
    BY <2>1 DEF AtWork
<1>9. CASE RemovingBlock(L)
  <2>1. RemovingBlock(L)'
    BY <1>1, <1>3, <1>9 DEF RemovingBlock
  <2> QED
    BY <2>1 DEF AtWork
<1>10. CASE Reverting(L)
  <2>1. Reverting(L)'
    BY <1>1, <1>2, <1>3, <1>10 DEF Reverting
  <2> QED
    BY <2>1 DEF AtWork
<1> QED
  BY <1>5, <1>6, <1>7, <1>8, <1>9, <1>10 DEF AtWork

(* Where an addition belongs.                                              *)
LEMMA AddPlace ==
  ASSUME WalletInv, JobMatches, NEW L, NEW m, At(L, m), AtWork(L, m), job.op = "add"
  PROVE  \/ job.height = Unconfirmed /\ work.op = "connect" /\ work.block = None
         \/ /\ L = Here /\ job.height = L /\ sync.marked
            /\ work.op \in {"connect", "scan"} /\ work.block # None
            /\ \E n \in 1..Size(Trail[L]) : job.tx = BlockTxs[Trail[L]][n] /\ m >= n - 1
<1>1. Connecting(L, m) \/ Scanning(L, m)
  BY DEF JobMatches, AtWork, Resting, Rescanning, RemovingBlock, Reverting, NoWork
<1>2. CASE work.block = None
  BY <1>1, <1>2 DEF Connecting, Scanning
<1>3. CASE work.block # None
  <2>1. Adding(L, m, work.block) /\ work.op \in {"connect", "scan"}
    BY <1>1, <1>3 DEF Connecting, Scanning
  <2>2. PICK n \in 0..Size(Trail[L]) : Handed(m, Trail[L], n)
    BY <2>1 DEF Adding
  <2>3. Size(Trail[L]) \in Nat
    BY AtChain
  <2>4. n >= 1 /\ job.tx = BlockTxs[Trail[L]][n] /\ job.height = Here /\ sync.marked /\ m >= n - 1
    BY <2>2 DEF Handed
  <2>5. n \in 1..Size(Trail[L])
    BY <2>3, <2>4
  <2> QED
    BY <1>3, <2>1, <2>4, <2>5 DEF Adding
<1> QED
  BY <1>2, <1>3

LEMMA AddEnds ==
  ASSUME WalletInv, JobMatches, NEW L, NEW m, At(L, m), AtWork(L, m), job.op = "add",
         UNCHANGED walletVars, job' = Idle
  PROVE  \/ job.height = Unconfirmed /\ AtWork(L, m)'
         \/ /\ L = Here /\ job.height = L /\ sync.marked
            /\ \E n \in 1..Size(Trail[L]) :
                 /\ job.tx = BlockTxs[Trail[L]][n] /\ m >= n - 1
                 /\ \A k \in n..Size(Trail[L]) : AtWork(L, k)'
<1>1. Connecting(L, m) \/ Scanning(L, m)
  BY DEF JobMatches, AtWork, Resting, Rescanning, RemovingBlock, Reverting, NoWork
<1>2. /\ sync' = sync /\ Trail' = Trail /\ main' = main /\ phase' = phase /\ work' = work
      /\ Here' = Here /\ job'.op = "none"
  BY LinkStays DEF walletVars, Idle
<1>3. CASE work.block = None
  <2>1. job.height = Unconfirmed /\ Connecting(L, m)
    BY <1>1, <1>3 DEF Connecting, Scanning
  <2>2. Connecting(L, m)'
    BY <1>2, <1>3, <2>1 DEF Connecting, Full
  <2> QED
    BY <2>1, <2>2 DEF AtWork
<1>4. CASE work.block # None
  <2>1. Adding(L, m, work.block)
    BY <1>1, <1>4 DEF Connecting, Scanning
  <2>2. PICK n \in 0..Size(Trail[L]) : Handed(m, Trail[L], n)
    BY <2>1 DEF Adding
  <2>3. Size(Trail[L]) \in Nat /\ work.block = Trail[L] /\ L = Here
    BY <2>1, AtChain DEF Adding
  <2>4. /\ n >= 1 /\ job.tx = BlockTxs[Trail[L]][n] /\ job.height = Here /\ sync.marked /\ m >= n - 1
        /\ work.todo = SubSeq(BlockTxs[Trail[L]], n + 1, Size(Trail[L]))
    BY <2>2 DEF Handed
  <2>5. n \in 1..Size(Trail[L])
    BY <2>3, <2>4
  <2>6. ASSUME NEW k \in n..Size(Trail[L]) PROVE AtWork(L, k)'
    <3>1. Handed(k, Trail[L], n)'
      BY <1>2, <2>4, <2>6 DEF Handed
    <3>2. Adding(L, k, work.block)'
      BY <1>2, <2>2, <2>3, <3>1 DEF Adding
    <3>3. Connecting(L, k)' \/ Scanning(L, k)'
      BY <1>1, <1>2, <1>4, <3>2 DEF Connecting, Scanning
    <3> QED
      BY <3>3 DEF AtWork
  <2> QED
    BY <2>3, <2>4, <2>5, <2>6
<1> QED
  BY <1>3, <1>4

-----------------------------------------------------------------------------
(* The steps of the transaction database.                                  *)
LEMMA PathGrows ==
  ASSUME job \in Job, job.op \in {"add", "unconfirm", "remove"}, NEW w \in Wtx,
         job' = [job EXCEPT !.path = Append(@, w)]
  PROVE  /\ job'.op = job.op /\ job'.tx = job.tx /\ job'.height = job.height
         /\ Pend(job)' = Pend(job) \cup {w}
<1> DEFINE p == Append(job.path, w)
<1>1. job.path \in Seq(Wtx) /\ job.roots \in SUBSET (Nat \X Wtx)
  BY JobFields
<1>2. p \in Seq(Wtx) /\ Range(p) = Range(job.path) \cup {w}
  BY <1>1, AppendOnce
<1>3. job' = [job EXCEPT !.path = p]
  OBVIOUS
<1> HIDE DEF p
<1>4. /\ job'.op = job.op /\ job'.tx = job.tx /\ job'.height = job.height
      /\ job'.path = p /\ job'.roots = job.roots
  BY <1>1, <1>2, <1>3 DEF Job
<1> QED
  BY <1>2, <1>4 DEF Pend

LEMMA RemovalFollows ==
  ASSUME ValidBlocks, WalletInv, HeightInv, Follows, UNCHANGED walletVars, floor' = floor, Descend \/ Erase
  PROVE  Follows'
<1> USE Sentinels
<1>0. JobOK /\ Records /\ JobMatches /\ alarm = {}
  BY DEF WalletInv, Follows
<1>1. job.op \in {"add", "remove"} /\ job.path # <<>> /\ alarm' = alarm
  BY DEF Descend, Erase
<1>2. PICK L \in 0..Here : \E m \in 0..Size(Trail[L]) : Holds(L, m) /\ AtWork(L, m)
  BY DEF Follows
<1>3. PICK m \in 0..Size(Trail[L]) : Holds(L, m) /\ AtWork(L, m)
  BY <1>2
<1>4. At(L, m)
  BY <1>3 DEF At, Follows
<1>5. /\ job \in Job /\ job.op \in {"add", "unconfirm", "remove"} /\ Underway
      /\ Top \in Wtx /\ Top.tx \in Txs /\ rec[Top.tx] \in {Top.height, None}
      /\ Shorter \in Job /\ Shorter.op = job.op /\ Shorter.tx = job.tx /\ Shorter.height = job.height
      /\ Pend(job) = Pend(Shorter) \cup {Top}
  BY <1>0, <1>1, EraseFinds
<1>6. Top.height = Unconfirmed /\ RelevantTo(Top.tx)
  BY <1>0, <1>5 DEF JobMatches
<1>7. phase # "down"
  BY <1>0, <1>1 DEF JobMatches, Idle
<1>8. /\ blocks' = blocks
      /\ job'.op = "add" <=> job.op = "add"
      /\ job'.op \notin {"unconfirm", "threw"}
      /\ job.op = "add" => job'.tx = job.tx /\ job'.height = job.height
      /\ Underway' => \A w \in Pend(job)' : w.height = Unconfirmed /\ RelevantTo(w.tx)
  <2>1. CASE Descend
    <3>1. PICK o \in OutsOf(Top.tx) :
            /\ spender[o] # None
            /\ job' = [job EXCEPT !.path =
                         Append(@, [tx |-> spender[o], height |-> rec[spender[o]]])]
      BY <2>1 DEF Descend, Top
    <3> DEFINE u == spender[o]
               w == [tx |-> u, height |-> rec[u]]
    <3>2. u \in Txs /\ rec[u] # None /\ o \in In(u) /\ Creator[o] = Top.tx
      <4>1. o \in Outs /\ Creator[o] = Top.tx
        BY DEF OutsOf
      <4> QED
        BY <1>0, <3>1, <4>1 DEF Records, RecordTypes, Spends
    <3>3. rec[u] = Unconfirmed
      <4>1. rec[u] \in Heights \cup {Unconfirmed}
        BY <1>0, <3>2 DEF Records, RecordTypes
      <4>2. SUFFICES ASSUME u \in Confirmed PROVE FALSE
        BY <3>2, <4>1 DEF Confirmed
      <4>3. Top.tx \in Confirmed
        <5>1. Creator[o] # None /\ RelevantTo(Creator[o])
          BY <1>5, <1>6, <3>2
        <5> QED
          BY <1>4, <3>2, <4>2, <5>1, Closed
      <4> QED
        BY <1>5, <1>6, <4>3 DEF Confirmed
    <3>4. RelevantTo(u)
      BY <3>2 DEF HeightInv, OwnKnown
    <3>5. w \in Wtx /\ w.height = Unconfirmed /\ w.tx = u
      BY <3>2, <3>3 DEF Wtx
    <3>6. job' = [job EXCEPT !.path = Append(@, w)]
      BY <3>1
    <3> HIDE DEF w, u
    <3>7. /\ job'.op = job.op /\ job'.tx = job.tx /\ job'.height = job.height
          /\ Pend(job)' = Pend(job) \cup {w}
      BY <1>5, <3>5, <3>6, PathGrows
    <3>8. blocks' = blocks
      BY <2>1 DEF Descend, records
    <3>9. \A x \in Pend(job)' : x.height = Unconfirmed /\ RelevantTo(x.tx)
      BY <1>0, <1>5, <3>4, <3>5, <3>7 DEF JobMatches
    <3> QED
      BY <1>1, <3>7, <3>8, <3>9
  <2>2. CASE Erase
    <3> DEFINE k == Removing(Shorter)
    <3>1. job' = (IF k.op = "remove" /\ k.path = <<>> THEN Idle ELSE k) /\ RemoveBlockSlow(Top.tx, Top.height)
      BY <2>2 DEF Erase, Shorter, Top
    <3>2. k.op = job.op /\ k.tx = job.tx /\ k.height = job.height /\ Pend(k) = Pend(Shorter)
      BY <1>1, <1>5, RemovingKeeps
    <3>3. blocks' = blocks
      BY <1>6, <3>1 DEF RemoveBlockSlow
    <3> HIDE DEF k
    <3>4. CASE job' = k
      <4>1. Pend(job)' = Pend(k)
        BY <3>4 DEF Pend
      <4> QED
        BY <1>0, <1>1, <1>5, <3>2, <3>3, <3>4, <4>1 DEF JobMatches
    <3>5. CASE k.op = "remove" /\ job' = Idle
      BY <3>2, <3>3, <3>5 DEF Idle, Underway
    <3> QED
      BY <3>1, <3>4, <3>5
  <2> QED
    BY <2>1, <2>2
<1>9. JobMatches'
  <2>1. work' = work /\ phase' = phase
    BY DEF walletVars
  <2> QED
    BY <1>0, <1>7, <1>8, <2>1 DEF JobMatches
<1>10. AtWork(L, m)'
  BY <1>1, <1>3, <1>8, WorkStays
<1>11. Holds(L, m)'
  <2>1. L \in Nat /\ Trail' = Trail
    BY <1>4, AtChain, LinkStays DEF walletVars
  <2> QED
    BY <1>3, <1>8, <2>1, HoldsStay
<1> QED
  BY <1>0, <1>1, <1>3, <1>8, <1>9, <1>10, <1>11, FrameKeeps

(* What the database finds relevant is.                                    *)
LEMMA RelevantIs ==
  ASSUME WalletInv, NEW t \in Txs, Relevant(t) \/ Ours(t) \/ rec[t] # None, HeightInv
  PROVE  RelevantTo(t)
<1>1. CASE rec[t] # None
  BY <1>1 DEF HeightInv, OwnKnown
<1>2. CASE Spendable(t) \cup MyOuts(t) # {}
  <2>1. \A o \in Credits : o \in Mine
    BY DEF WalletInv, Records, Spends, Credits
  <2> QED
    BY <1>2, <2>1 DEF Spendable, RelevantTo
<1> QED
  BY <1>1, <1>2 DEF Relevant, Ours

LEMMA AddFollows ==
  ASSUME ValidBlocks, StartsEarly, WalletInv, HeightInv, Follows, UNCHANGED walletVars, floor' = floor,
         Ignore \/ IndexRBF \/ Reject \/ InsertTX \/ ConfirmTX
  PROVE  Follows'
<1> USE Sentinels
<1> DEFINE t == job.tx
<1>0. JobOK /\ Records /\ JobMatches /\ alarm = {}
  BY DEF WalletInv, Follows
<1>1. job.op = "add" /\ job' = Idle /\ alarm' = alarm
  BY DEF Ignore, IndexRBF, Reject, InsertTX, ConfirmTX, Working, Inserting, Confirming, Done
<1>2. PICK L \in 0..Here : \E m \in 0..Size(Trail[L]) : Holds(L, m) /\ AtWork(L, m)
  BY DEF Follows
<1>3. PICK m \in 0..Size(Trail[L]) : Holds(L, m) /\ AtWork(L, m)
  BY <1>2
<1>4. At(L, m) /\ L \in Nat /\ L \in Heights /\ Trail' = Trail /\ m \in Nat /\ Size(Trail[L]) \in Nat
  <2>1. At(L, m)
    BY <1>3 DEF At, Follows
  <2> QED
    BY <2>1, AtChain, LinkStays DEF walletVars
<1>5. JobMatches'
  BY <1>0, <1>1, IdleMatches
<1>6. ASSUME NEW k \in 0..Size(Trail[L]), Holds(L, k), AtWork(L, k)', blocks' = blocks
      PROVE  Follows'
  <2>1. Holds(L, k)'
    BY <1>4, <1>6, HoldsStay
  <2> QED
    BY <1>0, <1>1, <1>5, <1>6, <2>1, FrameKeeps
<1>7. \/ job.height = Unconfirmed /\ AtWork(L, m)'
      \/ /\ L = Here /\ job.height = L /\ sync.marked
         /\ \E n \in 1..Size(Trail[L]) :
              /\ t = BlockTxs[Trail[L]][n] /\ m >= n - 1
              /\ \A k \in n..Size(Trail[L]) : AtWork(L, k)'
  BY <1>0, <1>1, <1>3, <1>4, AddEnds
<1>8. CASE job.height = Unconfirmed /\ AtWork(L, m)'
  <2>1. blocks' = blocks
    BY <1>8 DEF Ignore, IndexRBF, Reject, InsertTX, ConfirmTX, Confirming, records
  <2> QED
    BY <1>3, <1>6, <1>8, <2>1
<1>9. CASE /\ L = Here /\ job.height = L /\ sync.marked
           /\ \E n \in 1..Size(Trail[L]) :
                /\ t = BlockTxs[Trail[L]][n] /\ m >= n - 1
                /\ \A k \in n..Size(Trail[L]) : AtWork(L, k)'
  <2>1. PICK n \in 1..Size(Trail[L]) :
          /\ t = BlockTxs[Trail[L]][n] /\ m >= n - 1
          /\ \A k \in n..Size(Trail[L]) : AtWork(L, k)'
    BY <1>9
  <2>2. job.height # Unconfirmed /\ job.height = L
    BY <1>4, <1>9
  <2>3. /\ t \in Txs
        /\ t \in Confirmed <=> RelevantTo(t) /\ m >= n
        /\ t \notin Confirmed /\ RelevantTo(t) => m = n - 1 /\ Relevant(t)
    BY <1>4, <2>1, NextFits
  <2>4. rec[t] \in Heights \cup {Unconfirmed, None}
    BY <1>0, <2>3 DEF Records, RecordTypes
  <2>5. CASE Ignore
    <3>1. rec[t] # None /\ rec[t] # Unconfirmed
      BY <2>2, <2>5 DEF Ignore, Ignored
    <3>2. t \in Confirmed
      BY <2>3, <2>4, <3>1 DEF Confirmed
    <3>3. m \in n..Size(Trail[L])
      BY <1>4, <2>3, <3>2
    <3>4. blocks' = blocks
      BY <2>5 DEF Ignore, records
    <3> QED
      BY <1>3, <1>6, <2>1, <3>3, <3>4
  <2>6. CASE IndexRBF
    BY <2>2, <2>6 DEF IndexRBF
  <2>7. CASE Reject
    <3>1. rec[t] = None /\ ~Ours(t) /\ blocks' = blocks
      BY <2>2, <2>7 DEF Reject, Inserting, Verifies, records
    <3>2. CASE m >= n
      <4>1. m \in n..Size(Trail[L])
        BY <1>4, <3>2
      <4> QED
        BY <1>3, <1>6, <2>1, <3>1, <4>1
    <3>3. CASE ~(m >= n)
      <4>1. m = n - 1 /\ n \in n..Size(Trail[L]) /\ n \in 0..Size(Trail[L]) /\ n - 1 \in Nat
        BY <1>4, <2>1, <3>3
      <4>2. ~RelevantTo(t)
        <5>1. t \notin Confirmed
          BY <3>1 DEF Confirmed
        <5> QED
          BY <2>3, <3>1, <5>1 DEF Relevant, Ours
      <4>3. At(L, n)
        BY <1>4, <2>1, <4>1, <4>2, Passed
      <4> QED
        BY <1>6, <2>1, <3>1, <4>1, <4>3 DEF At
    <3> QED
      BY <3>2, <3>3
  <2>8. CASE InsertTX \/ ConfirmTX
    <3>1. /\ rec[t] \in {None, Unconfirmed} /\ (rec[t] # None \/ Ours(t))
          /\ blocks' = [blocks EXCEPT ![L] = Append(@, t)]
      BY <2>2, <2>8 DEF InsertTX, ConfirmTX, Inserting, Confirming, AddBlock
    <3>2. t \notin Confirmed
      BY <3>1 DEF Confirmed
    <3>3. RelevantTo(t)
      BY <2>3, <3>1, RelevantIs
    <3>4. m = n - 1 /\ n \in n..Size(Trail[L]) /\ n \in 0..Size(Trail[L]) /\ n - 1 \in Nat
      BY <1>4, <2>3, <3>2, <3>3
    <3>5. Holds(L, n)'
      BY <1>4, <2>1, <3>1, <3>3, <3>4, Added
    <3> QED
      BY <1>0, <1>1, <1>5, <1>9, <2>1, <3>4, <3>5, FrameKeeps
  <2> QED
    BY <2>5, <2>6, <2>7, <2>8
<1> QED
  BY <1>7, <1>8, <1>9

(* No assertion fails: what a transaction of the next block spends of the  *)
(* wallet's is confirmed, and nothing confirmed spends what it makes.      *)
LEMMA ConfirmSound ==
  ASSUME ValidBlocks, StartsEarly, WalletInv, HeightInv, Follows
  PROVE  ~ConfirmThrows
<1> USE Sentinels
<1> DEFINE t == job.tx
<1>0. SUFFICES ASSUME ConfirmThrows PROVE FALSE
  OBVIOUS
<1>1. JobOK /\ Records /\ JobMatches
  BY DEF WalletInv, Follows
<1>2. job.op = "add" /\ rec[t] = Unconfirmed /\ job.height # Unconfirmed /\ ConfirmAssertions(t) # {}
  BY <1>0 DEF ConfirmThrows, Confirming, Working
<1>3. PICK L \in 0..Here : \E m \in 0..Size(Trail[L]) : Holds(L, m) /\ AtWork(L, m)
  BY DEF Follows
<1>4. PICK m \in 0..Size(Trail[L]) : Holds(L, m) /\ AtWork(L, m)
  BY <1>3
<1>5. At(L, m)
  BY <1>4 DEF At, Follows
<1>6. \E n \in 1..Size(Trail[L]) : t = BlockTxs[Trail[L]][n] /\ m >= n - 1
  BY <1>1, <1>2, <1>4, <1>5, AddPlace
<1>7. PICK n \in 1..Size(Trail[L]) : t = BlockTxs[Trail[L]][n] /\ m >= n - 1
  BY <1>6
<1>8. t \in Txs
  BY <1>5, <1>7, NextFits
<1>9. RelevantTo(t) /\ t \notin Confirmed
  BY <1>2, <1>8 DEF HeightInv, OwnKnown, Confirmed
<1>10. \A o \in In(t) : Creator[o] # None /\ RelevantTo(Creator[o]) => Creator[o] \in Confirmed
  <2> HIDE DEF t
  <2> QED
    BY <1>5, <1>7, <1>9, NextFits
<1>11. Late(t) = {}
  BY <1>1, <1>2, <1>8, NoneLate
<1>12. ASSUME NEW o \in HasUndo(t), undo[t][o] = Unconfirmed PROVE FALSE
  <2>1. o \in In(t) /\ undo[t][o] # None /\ o \in Outs
    BY <1>8, NotOwn DEF HasUndo
  <2>2. spender[o] = t /\ o \in Mine
    BY <1>1, <1>8, <2>1 DEF Records, Spends
  <2>3. Creator[o] # None /\ rec[Creator[o]] # None /\ Creator[o] \in Txs
    BY <1>1, <1>8, <2>1, <2>2, TXAssumption DEF Records, CoinAgrees, KnownOut
  <2>4. Creator[o] \in Confirmed
    BY <1>10, <2>1, <2>3 DEF HeightInv, OwnKnown
  <2>5. undo[t][o] = rec[Creator[o]] /\ rec[Creator[o]] \in Heights
    BY <1>8, <2>1, <2>2, <2>4 DEF HeightInv, HeightsAgree, Confirmed
  <2> QED
    BY <1>12, <2>5
<1>13. ASSUME NEW o \in MyOuts(t), credit[o] = None PROVE FALSE
  <2>1. o \in Outs /\ Creator[o] = t /\ o \in Mine
    BY <1>8, NotOwn
  <2>2. KnownOut(o)
    BY <1>2, <1>8, <2>1 DEF KnownOut
  <2>3. spender[o] # None /\ rec[spender[o]] # Unconfirmed
    BY <1>1, <1>13, <2>1, <2>2 DEF Records, CoinAgrees
  <2>4. spender[o] \in Txs /\ o \in In(spender[o]) /\ rec[spender[o]] \in Heights
    BY <1>1, <2>1, <2>3 DEF Records, RecordTypes, Spends
  <2>5. spender[o] \in Confirmed
    BY <2>4 DEF Confirmed
  <2>6. Creator[o] # None /\ RelevantTo(Creator[o])
    BY <1>8, <1>9, <2>1
  <2>7. Creator[o] \in Confirmed
    BY <1>5, <2>4, <2>5, <2>6, Closed
  <2> QED
    BY <1>9, <2>1, <2>7
<1>14. MyOuts(t) \cap Credits = MyOuts(t)
  <2>1. \A o \in MyOuts(t) : o \in Outs
    BY <1>8, NotOwn
  <2> QED
    BY <1>13, <2>1 DEF Credits
<1> HIDE DEF t
<1>15. ConfirmAssertions(t) = {}
  BY <1>11, <1>12, <1>14 DEF ConfirmAssertions
<1> QED
  BY <1>2, <1>15

(* A transaction is taken back from the top of what is confirmed.          *)
LEMMA UndoPlace ==
  ASSUME WalletInv, JobMatches, NEW L, NEW m, At(L, m), AtWork(L, m), job.op = "unconfirm"
  PROVE  \E h \in 0..L : UndoIs(Above[h])
<1>1. RemovingBlock(L) \/ Reverting(L)
  BY DEF JobMatches, AtWork, Resting, Rescanning, Connecting, Scanning, NoWork
<1>2. L \in Nat
  BY AtChain
<1>3. CASE RemovingBlock(L)
  BY <1>2, <1>3 DEF RemovingBlock
<1>4. CASE Reverting(L)
  <2>1. PICK to \in 0..(L - 1) : UndoIs(Above[to + 1])
    BY <1>4 DEF Reverting
  <2>2. to + 1 \in 0..L
    BY <1>2
  <2> QED
    BY <2>1, <2>2
<1> QED
  BY <1>1, <1>3, <1>4

LEMMA UndoSound ==
  ASSUME ValidBlocks, WalletInv, HeightInv, Follows
  PROVE  ~DisconnectThrows /\ ~NothingToUnconfirm
<1> USE Sentinels
<1> DEFINE t == job.tx
<1>0. SUFFICES ASSUME DisconnectThrows \/ NothingToUnconfirm PROVE FALSE
  OBVIOUS
<1>1. JobOK /\ Records /\ JobMatches
  BY DEF WalletInv, Follows
<1>2. job.op = "unconfirm"
  BY <1>0 DEF DisconnectThrows, NothingToUnconfirm, Disconnecting, Working
<1>3. PICK L \in 0..Here : \E m \in 0..Size(Trail[L]) : Holds(L, m) /\ AtWork(L, m)
  BY DEF Follows
<1>4. PICK m \in 0..Size(Trail[L]) : Holds(L, m) /\ AtWork(L, m)
  BY <1>3
<1>5. At(L, m)
  BY <1>4 DEF At, Follows
<1>6. PICK h \in 0..L : UndoIs(Above[h])
  BY <1>1, <1>2, <1>4, <1>5, UndoPlace
<1>7. PICK k \in h..L : t = Last(blocks[k]) /\ rec[t] = k /\ t \in Txs
  BY <1>2, <1>5, <1>6, UndoNext
<1>8. k \in Heights
  <2>1. L \in Nat /\ L \in Heights /\ MaxHeight \in Nat
    BY <1>5, AtChain, PlaceFacts
  <2> QED
    BY <2>1 DEF Heights
<1>9. t \in Confirmed /\ DisconnectAssertions(t) # {}
  BY <1>0, <1>7, <1>8 DEF Confirmed, DisconnectThrows, NothingToUnconfirm
<1>10. ASSUME NEW o \in HasUndo(t), undo[t][o] = Unconfirmed PROVE FALSE
  <2>1. o \in In(t) /\ undo[t][o] # None /\ o \in Outs
    BY <1>7, NotOwn DEF HasUndo
  <2>2. spender[o] = t /\ o \in Mine
    BY <1>1, <1>7, <2>1 DEF Records, Spends
  <2>3. Creator[o] # None /\ rec[Creator[o]] # None /\ Creator[o] \in Txs
    BY <1>1, <1>7, <2>1, <2>2, TXAssumption DEF Records, CoinAgrees, KnownOut
  <2>4. RelevantTo(Creator[o])
    BY <2>3 DEF HeightInv, OwnKnown
  <2>5. Creator[o] \in Confirmed
    BY <1>5, <1>9, <2>1, <2>3, <2>4, Closed
  <2>6. undo[t][o] = rec[Creator[o]] /\ rec[Creator[o]] \in Heights
    BY <1>7, <2>1, <2>2, <2>5 DEF HeightInv, HeightsAgree, Confirmed
  <2> QED
    BY <1>10, <2>6
<1>11. Last(blocks[rec[t]]) = t
  BY <1>7
<1> HIDE DEF t
<1> QED
  BY <1>9, <1>10, <1>11 DEF DisconnectAssertions

LEMMA DisconnectFollows ==
  ASSUME ValidBlocks, WalletInv, HeightInv, Follows, UNCHANGED walletVars, floor' = floor, DisconnectTX
  PROVE  Follows'
<1> USE Sentinels
<1>1. JobOK /\ Records /\ JobMatches /\ alarm = {} /\ MarkOK
  BY DEF WalletInv, Follows
<1>2. job.op = "unconfirm" /\ job' = Idle /\ alarm' = alarm /\ phase # "down"
  BY <1>1 DEF DisconnectTX, Disconnecting, Working, Done, JobMatches, Idle
<1>3. PICK L \in 0..Here : \E m \in 0..Size(Trail[L]) : Holds(L, m) /\ AtWork(L, m)
  BY DEF Follows
<1>4. PICK m \in 0..Size(Trail[L]) : Holds(L, m) /\ AtWork(L, m)
  BY <1>3
<1>5. At(L, m) /\ L \in Nat /\ Here \in Nat /\ MaxHeight \in Nat
      /\ blocks \in [Heights -> Seq(Txs)] /\ L \in Heights
  <2>1. At(L, m)
    BY <1>4 DEF At, Follows
  <2> QED
    BY <2>1, AtChain, PlaceFacts
<1>6. /\ sync' = sync /\ Trail' = Trail /\ main' = main /\ phase' = phase /\ work' = work
      /\ Here' = Here
  BY LinkStays DEF walletVars
<1>7. \A b : OnMain(b)' <=> OnMain(b)
  BY <1>6 DEF OnMain
<1>8. ASSUME NEW h \in 0..L, UndoIs(Above[h])
      PROVE  \E k \in h..L : \E n \in 0..Size(Trail[k]) :
               Holds(k, n)' /\ UndoIs(Above[h])' /\ k \in 0..L /\ sync.marked
  <2>1. PICK k \in h..L :
           /\ blocks[k] # <<>> /\ (\A j \in (k + 1)..MaxHeight : blocks[j] = <<>>)
           /\ job.tx = Last(blocks[k]) /\ rec[job.tx] = k /\ job.tx \in Txs
           /\ work.todo = Stacked([blocks EXCEPT ![k] = Front(blocks[k])])[h]
    BY <1>2, <1>5, <1>8, UndoNext
  <2>2. blocks' = [blocks EXCEPT ![k] = Front(blocks[k])]
    BY <2>1 DEF DisconnectTX
  <2>3. k \in 0..L
    BY <1>5
  <2>4. \E n \in 0..Size(Trail[k]) : Holds(k, n)'
    BY <1>5, <1>6, <2>1, <2>2, <2>3, Undone
  <2>5. Above' = Stacked(blocks')
    BY DEF Above, Stacked
  <2>6. UndoIs(Above[h])'
    BY <1>2, <1>6, <2>1, <2>2, <2>5 DEF UndoIs, Idle
  <2>7. sync.marked
    <3>1. SUFFICES ASSUME Here = 0, blocks[0] = <<>> PROVE FALSE
      BY <1>1 DEF MarkOK
    <3>2. k = 0
      BY <1>5, <2>3, <3>1
    <3> QED
      BY <2>1, <3>1, <3>2
  <2> QED
    BY <2>3, <2>4, <2>6, <2>7
<1>9. RemovingBlock(L) \/ Reverting(L)
  BY <1>1, <1>2, <1>4 DEF JobMatches, AtWork, Resting, Rescanning, Connecting, Scanning, NoWork
<1>10. \E k \in 0..L : \E n \in 0..Size(Trail[k]) : Holds(k, n)' /\ AtWork(k, n)' /\ sync.marked
  <2>1. CASE RemovingBlock(L)
    <3>1. UndoIs(Above[L]) /\ L \in 0..L
      BY <1>5, <2>1 DEF RemovingBlock
    <3>2. PICK k \in L..L : \E n \in 0..Size(Trail[k]) : Holds(k, n)' /\ UndoIs(Above[L])' /\ sync.marked
      BY <1>8, <3>1
    <3>3. PICK n \in 0..Size(Trail[k]) : Holds(k, n)' /\ UndoIs(Above[L])' /\ sync.marked
      BY <3>2
    <3>4. k = L
      BY <1>5
    <3>5. RemovingBlock(L)'
      BY <1>6, <2>1, <3>3 DEF RemovingBlock, UndoIs
    <3> QED
      BY <3>1, <3>3, <3>4, <3>5 DEF AtWork
  <2>2. CASE Reverting(L)
    <3>1. PICK to \in 0..(L - 1) :
             /\ work.tip = Trail[to] /\ UndoIs(Above[to + 1])
             /\ phase = "up" => ~work.scan
             /\ phase = "opening" => /\ work.scan /\ OnMain(Trail[to])
                                     /\ \A k \in (to + 1)..Here : ~OnMain(Trail[k])
      BY <2>2 DEF Reverting
    <3>2. to + 1 \in 0..L
      BY <1>5
    <3>3. PICK k \in (to + 1)..L : \E n \in 0..Size(Trail[k]) :
             Holds(k, n)' /\ UndoIs(Above[to + 1])' /\ k \in 0..L /\ sync.marked
      BY <1>8, <3>1, <3>2
    <3>4. PICK n \in 0..Size(Trail[k]) :
             Holds(k, n)' /\ UndoIs(Above[to + 1])' /\ k \in 0..L /\ sync.marked
      BY <3>3
    <3>5. to \in 0..(k - 1)
      BY <1>5
    <3>6. Reverting(k)'
      BY <1>6, <1>7, <2>2, <3>1, <3>4, <3>5 DEF Reverting
    <3> QED
      BY <3>4, <3>6 DEF AtWork
  <2> QED
    BY <1>9, <2>1, <2>2
<1>11. PICK k \in 0..L : \E n \in 0..Size(Trail[k]) : Holds(k, n)' /\ AtWork(k, n)' /\ sync.marked
  BY <1>10
<1>12. k \in 0..Here
  BY <1>5
<1>13. JobMatches'
  BY <1>1, <1>2, IdleMatches
<1> QED
  BY <1>1, <1>2, <1>11, <1>12, <1>13, FrameKeeps

LEMMA StepFollows ==
  ASSUME ValidBlocks, StartsEarly, WalletInv, HeightInv, Follows, UNCHANGED walletVars, floor' = floor, Step
  PROVE  Follows'
BY RemovalFollows, AddFollows, ConfirmSound, DisconnectFollows, UndoSound DEF Step

-----------------------------------------------------------------------------
(* The steps of the node.                                                  *)
LEMMA QueueLeads ==
  ASSUME phase' = "up", NEW x, x = Target', NEW q, q = queue', NEW y, y = Tip', NEW S, S = Safe', Leads(x, q, y, S)
  PROVE  QueueOK'
BY DEF QueueOK, Leads, Moves, Before

LEMMA NodeFrame ==
  ASSUME WalletInv, Follows, UNCHANGED <<vars, phase, sync, hashes, work>>, phase = "up",
         MainOK', FloorOK', Leads(Target, queue', Tip', Safe')
  PROVE  Follows'
<1>0. Trail' = Trail /\ Here' = Here /\ (Linked => Linked')
  BY LinkStays
<1>1. /\ sync' = sync /\ phase' = phase /\ work' = work /\ hashes' = hashes
      /\ job' = job /\ blocks' = blocks /\ alarm' = alarm /\ Above' = Above /\ Target' = Target
      /\ Pend(job)' = Pend(job) /\ (Underway' <=> Underway)
  BY <1>0 DEF vars, Above, Target, Pend, Underway
<1>2. alarm = {} /\ Linked /\ JobMatches /\ MarkOK
  BY DEF Follows
<1>3. Linked' /\ JobMatches' /\ MarkOK'
  <2>1. Linked'
    BY <1>0, <1>2
  <2>2. JobMatches'
    BY <1>1, <1>2 DEF JobMatches, RelevantTo
  <2>3. MarkOK'
    BY <1>0, <1>1, <1>2 DEF MarkOK
  <2> QED
    BY <2>1, <2>2, <2>3
<1>4. QueueOK'
  BY <1>1, QueueLeads
<1>5. PICK L \in 0..Here : \E m \in 0..Size(Trail[L]) : Holds(L, m) /\ AtWork(L, m)
  BY DEF Follows
<1>6. PICK m \in 0..Size(Trail[L]) : Holds(L, m) /\ AtWork(L, m)
  BY <1>5
<1>7. Holds(L, m)'
  <2>1. L \in Nat
    BY PlaceFacts
  <2> QED
    BY <1>0, <1>1, <1>6, <2>1, HoldsStay
<1>8. \A s : UndoIs(s)' <=> UndoIs(s)
  BY <1>1 DEF UndoIs
<1>9. ASSUME NEW b, Adding(L, m, b) PROVE Adding(L, m, b)'
  <2>1. PICK n \in 0..Size(b) : Handed(m, b, n)
    BY <1>9 DEF Adding
  <2>2. Handed(m, b, n)'
    BY <1>0, <1>1, <2>1 DEF Handed
  <2> QED
    BY <1>0, <1>9, <2>2 DEF Adding
<1>10. AtWork(L, m)'
  <2>1. ~Rescanning(L) /\ ~Scanning(L, m)
    BY DEF Rescanning, Scanning
  <2>2. Resting(L, m) => Resting(L, m)'
    BY <1>0, <1>1 DEF Resting, Full
  <2>3. Connecting(L, m) => Connecting(L, m)'
    BY <1>0, <1>1, <1>9 DEF Connecting, Full
  <2>4. RemovingBlock(L) => RemovingBlock(L)'
    BY <1>0, <1>1, <1>8 DEF RemovingBlock
  <2>5. Reverting(L) => Reverting(L)'
    BY <1>0, <1>1, <1>8 DEF Reverting
  <2> QED
    BY <1>6, <2>1, <2>2, <2>3, <2>4, <2>5 DEF AtWork
<1>11. \E l \in 0..Here' : \E n \in 0..Size(Trail'[l]) : Holds(l, n)' /\ AtWork(l, n)'
  BY <1>0, <1>7, <1>10
<1> QED
  BY <1>1, <1>2, <1>3, <1>4, <1>11 DEF Follows, Size

(* A tip that is not below the floor.                                      *)
LEMMA MaxOfTwo ==
  ASSUME NEW a \in Int, NEW b \in Int
  PROVE  Max({a, b}) = IF a <= b THEN b ELSE a
<1>1. \E x \in {a, b} : \A y \in {a, b} : x >= y
  OBVIOUS
<1>2. Max({a, b}) \in {a, b} /\ \A y \in {a, b} : Max({a, b}) >= y
  BY <1>1 DEF Max
<1> QED
  BY <1>2

LEMMA FloorMoves ==
  ASSUME WalletInv, Follows, UNCHANGED <<sync, hashes>>, Reached, ~lost',
         NEW b \in Blocks, Tip' = b
  PROVE  /\ FloorOK' /\ Safe \subseteq Safe' /\ Height[b] \in Safe'
         /\ \A h \in Safe : h < Height[b] + KeepBlocks
<1>1. /\ floor \in Nat /\ Kept(floor) /\ Height[b] \in Nat /\ KeepBlocks \in Nat /\ KeepBlocks >= 1
      /\ Here \in Nat
  BY HeightsAreNat, PlaceFacts DEF Follows, FloorOK
<1>2. ~(Height[b] < floor)
  BY DEF Reached
<1>3. floor' = IF floor <= Height[b] + 1 - KeepBlocks THEN Height[b] + 1 - KeepBlocks ELSE floor
  BY <1>1, MaxOfTwo DEF Reached
<1>4. floor' \in Nat /\ floor <= floor' /\ floor' <= Height[b] /\ Height[b] < floor' + KeepBlocks
  BY <1>1, <1>2, <1>3
<1>5. \A h : Kept(h)' <=> Kept(h)
  BY LinkStays
<1>6. \A h \in Nat : floor <= h => Kept(h)
  BY <1>1 DEF Kept
<1>7. FloorOK'
  <2>1. Kept(floor)'
    <3>1. Here' = Here /\ hashes' = hashes
      BY LinkStays
    <3>2. \A k \in floor'..Here : k \in floor..Here
      BY <1>1, <1>4
    <3> QED
      BY <1>1, <3>1, <3>2 DEF Kept
  <2> QED
    BY <1>4, <2>1 DEF FloorOK
<1>8. Safe \subseteq Safe' /\ Height[b] \in Safe'
  BY <1>1, <1>2, <1>4, <1>5, <1>6 DEF Safe
<1>9. \A h \in Safe : h < Height[b] + KeepBlocks
  BY <1>1, <1>2 DEF Safe
<1> QED
  BY <1>7, <1>8, <1>9

LEMMA FloorStays ==
  ASSUME WalletInv, FloorOK, main' = main, Reached
  PROVE  floor' = floor
<1>1. Tip' = Tip
  BY DEF Tip
<1>2. floor \in Nat /\ Height[Tip] \in Nat /\ KeepBlocks \in Nat /\ Height[Tip] < floor + KeepBlocks
  BY HeightsAreNat, PlaceFacts DEF FloorOK
<1> QED
  BY <1>1, <1>2, MaxOfTwo DEF Reached

(* The main chain up to some block.                                        *)
LEMMA MainPart ==
  ASSUME WalletInv, MainOK, NEW n \in 1..Len(main), main' = SubSeq(main, 1, n)
  PROVE  MainOK' /\ Tip' = main[n]
<1>1. Len(main) \in Nat \ {0} /\ main \in Seq(Blocks)
  BY PlaceFacts DEF WalletInv, WalletOK
<1>2. Len(main') = n /\ \A i \in 1..n : main'[i] = main[i]
  BY <1>1, SubSeqProperties
<1>3. Tip' = main[n]
  <2>1. n \in 1..n
    BY <1>1
  <2> QED
    BY <1>2, <2>1 DEF Tip, Last
<1> DEFINE q == [k \in 0..(n - 1) |-> main'[k + 1]]
<1>4. \A k \in 0..(n - 1) : k \in 0..(Len(main) - 1) /\ k + 1 \in 1..n /\ q[k] = MainPath[k]
  <2>1. \A k \in 0..(n - 1) : k \in 0..(Len(main) - 1) /\ k + 1 \in 1..n
    BY <1>1
  <2> QED
    BY <1>2, <2>1 DEF MainPath
<1>5. Chain(q, n - 1)
  <2>1. n - 1 \in 0..(Len(main) - 1) /\ Len(main) - 1 \in Nat
    BY <1>1
  <2>2. Chain(MainPath, Len(main) - 1)
    BY DEF MainOK
  <2> HIDE DEF q
  <2> QED
    BY <1>4, <2>1, <2>2, ChainPart
<1>6. MainPath' = q /\ Len(main)' = n
  BY <1>2 DEF MainPath
<1> HIDE DEF q
<1>7. MainOK'
  BY <1>5, <1>6 DEF MainOK, Chain
<1> QED
  BY <1>3, <1>7

LEMMA ConnectFollows ==
  ASSUME ValidBlocks, WalletInv, Follows, Reached, ~lost', NEW b \in Blocks, Connect(b)
  PROVE  Follows'
<1> DEFINE n == [type |-> "connect", block |-> b]
<1>1. /\ phase = "up" /\ Parent[b] = Tip /\ main' = Append(main, b) /\ queue' = Append(queue, n)
      /\ UNCHANGED <<vars, phase, sync, hashes, work>> /\ MainOK /\ QueueOK
  BY DEF Connect, ChainFree, Notify, Follows
<1>2. /\ Len(main) \in Nat \ {0} /\ main \in Seq(Blocks) /\ queue \in Seq(Note)
      /\ Tip = main[Len(main)] /\ Tip \in Blocks
  BY PlaceFacts DEF WalletInv, WalletOK
<1>3. /\ Len(main') = Len(main) + 1 /\ main'[Len(main) + 1] = b
      /\ \A i \in 1..Len(main) : main'[i] = main[i]
  BY <1>1, <1>2, AppendProperties
<1>4. Tip' = b
  BY <1>3 DEF Tip, Last
<1>5. Height[b] = Len(main)
  <2>1. Parent[b] # None
    BY <1>1, <1>2, WalletAssumption
  <2>2. Height[b] = Height[Tip] + 1
    BY <1>1, <2>1 DEF ValidBlocks
  <2>3. Height[Tip] = Len(main) - 1
    BY <1>1, MainFacts
  <2> QED
    BY <1>2, <2>2, <2>3
<1> DEFINE N == Len(main) - 1
           q == [k \in 0..(N + 1) |-> main'[k + 1]]
<1>6. N \in Nat /\ N + 1 = Len(main) /\ Chain(MainPath, N)
  BY <1>1, <1>2, MainFacts
<1>7. \A k \in 0..N : q[k] = MainPath[k]
  <2>1. \A k \in 0..N : k \in 0..(N + 1) /\ k + 1 \in 1..Len(main)
    BY <1>6
  <2> QED
    BY <1>3, <2>1 DEF MainPath
<1>8. q[N + 1] = b
  <2>1. N + 1 \in 0..(N + 1) /\ (N + 1) + 1 = Len(main) + 1
    BY <1>6
  <2> QED
    BY <1>3, <2>1
<1>9. MainPath[N] = Tip
  <2>1. N \in 0..N
    BY <1>6
  <2> QED
    BY <1>2, <1>6, <2>1 DEF MainPath
<1>10. Chain(q, N + 1)
  <2>1. q[N + 1] \in Blocks /\ Height[q[N + 1]] = N + 1 /\ Parent[q[N + 1]] = MainPath[N]
    BY <1>1, <1>5, <1>6, <1>8, <1>9
  <2> HIDE DEF q, N
  <2> QED
    BY <1>6, <1>7, <2>1, ChainGrows
<1>11. MainPath' = q /\ Len(main)' - 1 = N + 1
  <2>1. Len(main') - 1 = N + 1
    BY <1>2, <1>3
  <2> QED
    BY <2>1 DEF MainPath
<1> HIDE DEF q, N
<1>12. MainOK'
  BY <1>10, <1>11 DEF MainOK, Chain
<1>13. FloorOK' /\ Leads(Target, queue', Tip', Safe')
  <2>1. Leads(Target, queue, Tip, Safe)
    BY <1>1 DEF QueueOK
  <2>2. n \in Note
    BY DEF Note
  <2>3. Moves(Tip, n, b)
    BY <1>1 DEF Moves
  <2>0. /\ FloorOK' /\ Safe \subseteq Safe' /\ Height[b] \in Safe'
        /\ \A h \in Safe : h < Height[b] + KeepBlocks
    BY <1>1, <1>4, FloorMoves
  <2> HIDE DEF n
  <2> QED
    BY <2>0, <1>1, <1>2, <1>4, <2>1, <2>2, <2>3, LeadsOn
<1> QED
  BY <1>1, <1>12, <1>13, NodeFrame

LEMMA DisconnectedFollows ==
  ASSUME ValidBlocks, WalletInv, Follows, Reached, ~lost', Disconnect
  PROVE  Follows'
<1> DEFINE n == [type |-> "disconnect", block |-> Tip]
<1>1. /\ phase = "up" /\ Len(main) > 1 /\ main' = Front(main) /\ queue' = Append(queue, n)
      /\ UNCHANGED <<vars, phase, sync, hashes, work>> /\ MainOK /\ QueueOK
  BY DEF Disconnect, ChainFree, Notify, Follows
<1>2. /\ Len(main) \in Nat \ {0} /\ queue \in Seq(Note) /\ Tip = main[Len(main)] /\ Tip \in Blocks
  BY PlaceFacts
<1>3. Len(main) - 1 \in 1..Len(main) /\ Len(main) \in 2..Len(main)
  BY <1>1, <1>2
<1>4. main' = SubSeq(main, 1, Len(main) - 1)
  BY <1>1 DEF Front
<1>5. MainOK' /\ Tip' = main[Len(main) - 1]
  BY <1>1, <1>3, <1>4, MainPart
<1>6. Parent[Tip] = Tip' /\ Tip' \in Blocks
  BY <1>1, <1>2, <1>3, <1>5, MainFacts
<1>7. FloorOK' /\ Leads(Target, queue', Tip', Safe')
  <2>1. Leads(Target, queue, Tip, Safe)
    BY <1>1 DEF QueueOK
  <2>2. n \in Note
    BY <1>2 DEF Note
  <2>3. Moves(Tip, n, Tip')
    BY <1>6 DEF Moves
  <2>0. /\ FloorOK' /\ Safe \subseteq Safe' /\ Height[Tip'] \in Safe'
        /\ \A h \in Safe : h < Height[Tip'] + KeepBlocks
    BY <1>1, <1>6, FloorMoves
  <2> HIDE DEF n
  <2> QED
    BY <2>0, <1>1, <1>2, <1>6, <2>1, <2>2, <2>3, LeadsOn
<1> QED
  BY <1>1, <1>5, <1>7, NodeFrame

LEMMA ResetFollows ==
  ASSUME ValidBlocks, WalletInv, Follows, Reached, ~lost', NEW b \in Blocks, ChainReset(b)
  PROVE  Follows'
<1> DEFINE note == [type |-> "reset", block |-> b]
<1>1. PICK n \in DOMAIN main : main[n] = b /\ main' = SubSeq(main, 1, n)
  BY DEF ChainReset
<1>2. /\ phase = "up" /\ queue' = Append(queue, note)
      /\ UNCHANGED <<vars, phase, sync, hashes, work>> /\ MainOK /\ QueueOK
  BY DEF ChainReset, ChainFree, Notify, Follows
<1>3. /\ Len(main) \in Nat \ {0} /\ queue \in Seq(Note) /\ DOMAIN main = 1..Len(main)
      /\ Tip = main[Len(main)] /\ Tip \in Blocks
  BY PlaceFacts
<1>4. MainOK' /\ Tip' = b
  BY <1>1, <1>2, <1>3, MainPart
<1>5. Before(b, Tip)
  <2>1. /\ Chain(MainPath, Len(main) - 1)
        /\ \A k \in 0..(Len(main) - 1) : MainPath[k] = main[k + 1]
    BY <1>2, MainFacts
  <2>2. /\ Len(main) - 1 \in Nat /\ Len(main) - 1 \in 0..(Len(main) - 1)
        /\ n - 1 \in 0..(Len(main) - 1) /\ (n - 1) + 1 = n /\ (Len(main) - 1) + 1 = Len(main)
    BY <1>1, <1>3
  <2>3. Before(MainPath[n - 1], MainPath[Len(main) - 1])
    BY <2>1, <2>2, ChainBefore
  <2>4. MainPath[n - 1] = b /\ MainPath[Len(main) - 1] = Tip
    BY <1>1, <1>3, <2>1, <2>2
  <2> QED
    BY <2>3, <2>4
<1>6. FloorOK' /\ Leads(Target, queue', Tip', Safe')
  <2>1. Leads(Target, queue, Tip, Safe)
    BY <1>2 DEF QueueOK
  <2>2. note \in Note
    BY DEF Note
  <2>3. Moves(Tip, note, b)
    BY <1>5 DEF Moves
  <2>0. /\ FloorOK' /\ Safe \subseteq Safe' /\ Height[b] \in Safe'
        /\ \A h \in Safe : h < Height[b] + KeepBlocks
    BY <1>2, <1>4, FloorMoves
  <2> HIDE DEF note
  <2> QED
    BY <2>0, <1>2, <1>3, <1>4, <2>1, <2>2, <2>3, LeadsOn
<1> QED
  BY <1>2, <1>4, <1>6, NodeFrame

LEMMA RelayFollows ==
  ASSUME ValidBlocks, WalletInv, Follows, Reached, ~lost', NEW t \in Relayed, Relay(t)
  PROVE  Follows'
<1> DEFINE n == [type |-> "tx", tx |-> t]
<1>1. /\ phase = "up" /\ queue' = Append(queue, n) /\ main' = main
      /\ UNCHANGED <<vars, phase, sync, hashes, work>> /\ MainOK /\ QueueOK
  BY DEF Relay, ChainFree, Notify, Follows
<1>2. Tip' = Tip /\ MainOK'
  <2>1. MainPath' = MainPath
    BY <1>1 DEF MainPath
  <2> QED
    BY <1>1, <2>1 DEF Tip, MainOK, Chain
<1>3. FloorOK' /\ Leads(Target, queue', Tip', Safe')
  <2>1. Leads(Target, queue, Tip, Safe)
    BY <1>1 DEF QueueOK
  <2>2. n \in Note
    BY DEF Note
  <2>3. Moves(Tip, n, Tip)
    BY DEF Moves
  <2>4. queue \in Seq(Note) /\ Tip \in Blocks
    BY PlaceFacts
  <2>0. /\ FloorOK' /\ Safe \subseteq Safe' /\ Height[Tip] \in Safe'
        /\ \A h \in Safe : h < Height[Tip] + KeepBlocks
    BY <1>1, <1>2, <2>4, FloorMoves
  <2> HIDE DEF n
  <2> QED
    BY <2>0, <1>1, <1>2, <2>1, <2>2, <2>3, <2>4, LeadsOn
<1> QED
  BY <1>1, <1>2, <1>3, NodeFrame

-----------------------------------------------------------------------------
(* The notifications are taken.                                            *)
LEMMA Rebuilt ==
  ASSUME alarm' = {}, Linked', main' = main, MainOK, floor' = floor, FloorOK, Kept(floor)',
         JobMatches', QueueOK', MarkOK', phase' \in {"down", "opening", "up"},
         NEW L \in 0..Here', NEW m \in 0..Size(Trail'[L]), Holds(L, m)', AtWork(L, m)'
  PROVE  Follows'
<1>1. MainPath' = MainPath /\ Tip' = Tip
  BY DEF MainPath, Tip
<1>2. MainOK' /\ FloorOK'
  BY <1>1 DEF MainOK, Chain, FloorOK
<1>3. \E l \in 0..Here' : \E n \in 0..Size(Trail'[l]) : Holds(l, n)' /\ AtWork(l, n)'
  OBVIOUS
<1> QED
  BY <1>2, <1>3 DEF Follows, Size

(* A block's transactions, none of them handed out.                        *)
LEMMA WholeBlock ==
  ASSUME NEW b \in Blocks
  PROVE  BlockTxs[b] = SubSeq(BlockTxs[b], 0 + 1, Size(b))
<1> DEFINE s == BlockTxs[b]
           n == Size(b)
<1>1. s \in Seq(Txs) /\ n \in Nat /\ DOMAIN s = 1..n /\ n = Len(s)
  BY BlockIsSeq DEF Size
<1> HIDE DEF s, n
<1>2. SubSeq(s, 1, n) = s
  BY <1>1
<1> QED
  BY <1>2 DEF s, n

(* The wallet goes up, and nothing of the new block is confirmed.          *)
LEMMA HoldsUp ==
  ASSUME WalletInv, At(Here, Size(Trail[Here])), blocks' = blocks,
         NEW L \in Heights, L = Here + 1, \A k \in 0..Here : Trail'[k] = Trail[k]
  PROVE  Holds(L, 0)'
<1>1. Here \in Nat /\ MaxHeight \in Nat /\ blocks \in [Heights -> Seq(Txs)]
  BY PlaceFacts
<1>2. \A k \in 0..(L - 1) : k \in 0..(Here - 1) \/ k = Here
  BY <1>1
<1>3. \A k \in 0..(L - 1) : ListsFirst(blocks[k], Trail[k], Size(Trail[k]))
  BY <1>2 DEF At, Holds
<1>4. \A k \in 0..(L - 1) : Trail'[k] = Trail[k]
  BY <1>1
<1>5. \A k \in 0..(L - 1) : ListsFirst(blocks'[k], Trail'[k], Size(Trail'[k]))
  BY <1>3, <1>4
<1>6. L \in (Here + 1)..MaxHeight /\ \A k \in (L + 1)..MaxHeight : k \in (Here + 1)..MaxHeight
  BY <1>1 DEF Heights
<1>7. blocks'[L] = <<>> /\ \A k \in (L + 1)..MaxHeight : blocks'[k] = <<>>
  BY <1>6 DEF At, Holds
<1>8. ListsFirst(blocks'[L], Trail'[L], 0)
  BY <1>7, ListsNothing
<1> QED
  BY <1>5, <1>7, <1>8 DEF Holds, ListsFirst, RelevantTo

LEMMA Takes ==
  ASSUME WalletInv, Follows, Take
  PROVE  /\ phase = "up" /\ work = NoWork /\ job.op \in {"none", "remove"} /\ sync.marked
         /\ At(Here, Size(Trail[Here])) /\ Taken \in Note /\ queue' \in Seq(Note)
         /\ \E z \in Blocks : /\ Moves(Trail[Here], Taken, z) /\ Height[z] \in Safe
                              /\ Leads(z, queue', Tip, Onward(z))
<1>1. /\ phase = "up" /\ work = NoWork /\ queue # <<>> /\ queue' = Tail(queue)
      /\ JobMatches /\ QueueOK /\ MarkOK /\ Linked /\ JobOK /\ Queued
  BY DEF Take, Follows, WalletInv, WalletOK
<1>2. sync.marked /\ work.op = "none" /\ Target = Trail[Here]
  BY <1>1 DEF MarkOK, NoWork, Target, Linked
<1>3. job.op \in {"none", "remove"}
  BY <1>1, <1>2 DEF JobMatches, JobOK, Job
<1>4. PICK L \in 0..Here : \E m \in 0..Size(Trail[L]) : Holds(L, m) /\ AtWork(L, m)
  BY DEF Follows
<1>5. PICK m \in 0..Size(Trail[L]) : Holds(L, m) /\ AtWork(L, m)
  BY <1>4
<1>6. Resting(L, m)
  BY <1>2, <1>5 DEF AtWork, Rescanning, Connecting, Scanning, RemovingBlock, Reverting
<1>7. L = Here /\ m = Size(Trail[Here])
  BY <1>1, <1>6 DEF Resting, Full
<1>8. At(Here, Size(Trail[Here]))
  BY <1>1, <1>5, <1>7 DEF At
<1>9. Taken \in Note /\ queue' \in Seq(Note) /\ queue \in Seq(Note)
  BY <1>1, TakeKeeps DEF Queued
<1>10. \E z \in Blocks : /\ Moves(Trail[Here], Taken, z) /\ Height[z] \in Safe
                         /\ Leads(z, queue', Tip, Onward(z))
  <2>1. Leads(Trail[Here], queue, Tip, Safe)
    BY <1>1, <1>2 DEF QueueOK
  <2>2. \E z \in Blocks : /\ Moves(Trail[Here], Head(queue), z) /\ Height[z] \in Safe
                          /\ Leads(z, Tail(queue), Tip, Within(Safe, z))
    BY <1>1, <1>9, <2>1, LeadsFirst
  <2> QED
    BY <1>1, <2>2, Zenon DEF Taken, Onward
<1> QED
  BY <1>1, <1>2, <1>3, <1>8, <1>9, <1>10

LEMMA TakeFrame ==
  ASSUME WalletInv, Follows, Take, UNCHANGED <<vars, main, phase>>, Linked', sync'.marked = sync.marked,
         floor' = floor, Kept(floor)',
         NEW x, x = Target', NEW S, Leads(x, queue', Tip, S), S \subseteq Safe',
         NEW L \in 0..Here', NEW m \in 0..Size(Trail'[L]), Holds(L, m)', AtWork(L, m)'
  PROVE  Follows'
<1>1. phase = "up" /\ job.op \in {"none", "remove"} /\ sync.marked
  BY Takes
<1>2. JobMatches /\ alarm = {} /\ MainOK /\ FloorOK
  BY DEF Follows
<1>3. job' = job /\ alarm' = alarm /\ phase' = phase /\ main' = main
      /\ Pend(job)' = Pend(job) /\ (Underway' <=> Underway) /\ Tip' = Tip
  BY DEF vars, Pend, Underway, Tip
<1>4. JobMatches'
  BY <1>1, <1>2, <1>3 DEF JobMatches, RelevantTo
<1>5. QueueOK'
  <2>1. Leads(x, queue', Tip, Safe')
    BY LeadsWithin
  <2> QED
    BY <1>1, <1>3, <2>1, QueueLeads
<1>6. MarkOK'
  BY <1>1 DEF MarkOK
<1> QED
  BY <1>1, <1>2, <1>3, <1>4, <1>5, <1>6, Rebuilt

LEMMA ConnectBlockFollows ==
  ASSUME ValidBlocks, WalletInv, Follows, floor' = floor, ConnectBlock
  PROVE  Follows'
<1>1. /\ Take /\ Taken.type = "connect" /\ SyncState(Taken.block)
      /\ work' = [op |-> "connect", block |-> Taken.block, todo |-> BlockTxs[Taken.block]]
      /\ UNCHANGED <<vars, main, phase>> /\ Linked
  BY DEF ConnectBlock, Follows
<1>2. /\ phase = "up" /\ job.op \in {"none", "remove"} /\ sync.marked /\ Taken \in Note
      /\ At(Here, Size(Trail[Here]))
  BY <1>1, Takes
<1>3. PICK b \in Blocks : /\ Moves(Trail[Here], Taken, b) /\ Height[b] \in Safe
                          /\ Leads(b, queue', Tip, Onward(b))
  BY <1>1, Takes
<1>4. Parent[b] = Trail[Here] /\ b = Taken.block
  BY <1>1, <1>3 DEF Moves
<1>5. Here \in Nat /\ Here \in 0..Here /\ Trail[Here] \in Blocks /\ Height[Trail[Here]] = Here /\ Trail[Here] # None
  <2>1. Here \in Nat /\ Here \in 0..Here
    BY PlaceFacts
  <2> QED
    BY <1>1, <2>1, LinkFacts
<1>6. PICK L \in Heights : L = Here + 1 /\ Height[b] = L
  <2>1. Height[b] = Height[Parent[b]] + 1
    BY <1>4, <1>5 DEF ValidBlocks
  <2> QED
    BY <1>4, <1>5, <2>1, WalletAssumption
<1>7. /\ Linked' /\ Here' = L /\ sync'.marked = sync.marked /\ Trail'[L] = b
      /\ \A k \in 0..Here : Trail'[k] = Trail[k]
      /\ \A h \in Nat : Kept(h) /\ Height[b] < h + KeepBlocks => Kept(h)'
  BY <1>1, <1>4, <1>6, SyncUp
<1>8. Holds(L, 0)'
  <2>1. blocks' = blocks
    BY <1>1 DEF vars
  <2> QED
    BY <1>2, <1>6, <1>7, <2>1, HoldsUp
<1>9. Size(b) \in Nat /\ BlockTxs[b] = SubSeq(BlockTxs[b], 0 + 1, Size(b))
  BY BlockIsSeq, WholeBlock
<1>10. AtWork(L, 0)'
  <2>1. job'.op # "add" /\ work'.op = "connect" /\ work'.block = b /\ work'.todo = BlockTxs[b]
    BY <1>1, <1>2, <1>4 DEF vars
  <2>2. Handed(0, b, 0)'
    BY <1>9, <2>1 DEF Handed
  <2>3. b # None
    BY WalletAssumption
  <2>4. Adding(L, 0, b)'
    BY <1>7, <1>9, <2>2 DEF Adding
  <2>5. Connecting(L, 0)'
    BY <1>1, <1>2, <2>1, <2>3, <2>4 DEF Connecting
  <2> QED
    BY <2>5 DEF AtWork
<1>11. b = Target'
  BY <1>1, <1>7 DEF Target, Linked
<1>12. L \in 0..Here' /\ 0 \in 0..Size(Trail'[L])
  BY <1>5, <1>6, <1>7, <1>9
<1>13. Kept(floor)' /\ Onward(b) \subseteq Safe'
  <2>1. floor \in Nat /\ Kept(floor) /\ Height[b] < floor + KeepBlocks
    BY <1>3 DEF Follows, FloorOK, Safe
  <2>2. Kept(floor)'
    <3>1. \A h \in Nat : h = floor => Kept(h)'
      BY <1>7, <2>1
    <3> QED
      BY <2>1, <3>1 DEF Kept
  <2>3. Onward(b) \subseteq Safe'
    BY <1>7 DEF Onward, Within, Safe
  <2> QED
    BY <2>2, <2>3
<1> QED
  BY <1>1, <1>3, <1>7, <1>8, <1>10, <1>11, <1>12, <1>13, TakeFrame

LEMMA Unmoved ==
  ASSUME WalletInv, UNCHANGED <<sync, hashes>>, blocks' = blocks, NEW L, NEW m, At(L, m)
  PROVE  /\ Linked' /\ Here' = Here /\ Holds(L, m)' /\ Trail' = Trail
         /\ L \in 0..Here' /\ m \in 0..Size(Trail'[L])
         /\ floor' = floor => Safe' = Safe /\ (Kept(floor) => Kept(floor)')
<1>1. L \in Nat
  BY AtChain
<1>2. /\ Here' = Here /\ Trail' = Trail /\ (Linked => Linked')
      /\ floor' = floor => Safe' = Safe /\ (Kept(floor) => Kept(floor)')
  BY LinkStays
<1>3. Holds(L, m)'
  BY <1>1, <1>2, HoldsStay DEF At
<1> QED
  BY <1>2, <1>3 DEF At

LEMMA AddTXFollows ==
  ASSUME WalletInv, Follows, floor' = floor, AddTX
  PROVE  Follows'
<1>1. /\ Take /\ Taken.type = "tx"
      /\ work' = [op |-> "connect", block |-> None, todo |-> <<Taken.tx>>]
      /\ UNCHANGED <<vars, main, phase>> /\ UNCHANGED <<sync, hashes>>
  BY DEF AddTX
<1>2. /\ phase = "up" /\ job.op \in {"none", "remove"} /\ At(Here, Size(Trail[Here]))
  BY <1>1, Takes
<1>3. PICK x \in Blocks : /\ Moves(Trail[Here], Taken, x) /\ Height[x] \in Safe
                          /\ Leads(x, queue', Tip, Onward(x))
  BY <1>1, Takes
<1>4. x = Trail[Here]
  BY <1>1, <1>3 DEF Moves
<1>5. PICK L, m : L = Here /\ m = Size(Trail[Here])
  OBVIOUS
<1>6. /\ Linked' /\ Here' = Here /\ Trail' = Trail /\ Holds(L, m)' /\ L \in 0..Here'
      /\ m \in 0..Size(Trail'[L]) /\ Kept(floor)' /\ Onward(x) \subseteq Safe'
  <2>1. At(L, m) /\ blocks' = blocks
    BY <1>1, <1>2, <1>5 DEF vars
  <2> QED
    BY <1>1, <2>1, Unmoved DEF Onward, Within, Follows, FloorOK
<1>7. AtWork(L, m)'
  <2>1. Full(L, m)' /\ job'.op # "add"
    BY <1>1, <1>2, <1>5, <1>6 DEF Full, vars
  <2>2. Connecting(L, m)'
    BY <1>1, <1>2, <2>1 DEF Connecting
  <2> QED
    BY <2>2 DEF AtWork
<1>8. x = Target'
  BY <1>1, <1>4, <1>6 DEF Target
<1> QED
  BY <1>1, <1>3, <1>6, <1>7, <1>8, TakeFrame

LEMMA RemoveBlockFollows ==
  ASSUME WalletInv, Follows, floor' = floor, RemoveBlock
  PROVE  Follows'
<1>1. /\ Take /\ Taken.type = "disconnect" /\ Removable(Taken.block)
      /\ work' = [op |-> "disconnect", prev |-> hashes[Height[Taken.block] - 1],
                  todo |-> Backwards(blocks[Height[Taken.block]])]
      /\ UNCHANGED <<vars, main, phase>> /\ UNCHANGED <<sync, hashes>> /\ Linked
  BY DEF RemoveBlock, Follows
<1>2. /\ phase = "up" /\ job.op \in {"none", "remove"} /\ At(Here, Size(Trail[Here]))
  BY <1>1, Takes
<1>3. PICK x \in Blocks : /\ Moves(Trail[Here], Taken, x) /\ Height[x] \in Safe
                          /\ Leads(x, queue', Tip, Onward(x))
  BY <1>1, Takes
<1>4. Taken.block = Trail[Here] /\ x = Parent[Trail[Here]]
  BY <1>1, <1>3 DEF Moves
<1>5. /\ Here \in Nat /\ Here \in 0..Here /\ Height[Trail[Here]] = Here /\ MaxHeight \in Nat
      /\ Here \in Heights /\ blocks \in [Heights -> Seq(Txs)]
  <2>1. Here \in Nat /\ Here \in 0..Here
    BY PlaceFacts
  <2> QED
    BY <1>1, <2>1, LinkFacts, PlaceFacts
<1>6. PICK L, m : L = Here /\ m = Size(Trail[Here])
  OBVIOUS
<1>7. L >= 1 /\ L \in 1..Here
  BY <1>1, <1>4, <1>5, <1>6 DEF Removable
<1>8. x = Trail[L - 1] /\ hashes[L - 1] = Trail[L - 1]
  <2>1. L - 1 \in 0..Here /\ hashes[L - 1] # None
    BY <1>1, <1>4, <1>5, <1>6, <1>7 DEF Removable
  <2> QED
    BY <1>1, <1>4, <1>6, <1>7, <2>1, LinkFacts
<1>9. /\ Linked' /\ Here' = Here /\ Trail' = Trail /\ Holds(L, m)' /\ L \in 0..Here'
      /\ m \in 0..Size(Trail'[L]) /\ Kept(floor)' /\ Onward(x) \subseteq Safe'
  <2>1. At(L, m) /\ blocks' = blocks
    BY <1>1, <1>2, <1>6 DEF vars
  <2> QED
    BY <1>1, <2>1, Unmoved DEF Onward, Within, Follows, FloorOK
<1>10. Above[L] = Backwards(blocks[L])
  <2>1. Above = Stacked(blocks)
    BY DEF Above, Stacked
  <2>2. Stacked(blocks)[L] = Stacked(blocks)[L + 1] \o Backwards(blocks[L])
    BY <1>5, <1>6, StackedIs
  <2>3. L + 1 \in 0..(MaxHeight + 1) /\ \A k \in (L + 1)..MaxHeight : blocks[k] = <<>>
    BY <1>2, <1>5, <1>6 DEF At, Holds, Heights
  <2>4. Stacked(blocks)[L + 1] = <<>>
    BY <1>5, <2>3, StackEmpty
  <2>5. blocks[L] \in Seq(Txs)
    BY <1>5, <1>6
  <2>6. Backwards(blocks[L]) \in Seq(Txs)
    BY <2>5, BackwardsParts
  <2>7. <<>> \o Backwards(blocks[L]) = Backwards(blocks[L])
    BY <2>6, ConcatEmptySeq
  <2> QED
    BY <2>1, <2>2, <2>4, <2>7
<1>11. AtWork(L, m)'
  <2>1. work'.op = "disconnect" /\ work'.prev = Trail[L - 1] /\ work'.todo = Backwards(blocks[L])
    BY <1>1, <1>4, <1>5, <1>6, <1>8
  <2>2. job'.op # "unconfirm" /\ Above' = Above
    BY <1>1, <1>2 DEF vars, Above
  <2>3. UndoIs(Above[L])'
    BY <1>10, <2>1, <2>2 DEF UndoIs
  <2>4. RemovingBlock(L)'
    BY <1>1, <1>2, <1>6, <1>7, <1>9, <2>1, <2>3 DEF RemovingBlock
  <2> QED
    BY <2>4 DEF AtWork
<1>12. x = Target'
  BY <1>1, <1>4, <1>5, <1>6, <1>8 DEF Target
<1> QED
  BY <1>1, <1>3, <1>9, <1>11, <1>12, TakeFrame

LEMMA RollBackFollows ==
  ASSUME ValidBlocks, WalletInv, Follows, floor' = floor, RollBack
  PROVE  Follows'
<1>1. /\ Take /\ Taken.type = "reset" /\ Height[Taken.block] < Here
      /\ work' = Rollback(Height[Taken.block], "scan if lost")
      /\ UNCHANGED <<vars, main, phase>> /\ UNCHANGED <<sync, hashes>> /\ Linked
  BY DEF RollBack, Follows, Here
<1>2. /\ phase = "up" /\ job.op \in {"none", "remove"} /\ At(Here, Size(Trail[Here]))
  BY <1>1, Takes
<1>3. PICK x \in Blocks : /\ Moves(Trail[Here], Taken, x) /\ Height[x] \in Safe
                          /\ Leads(x, queue', Tip, Onward(x))
  BY <1>1, Takes
<1>4. Taken.block = x /\ Before(x, Trail[Here])
  BY <1>1, <1>3 DEF Moves
<1>5. Here \in Nat /\ Chain(Trail, Here) /\ Parent[Start] = None
  BY <1>1, PlaceFacts, LinkFacts DEF ValidBlocks
<1>6. PICK to \in 0..Here : Trail[to] = x
  BY <1>4, <1>5, BeforeInChain
<1>7. Height[x] = to /\ hashes[to] # None /\ hashes[to] = x
  <2>0. to \in Nat /\ to \in to..Here
    BY <1>5
  <2>1. Height[x] = to /\ (hashes[to] # None => hashes[to] = Trail[to])
    BY <1>1, <1>6, LinkFacts
  <2>2. hashes[to] # None
    BY <1>3, <2>0, <2>1 DEF Safe, Kept
  <2> QED
    BY <1>6, <2>1, <2>2
<1>8. PICK L, m : L = Here /\ m = Size(Trail[Here])
  OBVIOUS
<1>9. to \in 0..(L - 1)
  <2>1. to < Here
    BY <1>1, <1>4, <1>7, Zenon
  <2> QED
    BY <1>5, <1>8, <2>1
<1>10. /\ Linked' /\ Here' = Here /\ Trail' = Trail /\ Holds(L, m)' /\ L \in 0..Here'
      /\ m \in 0..Size(Trail'[L]) /\ Kept(floor)' /\ Onward(x) \subseteq Safe'
  <2>1. At(L, m) /\ blocks' = blocks
    BY <1>1, <1>2, <1>8 DEF vars
  <2> QED
    BY <1>1, <2>1, Unmoved DEF Onward, Within, Follows, FloorOK
<1>11. work'.op = "revert" /\ work'.tip = x /\ work'.todo = Above[to + 1] /\ ~work'.reset /\ ~work'.scan
  BY <1>1, <1>4, <1>6, <1>7 DEF Rollback
<1>12. AtWork(L, m)'
  <2>1. job'.op # "unconfirm" /\ Above' = Above /\ phase' = "up" /\ Trail'[to] = x
    BY <1>1, <1>2, <1>6, <1>10 DEF vars, Above
  <2>2. UndoIs(Above[to + 1])'
    BY <1>11, <2>1 DEF UndoIs
  <2>3. Reverting(L)'
    BY <1>9, <1>11, <2>1, <2>2 DEF Reverting
  <2> QED
    BY <2>3 DEF AtWork
<1>13. x = Target'
  BY <1>11 DEF Target
<1> QED
  BY <1>1, <1>3, <1>10, <1>12, <1>13, TakeFrame

LEMMA DropFollows ==
  ASSUME ValidBlocks, WalletInv, Follows, floor' = floor, Drop
  PROVE  Follows'
<1>1. /\ Take /\ UNCHANGED <<vars, main, phase>> /\ UNCHANGED <<sync, hashes>> /\ Linked /\ work' = work
  BY DEF Drop, Follows
<1>2. /\ phase = "up" /\ work = NoWork /\ At(Here, Size(Trail[Here]))
  BY <1>1, Takes
<1>3. PICK x \in Blocks : /\ Moves(Trail[Here], Taken, x) /\ Height[x] \in Safe
                          /\ Leads(x, queue', Tip, Onward(x))
  BY <1>1, Takes
<1>4. /\ Here \in Nat /\ Here \in 0..Here /\ Trail[Here] \in Blocks /\ Height[Trail[Here]] = Here
      /\ Trail[Here] # None /\ Chain(Trail, Here) /\ Parent[Start] = None /\ Trail[0] = Start
  <2>1. Here \in Nat /\ Here \in 0..Here
    BY PlaceFacts
  <2> QED
    BY <1>1, <2>1, LinkFacts DEF ValidBlocks
<1>5. x = Trail[Here]
  <2>1. CASE Taken.type = "connect" /\ ~Fits(Taken.block)
    <3>1. Parent[x] = Trail[Here] /\ Taken.block = x
      BY <1>3, <2>1 DEF Moves
    <3>2. Height[x] = Here + 1
      BY <1>4, <3>1 DEF ValidBlocks
    <3> QED
      BY <2>1, <3>1, <3>2 DEF Fits, Here
  <2>2. CASE Taken.type = "disconnect" /\ ~Removable(Taken.block)
    <3>1. Taken.block = Trail[Here] /\ x = Parent[Trail[Here]]
      BY <1>3, <2>2 DEF Moves
    <3>2. CASE Here = 0
      BY <1>4, <3>1, <3>2, WalletAssumption
    <3>3. CASE Here # 0
      <4>1. Here - 1 \in 0..Here /\ Here > 0
        BY <1>4, <3>3
      <4>2. hashes[Here - 1] # None
        <5>1. Here - 1 \in (Here - 1)..Here /\ Here \in 1..Here
          BY <1>4, <4>1
        <5>2. x = Trail[Here - 1] /\ Height[x] = Here - 1
          BY <1>1, <3>1, <4>1, <5>1, LinkFacts
        <5> QED
          BY <1>3, <5>1, <5>2 DEF Safe, Kept
      <4> QED
        BY <1>4, <2>2, <3>1, <4>1, <4>2 DEF Removable, Here
    <3> QED
      BY <3>2, <3>3
  <2>3. CASE Taken.type = "reset" /\ Height[Taken.block] >= Here
    <3>1. Taken.block = x /\ Before(x, Trail[Here])
      BY <1>3, <2>3 DEF Moves
    <3>2. PICK k \in 0..Here : Trail[k] = x
      BY <1>4, <3>1, BeforeInChain
    <3>3. Height[x] = k
      BY <1>1, <3>2, LinkFacts
    <3>4. k = Here
      BY <1>4, <2>3, <3>1, <3>3
    <3> QED
      BY <3>2, <3>4
  <2>4. CASE Taken.type = "rescan"
    BY <1>3, <2>4 DEF Moves
  <2> QED
    BY <2>1, <2>2, <2>3, <2>4 DEF Drop, Here
<1>6. PICK L, m : L = Here /\ m = Size(Trail[Here])
  OBVIOUS
<1>7. /\ Linked' /\ Here' = Here /\ Trail' = Trail /\ Holds(L, m)' /\ L \in 0..Here'
      /\ m \in 0..Size(Trail'[L]) /\ Kept(floor)' /\ Onward(x) \subseteq Safe'
  <2>1. At(L, m) /\ blocks' = blocks
    BY <1>1, <1>2, <1>6 DEF vars
  <2> QED
    BY <1>1, <2>1, Unmoved DEF Onward, Within, Follows, FloorOK
<1>8. AtWork(L, m)'
  <2>1. Full(L, m)'
    BY <1>1, <1>6, <1>7 DEF Full
  <2>2. Resting(L, m)'
    BY <1>1, <1>2, <2>1 DEF Resting
  <2> QED
    BY <2>2 DEF AtWork
<1>9. x = Target'
  BY <1>1, <1>2, <1>5, <1>7 DEF Target, NoWork
<1> QED
  BY <1>1, <1>3, <1>7, <1>8, <1>9, TakeFrame

LEMMA TakenFollows ==
  ASSUME ValidBlocks, WalletInv, Follows, floor' = floor,
         ConnectBlock \/ AddTX \/ RemoveBlock \/ RollBack \/ StartRescan \/ Drop
  PROVE  Follows'
<1>1. ~StartRescan
  <2>1. SUFFICES ASSUME StartRescan PROVE FALSE
    OBVIOUS
  <2>2. Take /\ Taken.type = "rescan"
    BY <2>1 DEF StartRescan
  <2>3. \E z \in Blocks : Moves(Trail[Here], Taken, z)
    BY <2>2, Takes
  <2> QED
    BY <2>2, <2>3 DEF Moves
<1> QED
  BY <1>1, ConnectBlockFollows, AddTXFollows, RemoveBlockFollows, RollBackFollows, DropFollows

-----------------------------------------------------------------------------
(* The transactions of a block, one at a time.                             *)
LEMMA RestOf ==
  ASSUME NEW S, NEW s \in Seq(S), NEW n \in Nat, n <= Len(s)
  PROVE  LET r == SubSeq(s, n + 1, Len(s))
         IN  /\ r \in Seq(S) /\ Len(r) = Len(s) - n
             /\ r # <<>> <=> n < Len(s)
             /\ r # <<>> => Head(r) = s[n + 1] /\ Tail(r) = SubSeq(s, (n + 1) + 1, Len(s))
<1> DEFINE r == SubSeq(s, n + 1, Len(s))
           N == Len(s)
<1>1. N \in Nat /\ n + 1 \in 1..(N + 1) /\ N \in n..N
  BY LenProperties
<1>2. r \in Seq(S) /\ Len(r) = N - n /\ \A i \in 1..(N - n) : r[i] = s[i + n]
  <2>1. \A i \in (n + 1)..N : s[i] \in S
    BY <1>1, ElementOfSeq
  <2>2. CASE n + 1 <= N
    <3>1. N - (n + 1) + 1 = N - n
      BY <1>1
    <3>2. r \in Seq(S) /\ Len(r) = N - (n + 1) + 1 /\ \A i \in 1..(N - (n + 1) + 1) : r[i] = s[(n + 1) + i - 1]
      BY <1>1, <2>1, <2>2, SubSeqProperties
    <3>3. \A i \in 1..(N - n) : (n + 1) + i - 1 = i + n
      BY <1>1
    <3> QED
      BY <3>1, <3>2, <3>3
  <2>3. CASE ~(n + 1 <= N)
    <3>1. N = n /\ r = <<>>
      BY <1>1, <2>3, SubSeqProperties
    <3> QED
      BY <1>1, <3>1, EmptySeq
  <2> QED
    BY <2>2, <2>3
<1>3. r # <<>> <=> n < N
  <2> HIDE DEF r, N
  <2>1. r = <<>> <=> Len(r) = 0
    BY <1>2, EmptySeq
  <2> QED
    BY <1>1, <1>2, <2>1
<1>4. ASSUME r # <<>> PROVE Head(r) = s[n + 1] /\ Tail(r) = SubSeq(s, (n + 1) + 1, N)
  <2> HIDE DEF r
  <2>1. 1 \in 1..(N - n) /\ 1 + n = n + 1 /\ n + 1 <= N
    BY <1>1, <1>3, <1>4
  <2>2. Head(r) = r[1] /\ Tail(r) \in Seq(S) /\ Len(Tail(r)) = Len(r) - 1
        /\ \A i \in 1..Len(Tail(r)) : Tail(r)[i] = r[i + 1]
    BY <1>2, <1>4, HeadTailProperties
  <2>3. Head(r) = s[n + 1]
    BY <1>2, <2>1, <2>2
  <2> DEFINE q == SubSeq(s, (n + 1) + 1, N)
  <2>4. q \in Seq(S) /\ Len(q) = N - (n + 1) /\ \A i \in 1..(N - (n + 1)) : q[i] = s[i + (n + 1)]
    <3>1. \A i \in ((n + 1) + 1)..N : s[i] \in S
      BY <1>1, ElementOfSeq
    <3>2. CASE (n + 1) + 1 <= N
      <4>1. N - ((n + 1) + 1) + 1 = N - (n + 1)
        BY <1>1
      <4>2. /\ q \in Seq(S) /\ Len(q) = N - ((n + 1) + 1) + 1
            /\ \A i \in 1..(N - ((n + 1) + 1) + 1) : q[i] = s[((n + 1) + 1) + i - 1]
        BY <1>1, <3>1, <3>2, SubSeqProperties
      <4>3. \A i \in 1..(N - (n + 1)) : ((n + 1) + 1) + i - 1 = i + (n + 1)
        BY <1>1
      <4> QED
        BY <4>1, <4>2, <4>3
    <3>3. CASE ~((n + 1) + 1 <= N)
      <4>1. N = n + 1
        BY <1>1, <2>1, <3>3
      <4>2. q = <<>>
        BY <1>1, <3>3, SubSeqProperties
      <4> QED
        BY <1>1, <4>1, <4>2, EmptySeq
    <3> QED
      BY <3>2, <3>3
  <2> HIDE DEF q
  <2>5. \A i \in 1..Len(q) : Tail(r)[i] = q[i]
    <3>1. ASSUME NEW i \in 1..Len(q) PROVE Tail(r)[i] = q[i]
      <4>1. i \in 1..(N - (n + 1)) /\ i + 1 \in 1..(N - n) /\ (i + 1) + n = i + (n + 1)
            /\ i \in 1..Len(Tail(r))
        BY <1>1, <1>2, <2>2, <2>4
      <4>2. r[i + 1] = s[(i + 1) + n]
        BY <1>2, <4>1
      <4> QED
        BY <2>2, <2>4, <4>1, <4>2
    <3> QED
      BY <3>1
  <2>6. Len(Tail(r)) = Len(q)
    BY <1>1, <1>2, <2>2, <2>4
  <2>7. Tail(r) = q
    BY <2>2, <2>4, <2>5, <2>6, SeqEqual
  <2> QED
    BY <2>3, <2>7 DEF q
<1> HIDE DEF r
<1> QED
  BY <1>2, <1>3, <1>4 DEF r

LEMMA QueueStays ==
  ASSUME Follows, UNCHANGED <<main, queue, phase>>,
         phase = "up" => Target' = Target /\ Safe \subseteq Safe', phase # "up" /\ Anchored => Anchored'
  PROVE  QueueOK'
<1>1. QueueOK /\ Tip' = Tip
  BY DEF Follows, Tip
<1>2. CASE phase = "up"
  <2>1. Leads(Target, queue, Tip, Safe')
    BY <1>1, <1>2, LeadsWithin DEF QueueOK
  <2> QED
    BY <1>1, <1>2, <2>1, QueueLeads
<1>3. CASE phase # "up"
  BY <1>1, <1>3 DEF QueueOK
<1> QED
  BY <1>2, <1>3

(* The work goes on at the same block.                                     *)
LEMMA OnFrame ==
  ASSUME WalletInv, Follows, UNCHANGED <<main, queue, phase, sync, hashes, records, alarm>>,
         floor' = floor,
         work'.op = work.op \/ phase # "up" \/ (work.op = "connect" /\ work' = NoWork),
         work.op = "disconnect" => work'.prev = work.prev,
         work.op = "revert" => work'.tip = work.tip,
         JobMatches', NEW L, NEW m, At(L, m), AtWork(L, m)'
  PROVE  Follows'
<1>1. alarm = {} /\ MainOK /\ MarkOK /\ FloorOK /\ phase \in {"down", "opening", "up"}
  BY DEF Follows
<1>2. blocks' = blocks /\ alarm' = {}
  BY <1>1 DEF records
<1>3. /\ Linked' /\ Here' = Here /\ Holds(L, m)' /\ L \in 0..Here' /\ m \in 0..Size(Trail'[L])
      /\ Trail' = Trail /\ Safe' = Safe /\ Kept(floor)' /\ (Anchored => Anchored')
  BY <1>1, <1>2, Unmoved, LinkStays DEF FloorOK
<1>4. phase = "up" => Target' = Target
  BY <1>3 DEF Target, NoWork
<1>5. QueueOK'
  BY <1>3, <1>4, QueueStays
<1>6. MarkOK'
  BY <1>1, <1>2, <1>3 DEF MarkOK
<1> QED
  BY <1>1, <1>2, <1>3, <1>5, <1>6, Rebuilt

(* Where the next transaction comes from.                                  *)
NextIs(m, b, n) ==
  /\ m >= n - 1 /\ Head(work.todo) = BlockTxs[b][n]
  /\ Tail(work.todo) = SubSeq(BlockTxs[b], n + 1, Size(b))

HandsOut(L, m) ==
  \/ work.block = None /\ Connecting(L, m)
  \/ /\ work.block # None /\ L = Here /\ work.block = Trail[L]
     /\ Connecting(L, m) \/ Scanning(L, m)
     /\ \E n \in 1..Size(Trail[L]) : NextIs(m, Trail[L], n)

LEMMA HandOut ==
  ASSUME WalletInv, Follows, Inserts
  PROVE  \E L, m : At(L, m) /\ HandsOut(L, m)
<1>1. work.op \in {"connect", "scan"} /\ work.todo # <<>> /\ job.op = "none" /\ phase # "down"
  BY DEF Inserts, Free, Idle
<1>2. PICK L \in 0..Here : \E m \in 0..Size(Trail[L]) : Holds(L, m) /\ AtWork(L, m)
  BY DEF Follows
<1>3. PICK m \in 0..Size(Trail[L]) : Holds(L, m) /\ AtWork(L, m)
  BY <1>2
<1>4. At(L, m)
  BY <1>3 DEF At, Follows
<1>5. Connecting(L, m) \/ Scanning(L, m)
  BY <1>1, <1>3 DEF AtWork, Resting, Rescanning, RemovingBlock, Reverting, NoWork
<1>6. CASE work.block = None
  BY <1>1, <1>3, <1>4, <1>5, <1>6 DEF Scanning, HandsOut
<1>7. CASE work.block # None
  <2>1. Adding(L, m, work.block)
    BY <1>5, <1>7 DEF Connecting, Scanning
  <2>2. L = Here /\ work.block = Trail[L]
    BY <2>1 DEF Adding
  <2>3. PICK k \in 0..Size(Trail[L]) : Handed(m, Trail[L], k)
    BY <2>1, <2>2 DEF Adding
  <2> DEFINE s == BlockTxs[Trail[L]]
             N == Size(Trail[L])
  <2>4. s \in Seq(Txs) /\ N \in Nat /\ N = Len(s)
    BY <1>4, AtChain, BlockIsSeq DEF Size
  <2>5. work.todo = SubSeq(s, k + 1, N) /\ m >= k
    BY <1>1, <2>3 DEF Handed
  <2> HIDE DEF s, N
  <2>6. k < N /\ Head(work.todo) = s[k + 1] /\ Tail(work.todo) = SubSeq(s, (k + 1) + 1, N)
    BY <1>1, <2>3, <2>4, <2>5, RestOf DEF N
  <2>7. k + 1 \in 1..N /\ m >= (k + 1) - 1
    <3>1. m \in Nat
      BY <1>4, AtChain
    <3> QED
      BY <2>3, <2>4, <2>5, <2>6, <3>1 DEF N
  <2>8. \E n \in 1..N : m >= n - 1 /\ Head(work.todo) = s[n] /\ Tail(work.todo) = SubSeq(s, n + 1, N)
    BY <2>6, <2>7
  <2> QED
    BY <1>3, <1>4, <1>5, <1>7, <2>2, <2>8 DEF s, N, HandsOut, NextIs
<1> QED
  BY <1>6, <1>7

LEMMA TodoFields ==
  ASSUME work \in Work, work.op \in {"connect", "disconnect", "revert", "scan"},
         NEW s, work' = [work EXCEPT !.todo = s]
  PROVE  /\ work'.op = work.op /\ work'.todo = s
         /\ work.op \in {"connect", "scan"} => work'.block = work.block
         /\ work.op = "scan" => work'.rest = work.rest
         /\ work.op = "disconnect" => work'.prev = work.prev
         /\ work.op = "revert" =>
              work'.tip = work.tip /\ work'.reset = work.reset /\ work'.scan = work.scan
<1> DEFINE T == Seq(Txs)
           S == Seq(Blocks)
<1>1. /\ work.op = "connect" => work \in [op : {"connect"}, block : Blocks \cup {None}, todo : T]
      /\ work.op = "disconnect" => work \in [op : {"disconnect"}, prev : Blocks, todo : T]
      /\ work.op = "revert" =>
           work \in [op : {"revert"}, tip : Blocks, todo : T, reset : BOOLEAN, marked : BOOLEAN, scan : BOOLEAN]
      /\ work.op = "scan" => work \in [op : {"scan"}, block : Blocks \cup {None}, todo : T, rest : S]
  BY WorkFields DEF ConnectWork, DisconnectWork, RevertWork, ScanWork
<1> HIDE DEF T, S
<1>2. CASE work.op = "connect"
  BY <1>1, <1>2
<1>3. CASE work.op = "disconnect"
  BY <1>1, <1>3
<1>4. CASE work.op = "revert"
  BY <1>1, <1>4
<1>5. CASE work.op = "scan"
  BY <1>1, <1>5
<1> QED
  BY <1>2, <1>3, <1>4, <1>5

(* The next transaction of the block is handed out, or passed over.        *)
LEMMA HandedOn ==
  ASSUME WalletInv, UNCHANGED <<main, phase, sync, hashes>>, NextTodo,
         NEW L, NEW m, At(L, m), Connecting(L, m) \/ Scanning(L, m),
         work.block # None, L = Here, work.block = Trail[L], NEW n \in 1..Size(Trail[L]),
         Tail(work.todo) = SubSeq(BlockTxs[Trail[L]], n + 1, Size(Trail[L])), NEW r,
         \/ job'.op # "add" /\ r >= n
         \/ /\ job'.op = "add" /\ job'.tx = BlockTxs[Trail[L]][n] /\ job'.height = Here
            /\ sync.marked /\ r >= n - 1
  PROVE  AtWork(L, r)'
<1>1. work \in Work /\ work.op \in {"connect", "scan"}
  BY DEF WalletInv, WalletOK, Connecting, Scanning
<1>2. /\ work'.op = work.op /\ work'.todo = Tail(work.todo) /\ work'.block = work.block
      /\ work.op = "scan" => work'.rest = work.rest
  BY <1>1, TodoFields DEF NextTodo
<1>3. Here' = Here /\ Trail' = Trail /\ main' = main /\ phase' = phase /\ sync' = sync
  BY LinkStays
<1>4. Size(Trail[L]) \in Nat
  BY AtChain
<1>5. Handed(r, Trail[L], n)'
  BY <1>2, <1>3, <1>4 DEF Handed
<1>6. Adding(L, r, work.block)'
  BY <1>2, <1>3, <1>4, <1>5 DEF Adding
<1>7. Connecting(L, r)' \/ Scanning(L, r)'
  BY <1>1, <1>2, <1>3, <1>6 DEF Connecting, Scanning
<1> QED
  BY <1>7 DEF AtWork

LEMMA SkipFollows ==
  ASSUME ValidBlocks, StartsEarly, WalletInv, Follows, floor' = floor, Skip
  PROVE  Follows'
<1>1. /\ Inserts /\ ~Relevant(Head(work.todo)) /\ NextTodo /\ UNCHANGED vars
      /\ UNCHANGED <<main, queue, phase, sync, hashes>> /\ JobMatches
  BY DEF Skip, Follows
<1>2. /\ work.op \in {"connect", "scan"} /\ job.op = "none" /\ job'.op = "none" /\ phase # "down"
      /\ UNCHANGED <<records, alarm>>
  BY <1>1 DEF Inserts, Free, Idle, vars, records
<1>3. /\ work'.op = work.op /\ work'.todo = Tail(work.todo) /\ work'.block = work.block
      /\ work.op = "scan" => work'.rest = work.rest
  BY <1>1, <1>2, TodoFields DEF NextTodo, WalletInv, WalletOK
<1>4. JobMatches'
  BY <1>1, <1>2 DEF JobMatches, Underway
<1>5. \E L, m : At(L, m) /\ HandsOut(L, m)
  BY <1>1, HandOut
<1>6. PICK L, m : At(L, m) /\ HandsOut(L, m)
  BY <1>5
<1>7. \E r : At(L, r) /\ AtWork(L, r)'
  <2>1. CASE work.block = None /\ Connecting(L, m)
    <3>1. Full(L, m)'
      BY <1>1, <2>1, LinkStays DEF Connecting, Full
    <3>2. Connecting(L, m)'
      BY <1>1, <1>2, <1>3, <2>1, <3>1 DEF Connecting
    <3> QED
      BY <1>6, <3>2 DEF AtWork
  <2>2. CASE /\ work.block # None /\ L = Here /\ work.block = Trail[L]
             /\ Connecting(L, m) \/ Scanning(L, m)
             /\ \E n \in 1..Size(Trail[L]) : NextIs(m, Trail[L], n)
    <3>1. PICK n \in 1..Size(Trail[L]) : NextIs(m, Trail[L], n)
      BY <2>2
    <3>a. /\ m >= n - 1 /\ Head(work.todo) = BlockTxs[Trail[L]][n]
          /\ Tail(work.todo) = SubSeq(BlockTxs[Trail[L]], n + 1, Size(Trail[L]))
      BY <3>1 DEF NextIs
    <3>2. PICK t : t = BlockTxs[Trail[L]][n]
      OBVIOUS
    <3>3. /\ t \in Confirmed <=> RelevantTo(t) /\ m >= n
          /\ t \notin Confirmed /\ RelevantTo(t) => m = n - 1 /\ Relevant(t)
      BY <1>6, <3>a, <3>2, NextFits
    <3>4. m \in Nat /\ Size(Trail[L]) \in Nat
      BY <1>6, AtChain
    <3>5. \E r : At(L, r) /\ r >= n
      <4>1. CASE m >= n
        BY <1>6, <4>1
      <4>2. CASE ~(m >= n)
        <5>1. m = n - 1 /\ n - 1 \in Nat /\ n >= n
          BY <3>a, <3>4, <4>2
        <5>2. ~RelevantTo(t)
          BY <1>1, <3>a, <3>2, <3>3, <4>2
        <5>3. At(L, n)
          BY <1>6, <3>2, <5>1, <5>2, Passed
        <5> QED
          BY <5>1, <5>3
      <4> QED
        BY <4>1, <4>2
    <3>6. PICK r : At(L, r) /\ r >= n
      BY <3>5
    <3>7. AtWork(L, r)'
      BY <1>1, <1>2, <1>6, <2>2, <3>a, <3>6, HandedOn
    <3> QED
      BY <3>6, <3>7
  <2> QED
    BY <1>6, <2>1, <2>2 DEF HandsOut
<1>8. PICK r : At(L, r) /\ AtWork(L, r)'
  BY <1>7
<1> QED
  BY <1>1, <1>2, <1>3, <1>4, <1>8, OnFrame

LEMMA MaybeMarkFollows ==
  ASSUME WalletInv, Follows, floor' = floor, MaybeMark
  PROVE  Follows'
<1>1. /\ Inserts /\ work.block # None /\ ~sync.marked /\ ResetState(work.block, TRUE)
      /\ UNCHANGED vars /\ UNCHANGED <<main, queue, phase, work>>
      /\ JobMatches /\ MarkOK /\ alarm = {} /\ MainOK /\ Linked
  BY DEF MaybeMark, MustMark, Follows
<1>2. job.op = "none" /\ phase \notin {"up", "down"} /\ Here = 0
  BY <1>1 DEF Inserts, Free, Idle, MarkOK
<1>3. PICK L, m : At(L, m) /\ HandsOut(L, m)
  BY <1>1, HandOut
<1>4. L = 0 /\ work.block = Trail[0] /\ Scanning(L, m)
  BY <1>1, <1>2, <1>3 DEF HandsOut, Connecting
<1>5. work.block = Start /\ Start \in Blocks /\ Height[Start] = 0 /\ MaxHeight \in Nat
  BY <1>1, <1>4, LinkFacts, PlaceFacts, WalletAssumption
<1>6. /\ hashes' = [k \in Heights |-> IF k = 0 THEN Start ELSE None]
      /\ sync' = [height |-> 0, marked |-> TRUE, startHeight |-> 0, start |-> Start]
  BY <1>1, <1>5 DEF ResetState
<1>7. hashes'[0] = Start /\ Trail[0] = Start /\ Start # None
  BY <1>1, <1>4, <1>5, <1>6, WalletAssumption DEF Heights
<1>8. Here' = 0 /\ sync'.marked /\ sync'.startHeight = 0 /\ sync'.start = Start
  BY <1>6 DEF Here
<1>9. Linked' /\ Trail'[0] = Start
  <2>1. Chain(Trail, 0) /\ 0 \in Nat /\ 0 \in 0..0
    BY <1>1, <1>2 DEF Linked
  <2>2. \A k \in 0..(0 - 1) : hashes'[k] \in {Trail[k], None}
    OBVIOUS
  <2> QED
    BY <1>1, <1>7, <1>8, <2>1, <2>2, LinkMoves
<1>10. Holds(L, m)'
  <2>1. \A k \in 0..L : Trail'[k] = Trail[k]
    BY <1>4, <1>7, <1>9
  <2>2. blocks' = blocks /\ L \in Nat /\ Holds(L, m)
    BY <1>1, <1>3, <1>4 DEF vars, At
  <2> QED
    BY <2>1, <2>2, HoldsStay
<1>11. AtWork(L, m)'
  <2>1. Adding(L, m, work.block) /\ work.op = "scan" /\ phase = "opening"
        /\ Here + 1 <= Len(main) /\ Trail[Here] = main[Here + 1]
        /\ work.rest = SubSeq(main, Here + 2, Len(main))
    BY <1>1, <1>4 DEF Scanning
  <2>2. PICK n \in 0..Size(Start) : Handed(m, Start, n)
    BY <1>5, <2>1 DEF Adding
  <2>3. Handed(m, Start, n)'
    BY <1>1, <1>2, <2>2 DEF Handed, vars
  <2>4. Adding(L, m, Start)'
    BY <1>4, <1>7, <1>8, <1>9, <2>2, <2>3 DEF Adding
  <2>5. Scanning(L, m)'
    BY <1>1, <1>2, <1>5, <1>7, <1>8, <1>9, <2>1, <2>4 DEF Scanning
  <2> QED
    BY <2>5 DEF AtWork
<1>12. QueueOK' /\ Kept(floor)' /\ FloorOK
  <2>1. \A h \in Nat : \A k \in h..0 : k = 0
    OBVIOUS
  <2>2. floor \in Nat /\ FloorOK
    BY DEF Follows, FloorOK
  <2>3. Kept(floor)' /\ \A k \in 0..0 : hashes'[k] # None
    BY <1>7, <1>8, <2>1, <2>2 DEF Kept
  <2>4. OnMain(Trail'[0])
    BY <1>1, <1>9, MainFacts, PlaceFacts
  <2>5. Anchored'
    BY <1>1, <1>8, <2>3, <2>4 DEF Anchored, OnMain, Kept
  <2> QED
    BY <1>1, <1>2, <2>2, <2>3, <2>5, QueueStays
<1>13. JobMatches' /\ MarkOK' /\ alarm' = {}
  BY <1>1, <1>2, <1>8 DEF JobMatches, MarkOK, Underway, vars
<1>14. L \in 0..Here' /\ m \in 0..Size(Trail'[L]) /\ phase' \in {"down", "opening", "up"}
  <2>1. phase \in {"down", "opening", "up"} /\ m \in 0..Size(Trail[L])
    BY <1>3 DEF Follows, At
  <2> QED
    BY <1>1, <1>4, <1>7, <1>8, <1>9, <2>1
<1> QED
  BY <1>1, <1>9, <1>10, <1>11, <1>12, <1>13, <1>14, Rebuilt

(* What an insertion is to remove is not confirmed.                        *)
LEMMA ConflictsLoose ==
  ASSUME WalletInv, HeightInv, NEW t \in Txs, NEW h, Removes(t, h), NEW r \in Conflicts(t),
         h # Unconfirmed /\ t \notin Confirmed => \A u \in Confirmed : In(u) \cap In(t) = {}
  PROVE  r[2].height = Unconfirmed /\ RelevantTo(r[2].tx)
<1> USE Sentinels
<1>1. PICK i \in DOMAIN Inputs[t] :
        /\ spender[Inputs[t][i]] \notin {None, t}
        /\ r = <<i, [tx |-> spender[Inputs[t][i]], height |-> rec[spender[Inputs[t][i]]]]>>
  BY DEF Conflicts
<1>2. PICK o, u : o = Inputs[t][i] /\ u = spender[o]
  OBVIOUS
<1>3. r[2].tx = u /\ r[2].height = rec[u] /\ u # None
  BY <1>1, <1>2
<1>4. o \in In(t) /\ o \in Outs
  <2>1. o \in In(t)
    BY <1>1, <1>2 DEF In, Range
  <2> QED
    BY <2>1, NotOwn
<1>5. u \in Txs /\ o \in In(u) /\ rec[u] # None /\ rec[u] \in Heights \cup {Unconfirmed}
  BY <1>2, <1>3, <1>4 DEF WalletInv, Records, RecordTypes, Spends
<1>6. RelevantTo(u)
  BY <1>5 DEF HeightInv, OwnKnown
<1>7. rec[u] = Unconfirmed
  <2>1. CASE h = Unconfirmed
    BY <1>3, <2>1 DEF Removes, ConfirmedConflict
  <2>2. CASE h # Unconfirmed
    <3>1. t \notin Confirmed
      BY DEF Removes, Confirmed
    <3>2. u \notin Confirmed
      BY <1>4, <1>5, <2>2, <3>1
    <3> QED
      BY <1>5, <3>2 DEF Confirmed
  <2> QED
    BY <2>1, <2>2
<1> QED
  BY <1>3, <1>6, <1>7

LEMMA InsertFollows ==
  ASSUME ValidBlocks, StartsEarly, WalletInv, HeightInv, Follows, floor' = floor, Insert
  PROVE  Follows'
<1> USE Sentinels
<1>1. /\ Inserts /\ Relevant(Head(work.todo)) /\ ~MustMark /\ NextTodo
      /\ Add(Head(work.todo), HeightIn(work.block), FALSE)
      /\ UNCHANGED <<main, queue, phase, sync, hashes>> /\ JobMatches /\ Linked
  BY DEF Insert, Follows
<1>2. PICK t, h : t = Head(work.todo) /\ h = HeightIn(work.block)
  OBVIOUS
<1>3. /\ work.op \in {"connect", "scan"} /\ work.todo # <<>> /\ job.op = "none" /\ phase # "down"
      /\ UNCHANGED <<records, state, alarm>>
      /\ job' = NewJob("add", t, h, IF Removes(t, h) THEN Conflicts(t) ELSE {}, FALSE)
  BY <1>1, <1>2 DEF Inserts, Free, Idle, Add
<1>4. /\ work'.op = work.op /\ work'.todo = Tail(work.todo) /\ work'.block = work.block
      /\ work.op = "scan" => work'.rest = work.rest
  BY <1>1, <1>3, TodoFields DEF NextTodo, WalletInv, WalletOK
<1>5. t \in Txs /\ h \in Heights \cup {Unconfirmed} /\ RelevantTo(t)
  <2>1. work \in Work /\ work.todo \in Seq(Txs)
    BY <1>3, TodoEdits DEF WalletInv, WalletOK
  <2>2. t \in Txs
    BY <1>2, <1>3, <2>1, HeadTailProperties
  <2>3. work.block \in Blocks \cup {None}
    <3>1. work \in ConnectWork \/ work \in ScanWork
      BY <1>3, <2>1, WorkFields
    <3> DEFINE T == Seq(Txs)
               S == Seq(Blocks)
    <3>2. \/ work \in [op : {"connect"}, block : Blocks \cup {None}, todo : T]
          \/ work \in [op : {"scan"}, block : Blocks \cup {None}, todo : T, rest : S]
      BY <3>1 DEF ConnectWork, ScanWork
    <3> HIDE DEF T, S
    <3> QED
      BY <3>2
  <2>4. h \in Heights \cup {Unconfirmed}
    BY <1>2, <2>3, WalletAssumption DEF HeightIn
  <2>5. RelevantTo(t)
    BY <1>1, <1>2, <2>2, RelevantIs
  <2> QED
    BY <2>2, <2>4, <2>5
<1>6. PICK L, m : At(L, m) /\ HandsOut(L, m)
  BY <1>1, HandOut
<1> DEFINE roots == IF Removes(t, h) THEN Conflicts(t) ELSE {}
           j == [op |-> "add", user |-> FALSE, tx |-> t, height |-> h, roots |-> roots, path |-> <<>>]
<1>7. job' = Removing(j)
  BY <1>3 DEF NewJob
<1>8. h # Unconfirmed /\ t \notin Confirmed => \A u \in Confirmed : In(u) \cap In(t) = {}
  <2>1. SUFFICES ASSUME h # Unconfirmed, t \notin Confirmed PROVE \A u \in Confirmed : In(u) \cap In(t) = {}
    OBVIOUS
  <2>2. work.block # None
    BY <1>2, <2>1 DEF HeightIn
  <2>3. PICK n \in 1..Size(Trail[L]) : NextIs(m, Trail[L], n)
    BY <1>6, <2>2 DEF HandsOut
  <2>4. m >= n - 1 /\ t = BlockTxs[Trail[L]][n]
    BY <1>2, <2>3 DEF NextIs
  <2> QED
    BY <1>5, <1>6, <2>1, <2>4, NextFits
<1>9. j \in Job
  <2>1. roots \in SUBSET (Nat \X Wtx)
    <3>1. ASSUME NEW r \in Conflicts(t) PROVE r \in Nat \X Wtx
      <4>1. PICK i \in DOMAIN Inputs[t] :
              /\ spender[Inputs[t][i]] \notin {None, t}
              /\ r = <<i, [tx |-> spender[Inputs[t][i]], height |-> rec[spender[Inputs[t][i]]]]>>
        BY DEF Conflicts
      <4>2. PICK o, u : o = Inputs[t][i] /\ u = spender[o]
        OBVIOUS
      <4>3. i \in Nat /\ o \in Outs
        <5>1. o \in In(t)
          BY <4>1, <4>2 DEF In, Range
        <5>2. Inputs[t] \in Seq(Outs)
          BY <1>5, TXAssumption
        <5> QED
          BY <1>5, <5>1, <5>2, NotOwn, LenProperties
      <4>4. u \in Txs /\ rec[u] \in Heights \cup {Unconfirmed}
        BY <4>1, <4>2, <4>3 DEF WalletInv, Records, RecordTypes, Spends
      <4>5. r = <<i, [tx |-> u, height |-> rec[u]]>>
        BY <4>1, <4>2
      <4> QED
        BY <4>3, <4>4, <4>5 DEF Wtx
    <3> QED
      BY <3>1
  <2>2. <<>> \in Seq(Wtx)
    BY EmptySeq
  <2> HIDE DEF roots
  <2> QED
    BY <1>5, <2>1, <2>2 DEF Job
<1>10. /\ job'.op = "add" /\ job'.tx = t /\ job'.height = h /\ Pend(job') = Pend(j)
  <2> HIDE DEF roots
  <2>1. j.op = "add" /\ j.tx = t /\ j.height = h
    OBVIOUS
  <2> HIDE DEF j
  <2> QED
    BY <1>7, <1>9, <2>1, RemovingKeeps
<1>11. Pend(j) = {r[2] : r \in roots}
  BY DEF Pend, Range
<1>12. \A w \in Pend(job)' : w.height = Unconfirmed /\ RelevantTo(w.tx)
  <2>1. Pend(job)' = Pend(j)
    BY <1>10 DEF Pend
  <2>2. \A r \in roots : r[2].height = Unconfirmed /\ RelevantTo(r[2].tx)
    BY <1>5, <1>8, ConflictsLoose
  <2> HIDE DEF roots, j
  <2> QED
    BY <1>11, <2>1, <2>2
<1> HIDE DEF roots, j
<1>13. JobMatches'
  BY <1>1, <1>3, <1>4, <1>10, <1>12 DEF JobMatches, RelevantTo
<1>14. AtWork(L, m)'
  <2>1. CASE work.block = None /\ Connecting(L, m)
    <3>1. Full(L, m)'
      BY <1>1, <2>1, LinkStays DEF Connecting, Full
    <3>2. Connecting(L, m)'
      BY <1>1, <1>2, <1>4, <1>10, <2>1, <3>1 DEF Connecting, HeightIn
    <3> QED
      BY <3>2 DEF AtWork
  <2>2. CASE /\ work.block # None /\ L = Here /\ work.block = Trail[L]
             /\ Connecting(L, m) \/ Scanning(L, m)
             /\ \E n \in 1..Size(Trail[L]) : NextIs(m, Trail[L], n)
    <3>1. PICK n \in 1..Size(Trail[L]) : NextIs(m, Trail[L], n)
      BY <2>2
    <3>2. /\ m >= n - 1 /\ t = BlockTxs[Trail[L]][n]
          /\ Tail(work.todo) = SubSeq(BlockTxs[Trail[L]], n + 1, Size(Trail[L]))
      BY <1>2, <3>1 DEF NextIs
    <3>3. sync.marked /\ h = Here'
      <4>1. Height[Trail[L]] = Here /\ Here' = Here
        BY <1>1, <1>6, <2>2, AtChain DEF Here
      <4> QED
        BY <1>1, <1>2, <2>2, <4>1 DEF MustMark, HeightIn
    <3>4. job'.height = Here
      BY <1>1, <1>10, <3>3 DEF Here
    <3> QED
      BY <1>1, <1>6, <1>10, <2>2, <3>2, <3>3, <3>4, HandedOn
  <2> QED
    BY <1>6, <2>1, <2>2 DEF HandsOut
<1> QED
  BY <1>1, <1>3, <1>4, <1>6, <1>13, <1>14, OnFrame

LEMMA UnconfirmFollows ==
  ASSUME WalletInv, Follows, floor' = floor, UnconfirmNext
  PROVE  Follows'
<1>1. /\ work.op \in {"disconnect", "revert"} /\ work.todo # <<>> /\ job.op = "none" /\ phase # "down"
      /\ NextTodo /\ Unconfirm(Head(work.todo)) /\ UNCHANGED <<records, state, alarm>>
      /\ UNCHANGED <<main, queue, phase, sync, hashes>> /\ JobMatches
  BY DEF UnconfirmNext, Free, Idle, Unconfirm, Follows
<1>2. PICK t : t = Head(work.todo)
  OBVIOUS
<1>3. /\ work'.op = work.op /\ work'.todo = Tail(work.todo)
      /\ work.op = "disconnect" => work'.prev = work.prev
      /\ work.op = "revert" =>
           work'.tip = work.tip /\ work'.reset = work.reset /\ work'.scan = work.scan
  BY <1>1, TodoFields DEF NextTodo, WalletInv, WalletOK
<1>4. job'.op = "unconfirm" /\ job'.tx = t /\ Pend(job)' = {}
  <2> DEFINE j == [op |-> "unconfirm", user |-> FALSE, tx |-> t, height |-> Unconfirmed,
                   roots |-> {}, path |-> <<>>]
  <2>1. job' = j
    BY <1>1, <1>2 DEF Unconfirm, NewJob, Removing
  <2>2. Pend(j) = {}
    BY DEF Pend, Range
  <2> QED
    BY <2>1, <2>2 DEF Pend
<1>5. JobMatches'
  BY <1>1, <1>3, <1>4 DEF JobMatches
<1>6. PICK L \in 0..Here : \E m \in 0..Size(Trail[L]) : Holds(L, m) /\ AtWork(L, m)
  BY DEF Follows
<1>7. PICK m \in 0..Size(Trail[L]) : Holds(L, m) /\ AtWork(L, m)
  BY <1>6
<1>8. At(L, m)
  BY <1>7 DEF At, Follows
<1>9. /\ Above' = Above /\ Here' = Here /\ Trail' = Trail /\ phase' = phase
      /\ \A b : OnMain(b)' <=> OnMain(b)
  BY <1>1, LinkStays DEF Above, records, OnMain
<1>10. ASSUME NEW h, UndoIs(Above[h]) PROVE UndoIs(Above[h])'
  BY <1>1, <1>2, <1>3, <1>4, <1>9, <1>10 DEF UndoIs
<1>11. AtWork(L, m)'
  <2>1. RemovingBlock(L) \/ Reverting(L)
    BY <1>1, <1>7 DEF AtWork, Resting, Rescanning, Connecting, Scanning, NoWork
  <2>2. RemovingBlock(L) => RemovingBlock(L)'
    BY <1>3, <1>9, <1>10 DEF RemovingBlock
  <2>3. Reverting(L) => Reverting(L)'
    BY <1>3, <1>9, <1>10 DEF Reverting
  <2> QED
    BY <2>1, <2>2, <2>3 DEF AtWork
<1> QED
  BY <1>1, <1>3, <1>5, <1>8, <1>11, OnFrame

(* All of a block's transactions have been handed out.                     *)
LEMMA AllAdded ==
  ASSUME WalletInv, NEW L, NEW m, At(L, m), Adding(L, m, Trail[L]), work.todo = <<>>, job.op # "add"
  PROVE  Full(L, m)
<1>1. PICK n \in 0..Size(Trail[L]) : Handed(m, Trail[L], n)
  BY DEF Adding
<1>2. L = Here /\ work.todo = SubSeq(BlockTxs[Trail[L]], n + 1, Size(Trail[L])) /\ m >= n
  BY <1>1 DEF Adding, Handed
<1>3. /\ BlockTxs[Trail[L]] \in Seq(Txs) /\ Size(Trail[L]) \in Nat
      /\ Size(Trail[L]) = Len(BlockTxs[Trail[L]]) /\ m \in 0..Size(Trail[L])
  BY AtChain, BlockIsSeq DEF Size
<1> DEFINE s == BlockTxs[Trail[L]]
           N == Size(Trail[L])
<1> HIDE DEF s, N
<1>4. s \in Seq(Txs) /\ N \in Nat /\ N = Len(s) /\ n \in 0..N /\ m \in 0..N /\ m >= n
      /\ SubSeq(s, n + 1, N) = <<>>
  BY <1>1, <1>2, <1>3 DEF s, N
<1>5. ~(n < N)
  BY <1>4, RestOf
<1>6. m = N
  BY <1>4, <1>5
<1> QED
  BY <1>2, <1>6 DEF Full, N

LEMMA ConnectedFollows ==
  ASSUME WalletInv, Follows, floor' = floor, Connected
  PROVE  Follows'
<1>1. /\ job.op = "none" /\ phase # "down" /\ work.op = "connect" /\ work.todo = <<>> /\ work' = NoWork
      /\ UNCHANGED vars /\ UNCHANGED <<main, queue, phase, sync, hashes>> /\ JobMatches
  BY DEF Connected, Finished, Free, Idle, Follows
<1>2. PICK L \in 0..Here : \E m \in 0..Size(Trail[L]) : Holds(L, m) /\ AtWork(L, m)
  BY DEF Follows
<1>3. PICK m \in 0..Size(Trail[L]) : Holds(L, m) /\ AtWork(L, m)
  BY <1>2
<1>4. At(L, m)
  BY <1>3 DEF At, Follows
<1>5. Connecting(L, m)
  BY <1>1, <1>3 DEF AtWork, Resting, Rescanning, Scanning, RemovingBlock, Reverting, NoWork
<1>6. Full(L, m)
  <2>1. CASE work.block = None
    BY <1>5, <2>1 DEF Connecting
  <2>2. CASE work.block # None
    <3>1. Adding(L, m, Trail[L])
      BY <1>5, <2>2 DEF Connecting, Adding
    <3> QED
      BY <1>1, <1>4, <3>1, AllAdded
  <2> QED
    BY <2>1, <2>2
<1>7. Full(L, m)' /\ phase' = "up" /\ job'.op = "none" /\ UNCHANGED <<records, alarm>>
  BY <1>1, <1>5, <1>6, LinkStays DEF Full, Connecting, vars, records
<1>8. AtWork(L, m)'
  <2>1. Resting(L, m)'
    BY <1>1, <1>7 DEF Resting
  <2> QED
    BY <2>1 DEF AtWork
<1>9. JobMatches'
  BY <1>1, <1>7 DEF JobMatches, Underway
<1> QED
  BY <1>1, <1>4, <1>7, <1>8, <1>9, OnFrame

(* The wallet goes down, all above the new block taken back.               *)
LEMMA HoldsDown ==
  ASSUME WalletInv, NEW L, NEW m, At(L, m), blocks' = blocks, NEW h \in 0..(L - 1),
         \A k \in (h + 1)..MaxHeight : blocks[k] = <<>>,
         \A k \in 0..h : Trail'[k] = Trail[k], NEW r, r = Size(Trail[h])
  PROVE  Holds(h, r)'
<1>1. L \in Nat /\ h \in Nat
  BY AtChain
<1>2. h \in 0..h /\ \A k \in 0..(h - 1) : k \in 0..(L - 1) /\ k \in 0..h
  BY <1>1
<1>3. \A k \in 0..(h - 1) : ListsFirst(blocks'[k], Trail'[k], Size(Trail'[k]))
  BY <1>2 DEF At, Holds
<1>4. ListsFirst(blocks'[h], Trail'[h], r)
  BY <1>2 DEF At, Holds
<1> QED
  BY <1>3, <1>4 DEF Holds, ListsFirst, RelevantTo

LEMMA RemovedFollows ==
  ASSUME WalletInv, Follows, floor' = floor, Disconnected
  PROVE  Follows'
<1>1. /\ job.op = "none" /\ phase # "down" /\ work.op = "disconnect" /\ work.todo = <<>> /\ work' = NoWork
      /\ SyncState(work.prev) /\ UNCHANGED vars /\ UNCHANGED <<main, queue, phase>>
      /\ JobMatches /\ Linked /\ MarkOK /\ alarm = {} /\ MainOK
  BY DEF Disconnected, Finished, Free, Idle, Follows
<1>2. PICK L \in 0..Here : \E m \in 0..Size(Trail[L]) : Holds(L, m) /\ AtWork(L, m)
  BY DEF Follows
<1>3. PICK m \in 0..Size(Trail[L]) : Holds(L, m) /\ AtWork(L, m)
  BY <1>2
<1>4. At(L, m) /\ L \in Nat /\ Here \in Nat /\ MaxHeight \in Nat /\ Here <= MaxHeight
  <2>1. At(L, m)
    BY <1>3 DEF At, Follows
  <2>2. Here \in 0..MaxHeight /\ MaxHeight \in Nat
    BY PlaceFacts
  <2> QED
    BY <2>1, <2>2, AtChain
<1>5. RemovingBlock(L)
  BY <1>1, <1>3 DEF AtWork, Resting, Rescanning, Scanning, Connecting, Reverting, NoWork
<1>6. phase = "up" /\ L = Here /\ L >= 1 /\ work.prev = Trail[L - 1] /\ Above[L] = <<>>
  BY <1>1, <1>5 DEF RemovingBlock, UndoIs
<1>7. PICK h \in 0..(L - 1) : h = L - 1
  BY <1>4, <1>6
<1>8. h \in 0..Here /\ h + 1 = L /\ h \in Nat /\ L \in 0..MaxHeight
  BY <1>4, <1>6, <1>7
<1>9. \A k \in (h + 1)..MaxHeight : blocks[k] = <<>>
  BY <1>6, <1>8, NoneLeft
<1>10. /\ Linked' /\ Here' = h /\ sync'.marked = sync.marked /\ \A k \in 0..h : Trail'[k] = Trail[k]
       /\ \A k \in Nat : Kept(k) => Kept(k)'
  BY <1>1, <1>6, <1>7, <1>8, SyncDown
<1>11. Trail'[h] = Trail[h] /\ Trail[h] \in Blocks
  BY <1>1, <1>8, <1>10, LinkFacts
<1>12. PICK r : r = Size(Trail[h])
  OBVIOUS
<1>13. Holds(h, r)'
  <2>1. blocks' = blocks
    BY <1>1 DEF vars
  <2> QED
    BY <1>4, <1>9, <1>10, <1>12, <2>1, HoldsDown
<1>14. AtWork(h, r)'
  <2>1. Full(h, r)'
    BY <1>10, <1>11, <1>12 DEF Full
  <2>2. Resting(h, r)'
    BY <1>1, <1>6, <2>1 DEF Resting
  <2> QED
    BY <2>2 DEF AtWork
<1>a. FloorOK /\ Kept(floor)' /\ Safe \subseteq Safe'
  <2>1. FloorOK /\ floor \in Nat /\ Kept(floor)
    BY DEF Follows, FloorOK
  <2> QED
    BY <1>10, <2>1 DEF Safe
<1>15. QueueOK'
  <2>1. Target' = Target
    BY <1>1, <1>6, <1>7, <1>10, <1>11 DEF Target, NoWork
  <2> QED
    BY <1>1, <1>6, <1>a, <2>1, QueueStays
<1>16. JobMatches' /\ MarkOK' /\ alarm' = {} /\ phase' = "up"
  BY <1>1, <1>6, <1>10 DEF JobMatches, MarkOK, Underway, vars
<1>17. h \in 0..Here' /\ r \in 0..Size(Trail'[h])
  <2>1. Size(Trail[h]) \in Nat
    BY <1>11, BlockIsSeq
  <2> QED
    BY <1>8, <1>10, <1>11, <1>12, <2>1
<1> QED
  BY <1>1, <1>10, <1>13, <1>14, <1>a, <1>15, <1>16, <1>17, Rebuilt

LEMMA RevertedFollows ==
  ASSUME WalletInv, Follows, floor' = floor, Reverted
  PROVE  Follows'
<1>1. /\ job.op = "none" /\ phase # "down" /\ work.op = "revert" /\ work.todo = <<>>
      /\ IF work.reset THEN ResetState(work.tip, work.marked) ELSE SyncState(work.tip)
      /\ work' = IF work.scan THEN [op |-> "rescan"] ELSE NoWork
      /\ UNCHANGED vars /\ UNCHANGED <<main, queue, phase>>
      /\ JobMatches /\ Linked /\ MarkOK /\ alarm = {} /\ MainOK /\ phase \in {"down", "opening", "up"}
  BY DEF Reverted, Finished, Free, Idle, Follows
<1>2. PICK L \in 0..Here : \E m \in 0..Size(Trail[L]) : Holds(L, m) /\ AtWork(L, m)
  BY DEF Follows
<1>3. PICK m \in 0..Size(Trail[L]) : Holds(L, m) /\ AtWork(L, m)
  BY <1>2
<1>4. At(L, m) /\ L \in Nat /\ Here \in Nat /\ MaxHeight \in Nat /\ Here <= MaxHeight
  <2>1. At(L, m)
    BY <1>3 DEF At, Follows
  <2>2. Here \in 0..MaxHeight /\ MaxHeight \in Nat
    BY PlaceFacts
  <2> QED
    BY <2>1, <2>2, AtChain
<1>5. Reverting(L)
  BY <1>1, <1>3 DEF AtWork, Resting, Rescanning, Scanning, Connecting, RemovingBlock, NoWork
<1>6. PICK h \in 0..(L - 1) :
       /\ work.tip = Trail[h] /\ UndoIs(Above[h + 1])
       /\ phase = "up" => ~work.scan
       /\ phase = "opening" => /\ work.scan /\ OnMain(Trail[h])
                               /\ \A k \in (h + 1)..Here : ~OnMain(Trail[k])
  BY <1>5 DEF Reverting
<1>7. ~work.reset /\ Above[h + 1] = <<>>
  BY <1>1, <1>5, <1>6 DEF Reverting, UndoIs
<1>8. h \in 0..Here /\ h \in Nat /\ h + 1 \in 0..MaxHeight
  BY <1>4
<1>9. \A k \in (h + 1)..MaxHeight : blocks[k] = <<>>
  BY <1>7, <1>8, NoneLeft
<1>10. /\ Linked' /\ Here' = h /\ sync'.marked = sync.marked /\ \A k \in 0..h : Trail'[k] = Trail[k]
       /\ \A k \in Nat : Kept(k) => Kept(k)'
  BY <1>1, <1>6, <1>7, <1>8, SyncDown
<1>11. Trail'[h] = Trail[h] /\ Trail[h] \in Blocks
  BY <1>1, <1>8, <1>10, LinkFacts
<1>12. PICK r : r = Size(Trail[h])
  OBVIOUS
<1>13. Holds(h, r)'
  <2>1. blocks' = blocks
    BY <1>1 DEF vars
  <2> QED
    BY <1>4, <1>9, <1>10, <1>12, <2>1, HoldsDown
<1>14. AtWork(h, r)'
  <2>1. CASE phase = "up"
    <3>1. Full(h, r)'
      BY <1>10, <1>11, <1>12 DEF Full
    <3>2. Resting(h, r)'
      BY <1>1, <1>6, <2>1, <3>1 DEF Resting
    <3> QED
      BY <3>2 DEF AtWork
  <2>2. CASE phase = "opening"
    <3>1. OnMain(Trail[Here])' /\ work'.op = "rescan"
      BY <1>1, <1>6, <1>10, <1>11, <2>2 DEF OnMain
    <3>2. Rescanning(h)'
      BY <1>1, <1>10, <2>2, <3>1 DEF Rescanning
    <3> QED
      BY <3>2 DEF AtWork
  <2> QED
    BY <1>1, <2>1, <2>2
<1>a. FloorOK /\ Kept(floor)' /\ Safe \subseteq Safe'
  <2>1. FloorOK /\ floor \in Nat /\ Kept(floor)
    BY DEF Follows, FloorOK
  <2> QED
    BY <1>10, <2>1 DEF Safe
<1>15. QueueOK'
  <2>1. phase = "up" => Target' = Target
    BY <1>1, <1>6, <1>10, <1>11 DEF Target, NoWork
  <2>2. ASSUME phase = "opening", Anchored PROVE Anchored'
    <3>1. PICK k \in 0..Here : Kept(k) /\ OnMain(Trail[k])
      BY <2>2 DEF Anchored
    <3>2. k \in 0..h
      <4>1. ~(k \in (h + 1)..Here)
        BY <1>6, <2>2, <3>1
      <4> QED
        BY <1>4, <1>8, <4>1
    <3>3. Kept(k)' /\ OnMain(Trail[k])' /\ k \in 0..Here'
      <4>1. Trail'[k] = Trail[k] /\ main' = main /\ k \in Nat
        BY <1>1, <1>8, <1>10, <3>2
      <4> QED
        BY <1>10, <3>1, <3>2, <4>1 DEF OnMain
    <3> QED
      BY <3>3 DEF Anchored
  <2> QED
    BY <1>1, <1>a, <2>1, <2>2, QueueStays
<1>16. MarkOK'
  <2>1. CASE sync.marked
    BY <1>10, <2>1 DEF MarkOK
  <2>2. CASE ~sync.marked
    BY <1>1, <1>4, <2>2 DEF MarkOK
  <2> QED
    BY <2>1, <2>2
<1>17. JobMatches' /\ alarm' = {} /\ phase' \in {"down", "opening", "up"}
  BY <1>1 DEF JobMatches, Underway, vars
<1>18. h \in 0..Here' /\ r \in 0..Size(Trail'[h])
  <2>1. Size(Trail[h]) \in Nat
    BY <1>11, BlockIsSeq
  <2> QED
    BY <1>8, <1>10, <1>11, <1>12, <2>1
<1> QED
  BY <1>1, <1>10, <1>13, <1>14, <1>a, <1>15, <1>16, <1>17, <1>18, Rebuilt

(* The scan.                                                               *)
LEMMA LockChainFollows ==
  ASSUME WalletInv, Follows, floor' = floor, LockChain
  PROVE  Follows'
<1>1. /\ job.op = "none" /\ phase # "down" /\ work.op = "rescan"
      /\ UNCHANGED vars /\ UNCHANGED <<main, queue, phase, sync, hashes>>
      /\ JobMatches /\ Linked /\ MainOK
  BY DEF LockChain, Free, Idle, Follows
<1>2. PICK L \in 0..Here : \E m \in 0..Size(Trail[L]) : Holds(L, m) /\ AtWork(L, m)
  BY DEF Follows
<1>3. PICK m \in 0..Size(Trail[L]) : Holds(L, m) /\ AtWork(L, m)
  BY <1>2
<1>4. At(L, m)
  BY <1>3 DEF At, Follows
<1>5. Rescanning(L)
  BY <1>1, <1>3 DEF AtWork, Resting, Reverting, Scanning, Connecting, RemovingBlock, NoWork
<1>6. phase = "opening" /\ L = Here /\ OnMain(Trail[Here]) /\ hashes[sync.height] = Trail[Here]
  BY <1>1, <1>5 DEF Rescanning, Linked, Here
<1>7. Here \in 0..Here /\ Here \in Nat /\ Len(main) \in Nat /\ DOMAIN main = 1..Len(main)
  BY PlaceFacts
<1>8. Here + 1 \in 1..Len(main) /\ Trail[Here] = main[Here + 1]
  BY <1>1, <1>6, <1>7, OnMainMeets
<1>9. PICK n \in DOMAIN main :
        /\ main[n] = Trail[Here]
        /\ work' = [op |-> "scan", block |-> None, todo |-> <<>>, rest |-> SubSeq(main, n, Len(main))]
  BY <1>1, <1>6 DEF LockChain
<1>10. n = Here + 1
  <2>1. Height[main[n]] = n - 1 /\ Height[main[Here + 1]] = (Here + 1) - 1 /\ n \in 1..Len(main)
    BY <1>1, <1>7, <1>8, <1>9, MainFacts
  <2> QED
    BY <1>7, <1>8, <1>9, <2>1
<1>11. /\ work'.op = "scan" /\ work'.block = None /\ work'.todo = <<>>
       /\ work'.rest = SubSeq(main, Here + 1, Len(main)) /\ job'.op = "none" /\ Here' = Here
       /\ Trail' = Trail /\ UNCHANGED <<records, alarm>>
  BY <1>1, <1>9, <1>10, LinkStays DEF vars, records
<1>12. AtWork(L, m)'
  <2>1. Scanning(L, m)'
    BY <1>1, <1>6, <1>7, <1>8, <1>11 DEF Scanning
  <2> QED
    BY <2>1 DEF AtWork
<1>13. JobMatches'
  BY <1>1, <1>11 DEF JobMatches, Underway
<1> QED
  BY <1>1, <1>4, <1>6, <1>11, <1>12, <1>13, OnFrame

(* A wallet that has seen all of the start block is marked.                *)
LEMMA StartMarks ==
  ASSUME StartsEarly, WalletInv, MarkOK, NEW m, At(Here, m), Full(Here, m)
  PROVE  sync.marked
<1>1. SUFFICES ASSUME ~sync.marked PROVE FALSE
  OBVIOUS
<1>2. ~Marked /\ Here = 0 /\ blocks[0] = <<>> /\ Linked
  BY <1>1 DEF MarkOK, At
<1>3. Trail[0] = Start /\ Start \in Blocks
  BY <1>2, LinkFacts
<1>4. ListsFirst(<<>>, Start, Size(Start))
  BY <1>2, <1>3 DEF At, Holds, Full
<1>5. PICK t \in Range(BlockTxs[Start]) : MyOuts(t) # {}
  BY <1>2 DEF StartsEarly
<1>6. t \in Txs /\ \E i \in 1..Size(Start) : BlockTxs[Start][i] = t
  <2>1. /\ \A i \in 1..Size(Start) : BlockTxs[Start][i] \in Txs
        /\ Range(BlockTxs[Start]) = {BlockTxs[Start][i] : i \in 1..Size(Start)}
    BY <1>3, BlockIsSeq
  <2> QED
    BY <1>5, <2>1
<1>7. t \in Range(<<>>)
  BY <1>4, <1>5, <1>6 DEF ListsFirst, RelevantTo
<1> QED
  BY <1>7 DEF Range

LEMMA ScanBlockFollows ==
  ASSUME ValidBlocks, StartsEarly, WalletInv, Follows, floor' = floor, ScanBlock
  PROVE  Follows'
<1>1. /\ job.op = "none" /\ phase # "down" /\ work.op = "scan" /\ work.todo = <<>> /\ work.rest # <<>>
      /\ UNCHANGED vars /\ UNCHANGED <<main, queue, phase>>
      /\ IF Fits(Head(work.rest))
         THEN /\ SyncState(Head(work.rest))
              /\ work' = [work EXCEPT !.rest = Tail(work.rest), !.block = Head(work.rest),
                                      !.todo = BlockTxs[Head(work.rest)]]
         ELSE TRUE
      /\ JobMatches /\ Linked /\ MainOK /\ MarkOK /\ alarm = {}
  BY DEF ScanBlock, Finished, Free, Idle, Follows
<1>2. PICK L \in 0..Here : \E m \in 0..Size(Trail[L]) : Holds(L, m) /\ AtWork(L, m)
  BY DEF Follows
<1>3. PICK m \in 0..Size(Trail[L]) : Holds(L, m) /\ AtWork(L, m)
  BY <1>2
<1>4. At(L, m) /\ L \in Nat /\ Here \in Nat /\ Here \in Heights
  <2>1. At(L, m)
    BY <1>3 DEF At, Follows
  <2> QED
    BY <2>1, PlaceFacts
<1>5. Scanning(L, m)
  BY <1>1, <1>3 DEF AtWork, Resting, Reverting, Rescanning, Connecting, RemovingBlock, NoWork
<1>6. phase = "opening" /\ Here + 1 <= Len(main) /\ Trail[Here] = main[Here + 1] /\ L = Here
  BY <1>5 DEF Scanning, Adding
<1>7. Len(main) \in Nat /\ main \in Seq(Blocks)
  BY PlaceFacts DEF WalletInv, WalletOK
<1>8. FloorOK /\ floor \in Nat /\ Kept(floor) /\ floor <= Height[Tip] /\ Height[Tip] < floor + KeepBlocks
  BY DEF Follows, FloorOK
<1>9. JobMatches' \/ work'.op # "scan"
  BY <1>1, <1>6 DEF JobMatches, Underway, vars
<1>10. blocks' = blocks /\ job'.op = "none" /\ alarm' = {} /\ phase' = "opening"
  BY <1>1, <1>6 DEF vars
<1>11. ASSUME NEW b \in Blocks, Head(work.rest) = b, Fits(b)
       PROVE  work'.op = "scan" /\ work'.block = b /\ work'.todo = BlockTxs[b] /\ work'.rest = Tail(work.rest)
              /\ b # None
  <2> DEFINE T == Seq(Txs)
             S == Seq(Blocks)
             N == [op : {"scan"}, block : Blocks \cup {None}, todo : T, rest : S]
  <2>1. work \in N
    BY <1>1, WorkFields DEF WalletInv, WalletOK, ScanWork
  <2>2. work' = [work EXCEPT !.rest = Tail(work.rest), !.block = b, !.todo = BlockTxs[b]]
    BY <1>1, <1>11
  <2> HIDE DEF T, S
  <2> QED
    BY <2>1, <2>2, WalletAssumption
<1>a. ASSUME NEW k \in Nat, NEW i \in 1..Len(main), Linked', Here' = k, Trail'[k] = main[i]
      PROVE  QueueOK'
  <2>1. OnMain(Trail[k])' /\ Trail'[k] # None
    <3>1. main[i] \in Range(main) /\ main[i] # None
      BY <1>a, PlaceFacts, WalletAssumption DEF OnMain
    <3> QED
      BY <1>1, <1>a, <3>1 DEF OnMain
  <2>2. Kept(k)'
    <3>1. \A j \in k..k : j = k
      OBVIOUS
    <3>2. hashes'[k] # None
      BY <1>a, <2>1 DEF Linked
    <3> QED
      BY <1>a, <3>1, <3>2 DEF Kept
  <2>3. Anchored'
    <3>1. k \in 0..Here'
      BY <1>a
    <3> QED
      BY <2>1, <2>2, <3>1 DEF Anchored
  <2> QED
    BY <1>1, <1>6, <2>3, QueueStays
<1>12. CASE work.block = None
  <2>1. work.rest = SubSeq(main, Here + 1, Len(main))
    BY <1>5, <1>12 DEF Scanning
  <2>2. Head(work.rest) = Trail[Here] /\ Tail(work.rest) = SubSeq(main, Here + 2, Len(main))
    <3>1. (Here + 1) + 1 = Here + 2 /\ Here <= Len(main)
      BY <1>4, <1>6, <1>7
    <3>2. /\ Head(SubSeq(main, Here + 1, Len(main))) = main[Here + 1]
          /\ Tail(SubSeq(main, Here + 1, Len(main))) = SubSeq(main, (Here + 1) + 1, Len(main))
      BY <1>1, <1>4, <1>7, <2>1, <3>1, RestOf
    <3> QED
      BY <1>6, <2>1, <3>1, <3>2
  <2>3. PICK b \in Blocks : b = Trail[Here] /\ Height[b] = Here
    BY <1>1, <1>4, LinkFacts
  <2>4. Fits(b)
    BY <2>3 DEF Fits, Here
  <2>5. work'.op = "scan" /\ work'.block = b /\ work'.todo = BlockTxs[b] /\ work'.rest = Tail(work.rest)
        /\ b # None
    BY <1>11, <2>2, <2>3, <2>4
  <2>6. /\ Linked' /\ Here' = Here /\ sync'.marked = sync.marked /\ \A k \in 0..Here : Trail'[k] = Trail[k]
        /\ Kept(floor)'
    <3>1. SyncState(Trail[Here]) /\ Here \in 0..Here
      BY <1>1, <1>4, <2>2, <2>3, <2>4
    <3> QED
      BY <1>1, <1>8, <3>1, SyncDown
  <2>7. Holds(L, m)' /\ Trail'[L] = b
    BY <1>3, <1>4, <1>6, <1>10, <2>3, <2>6, HoldsStay
  <2>8. AtWork(L, m)'
    <3>1. Size(b) \in Nat /\ BlockTxs[b] = SubSeq(BlockTxs[b], 0 + 1, Size(b)) /\ m \in Nat
      BY <1>4, BlockIsSeq, WholeBlock, AtChain
    <3>2. Handed(m, b, 0)'
      BY <1>10, <2>5, <3>1 DEF Handed
    <3>3. Adding(L, m, b)'
      BY <1>6, <2>6, <2>7, <3>1, <3>2 DEF Adding
    <3>4. Scanning(L, m)'
      BY <1>1, <1>6, <1>7, <1>10, <2>2, <2>3, <2>5, <2>6, <2>7, <3>3 DEF Scanning
    <3> QED
      BY <3>4 DEF AtWork
  <2>9. MarkOK'
    BY <1>1, <1>10, <2>6 DEF MarkOK
  <2>10. L \in 0..Here' /\ m \in 0..Size(Trail'[L])
    BY <1>3, <1>4, <1>6, <2>3, <2>6, <2>7
  <2>11. QueueOK'
    <3>1. Here + 1 \in 1..Len(main) /\ Trail'[Here] = main[Here + 1]
      BY <1>4, <1>6, <1>7, <2>3, <2>7
    <3> QED
      BY <1>4, <1>a, <2>6, <3>1
  <2> QED
    BY <1>1, <1>8, <1>9, <1>10, <2>5, <2>6, <2>7, <2>8, <2>9, <2>10, <2>11, Rebuilt
<1>13. CASE work.block # None
  <2>1. work.rest = SubSeq(main, Here + 2, Len(main)) /\ Adding(L, m, Trail[L])
    BY <1>5, <1>13 DEF Scanning, Adding
  <2>2. Full(L, m)
    BY <1>1, <1>4, <2>1, AllAdded
  <2>3. At(Here, Size(Trail[Here])) /\ sync.marked
    <3>1. At(Here, Size(Trail[Here])) /\ Full(Here, Size(Trail[Here]))
      BY <1>4, <1>6, <2>2 DEF Full
    <3> QED
      BY <1>1, <3>1, StartMarks
  <2>4. PICK N \in Nat : N = Here + 1
    BY <1>4
  <2>5. /\ N <= Len(main) /\ N + 1 = Here + 2 /\ SubSeq(main, N + 1, Len(main)) # <<>>
    BY <1>1, <1>4, <1>6, <2>1, <2>4
  <2>6. /\ N < Len(main) /\ Head(work.rest) = main[N + 1]
        /\ Tail(work.rest) = SubSeq(main, (N + 1) + 1, Len(main))
    <3> DEFINE q == SubSeq(main, N + 1, Len(main))
    <3>1. /\ q # <<>> <=> N < Len(main)
          /\ q # <<>> => Head(q) = main[N + 1] /\ Tail(q) = SubSeq(main, (N + 1) + 1, Len(main))
      BY <1>7, <2>5, RestOf
    <3>2. work.rest = q /\ q # <<>>
      BY <1>1, <2>1, <2>5
    <3> HIDE DEF q
    <3> QED
      BY <3>1, <3>2
  <2>7. PICK b \in Blocks : b = main[N + 1] /\ Height[b] = N /\ Parent[b] = Trail[Here]
    <3>1. N + 1 \in 1..Len(main) /\ N + 1 \in 2..Len(main) /\ (N + 1) - 1 = N
      BY <1>4, <1>7, <2>4, <2>6
    <3>2. Parent[main[N + 1]] = main[N]
      BY <1>1, <3>1, MainFacts
    <3>3. main[N + 1] \in Blocks /\ Height[main[N + 1]] = N
      BY <1>1, <3>1, MainFacts
    <3> QED
      BY <1>6, <2>4, <3>2, <3>3
  <2>8. Fits(b) /\ N \in Heights
    BY <2>4, <2>7, WalletAssumption DEF Fits, Here
  <2>9. work'.op = "scan" /\ work'.block = b /\ work'.todo = BlockTxs[b] /\ work'.rest = Tail(work.rest)
        /\ b # None
    BY <1>11, <2>6, <2>7, <2>8
  <2>10. /\ Linked' /\ Here' = N /\ sync'.marked = sync.marked /\ Trail'[N] = b
         /\ \A k \in 0..Here : Trail'[k] = Trail[k]
         /\ Kept(floor)'
    <3>1. SyncState(b)
      BY <1>1, <2>6, <2>7, <2>8
    <3>2. Height[b] < floor + KeepBlocks
      <4>1. Height[Tip] = Len(main) - 1 /\ KeepBlocks \in Nat
        BY <1>1, MainFacts, HeightsAreNat
      <4> QED
        BY <1>7, <1>8, <2>6, <2>7, <4>1
    <3> QED
      BY <1>1, <1>8, <2>4, <2>7, <3>1, <3>2, SyncUp
  <2>11. Holds(N, 0)'
    BY <1>10, <2>3, <2>4, <2>8, <2>10, HoldsUp
  <2>12. AtWork(N, 0)'
    <3>1. Size(b) \in Nat /\ BlockTxs[b] = SubSeq(BlockTxs[b], 0 + 1, Size(b))
      BY BlockIsSeq, WholeBlock
    <3>2. Handed(0, b, 0)'
      BY <1>10, <2>9, <3>1 DEF Handed
    <3>3. Adding(N, 0, b)'
      BY <2>10, <3>1, <3>2 DEF Adding
    <3>4. N + 1 <= Len(main) /\ (N + 1) + 1 = N + 2
      BY <1>7, <2>6
    <3>5. Scanning(N, 0)'
      BY <1>1, <1>10, <2>6, <2>7, <2>9, <2>10, <3>3, <3>4 DEF Scanning
    <3> QED
      BY <3>5 DEF AtWork
  <2>13. MarkOK'
    BY <2>3, <2>10 DEF MarkOK
  <2>14. N \in 0..Here' /\ 0 \in 0..Size(Trail'[N])
    <3>1. Size(b) \in Nat
      BY BlockIsSeq
    <3> QED
      BY <2>10, <3>1
  <2>15. QueueOK'
    <3>1. N + 1 \in 1..Len(main) /\ Trail'[N] = main[N + 1]
      BY <1>7, <2>6, <2>7, <2>10
    <3> QED
      BY <1>a, <2>10, <3>1
  <2> QED
    BY <1>1, <1>8, <1>9, <1>10, <2>9, <2>10, <2>11, <2>12, <2>13, <2>14, <2>15, Rebuilt
<1> QED
  BY <1>12, <1>13

LEMMA ScannedFollows ==
  ASSUME WalletInv, Follows, floor' = floor, Scanned
  PROVE  Follows'
<1>1. /\ job.op = "none" /\ phase # "down" /\ work.op = "scan" /\ work.todo = <<>> /\ work.rest = <<>>
      /\ work' = NoWork /\ UNCHANGED vars /\ UNCHANGED <<main, queue, phase, sync, hashes>>
      /\ JobMatches
  BY DEF Scanned, Finished, Free, Idle, Follows
<1>2. PICK L \in 0..Here : \E m \in 0..Size(Trail[L]) : Holds(L, m) /\ AtWork(L, m)
  BY DEF Follows
<1>3. PICK m \in 0..Size(Trail[L]) : Holds(L, m) /\ AtWork(L, m)
  BY <1>2
<1>4. At(L, m) /\ L \in Nat /\ Here \in Nat
  <2>1. At(L, m)
    BY <1>3 DEF At, Follows
  <2> QED
    BY <2>1, PlaceFacts
<1>5. Scanning(L, m)
  BY <1>1, <1>3 DEF AtWork, Resting, Reverting, Rescanning, Connecting, RemovingBlock, NoWork
<1>6. phase = "opening" /\ Here + 1 <= Len(main) /\ Trail[Here] = main[Here + 1] /\ L = Here
  BY <1>5 DEF Scanning, Adding
<1>7. Len(main) \in Nat /\ main \in Seq(Blocks) /\ Tip = main[Len(main)]
  BY PlaceFacts DEF WalletInv, WalletOK
<1>8. PICK N \in Nat : N = Here + 1
  BY <1>4
<1>9. work.block # None
  <2>1. SUFFICES ASSUME work.block = None PROVE FALSE
    OBVIOUS
  <2>2. SubSeq(main, Here + 1, Len(main)) = <<>> /\ Here < Len(main) /\ Here <= Len(main)
    BY <1>1, <1>4, <1>5, <1>6, <1>7, <2>1 DEF Scanning
  <2>3. SubSeq(main, Here + 1, Len(main)) # <<>> <=> Here < Len(main)
    BY <1>4, <1>7, <2>2, RestOf
  <2> QED
    BY <2>2, <2>3
<1>10. work.rest = SubSeq(main, Here + 2, Len(main)) /\ Adding(L, m, Trail[L])
  BY <1>5, <1>9 DEF Scanning, Adding
<1>11. Full(L, m)
  BY <1>1, <1>4, <1>10, AllAdded
<1>12. Trail[Here] = Tip
  <2>1. N + 1 = Here + 2 /\ N <= Len(main)
    BY <1>4, <1>6, <1>8
  <2>2. ~(N < Len(main))
    BY <1>1, <1>7, <1>10, <2>1, RestOf
  <2> QED
    BY <1>6, <1>7, <1>8, <2>1, <2>2
<1>13. Full(L, m)' /\ phase' = "opening" /\ job'.op = "none" /\ UNCHANGED <<records, alarm>>
       /\ Trail'[Here'] = Tip'
  BY <1>1, <1>6, <1>11, <1>12, LinkStays DEF Full, vars, records, Tip
<1>14. AtWork(L, m)'
  <2>1. (Trail[Here] = Tip)'
    BY <1>13
  <2>2. Resting(L, m)'
    BY <1>1, <1>13, <2>1 DEF Resting
  <2> QED
    BY <2>2 DEF AtWork
<1>15. JobMatches'
  BY <1>1, <1>13 DEF JobMatches, Underway
<1> QED
  BY <1>1, <1>4, <1>6, <1>13, <1>14, <1>15, OnFrame

LEMMA WorkFollows ==
  ASSUME ValidBlocks, StartsEarly, WalletInv, HeightInv, Follows, floor' = floor, WalletStep
  PROVE  Follows'
<1>1. ~Caught
  BY DEF Caught, Follows, JobMatches
<1> QED
  BY <1>1, TakenFollows, SkipFollows, MaybeMarkFollows, InsertFollows, UnconfirmFollows,
     ConnectedFollows, RemovedFollows, RevertedFollows, LockChainFollows, ScanBlockFollows,
     ScannedFollows, StepFollows DEF WalletStep

-----------------------------------------------------------------------------
(* The owner, the start and the end of a process.                          *)
LEMMA AbandonFollows ==
  ASSUME WalletInv, HeightInv, Follows, floor' = floor, NEW t \in Txs, Abandon(t)
  PROVE  Follows'
<1> USE Sentinels
<1>1. /\ phase = "up" /\ rec[t] = Unconfirmed /\ RemoveTX(t) /\ UNCHANGED walletVars
      /\ JobMatches /\ alarm = {}
  BY DEF Abandon, Follows
<1>2. job.op = "none" /\ UNCHANGED <<records, state, alarm>>
  BY <1>1 DEF RemoveTX, Idle
<1> DEFINE w == [tx |-> t, height |-> Unconfirmed]
           j == [op |-> "remove", user |-> TRUE, tx |-> t, height |-> Unconfirmed,
                 roots |-> {<<1, w>>}, path |-> <<>>]
<1>3. job' = Removing(j)
  BY <1>1 DEF RemoveTX, NewJob
<1>4. j \in Job
  <2> DEFINE q == {<<1, w>>}
  <2>1. w \in Wtx /\ <<>> \in Seq(Wtx)
    BY EmptySeq DEF Wtx
  <2>2. q \in SUBSET (Nat \X Wtx)
    <3> HIDE DEF w
    <3> QED
      BY <2>1
  <2> HIDE DEF q
  <2> QED
    BY <2>1, <2>2 DEF Job, q
<1>5. Pend(j) = {w} /\ j.op = "remove"
  BY DEF Pend, Range
<1> HIDE DEF j
<1>6. job'.op = "remove" /\ Pend(job)' = {w}
  BY <1>3, <1>4, <1>5, RemovingKeeps DEF Pend
<1>7. w.tx = t /\ w.height = Unconfirmed /\ RelevantTo(t)
  BY <1>1 DEF HeightInv, OwnKnown
<1> HIDE DEF w
<1>8. JobMatches'
  <2>1. phase' = phase
    BY <1>1 DEF walletVars
  <2> QED
    BY <1>1, <1>6, <1>7, <2>1 DEF JobMatches, RelevantTo
<1>9. PICK L \in 0..Here : \E m \in 0..Size(Trail[L]) : Holds(L, m) /\ AtWork(L, m)
  BY DEF Follows
<1>10. PICK m \in 0..Size(Trail[L]) : Holds(L, m) /\ AtWork(L, m)
  BY <1>9
<1>11. blocks' = blocks /\ alarm' = {} /\ Trail' = Trail
  BY <1>1, <1>2, LinkStays DEF records, walletVars
<1>12. AtWork(L, m)'
  BY <1>1, <1>2, <1>6, <1>10, <1>11, WorkStays
<1>13. Holds(L, m)'
  <2>1. L \in Nat
    BY PlaceFacts
  <2> QED
    BY <1>10, <1>11, <2>1, HoldsStay
<1> QED
  BY <1>1, <1>8, <1>10, <1>11, <1>12, <1>13, FrameKeeps

(* The next start goes down to the last of the wallet's blocks that is on  *)
(* the main chain.                                                         *)
LEMMA CommonIs ==
  ASSUME WalletInv, Linked, MainOK, Anchored
  PROVE  /\ Common \in 0..Here /\ OnMain(Trail[Common]) /\ hashes[Common] = Trail[Common]
         /\ \A k \in (Common + 1)..Here : ~OnMain(Trail[k])
<1> DEFINE stops == {h \in 0..Here : hashes[h] = None \/ OnMain(hashes[h])}
<1>1. PICK a \in 0..Here : Kept(a) /\ OnMain(Trail[a])
  BY DEF Anchored
<1>2. Here \in Nat /\ a \in a..Here
  <2>1. Here \in Nat
    BY PlaceFacts
  <2> QED
    BY <1>1, <2>1
<1>3. \A k \in a..Here : k \in 0..Here /\ hashes[k] # None /\ hashes[k] = Trail[k]
  <2>1. \A k \in a..Here : k \in 0..Here /\ hashes[k] # None
    BY <1>1, <1>2 DEF Kept
  <2> QED
    BY <2>1, LinkFacts
<1>4. a \in stops /\ stops \in SUBSET (0..Here) /\ stops # {}
  BY <1>1, <1>2, <1>3
<1>5. PICK h : h = Max(stops)
  OBVIOUS
<1>6. h \in stops /\ \A k \in stops : k <= h
  <2> HIDE DEF stops
  <2> QED
    BY <1>2, <1>4, <1>5, MaxIsGreatest
<1>7. h \in 0..Here /\ h \in a..Here
  BY <1>1, <1>2, <1>4, <1>6
<1>8. hashes[h] = Trail[h] /\ hashes[h] # None /\ OnMain(hashes[h])
  BY <1>3, <1>6, <1>7
<1>9. \A k \in (h + 1)..Here : k \in a..Here /\ k \in 0..Here /\ ~(k <= h)
  BY <1>1, <1>2, <1>7
<1>10. \A k \in (h + 1)..Here : ~OnMain(Trail[k])
  BY <1>3, <1>6, <1>9
<1>11. Common = h
  BY <1>4, <1>5, <1>8 DEF Common, Here
<1> QED
  BY <1>7, <1>8, <1>10, <1>11

LEMMA OpenFollows ==
  ASSUME WalletInv, Follows, floor' = floor, Open
  PROVE  Follows'
<1>1. /\ phase = "down" /\ phase' = "opening" /\ work' = Scan(Common)
      /\ UNCHANGED vars /\ UNCHANGED <<main, queue, sync, hashes>>
      /\ Linked /\ MainOK /\ JobMatches /\ MarkOK /\ alarm = {} /\ QueueOK
  BY DEF Open, Follows
<1>2. job.op = "none" /\ work.op = "none" /\ queue = <<>> /\ Anchored
  BY <1>1 DEF JobMatches, Idle, NoWork, QueueOK
<1>3. PICK L \in 0..Here : \E m \in 0..Size(Trail[L]) : Holds(L, m) /\ AtWork(L, m)
  BY DEF Follows
<1>4. PICK m \in 0..Size(Trail[L]) : Holds(L, m) /\ AtWork(L, m)
  BY <1>3
<1>5. At(L, m)
  BY <1>1, <1>4 DEF At
<1>6. L = Here \/ ~OnMain(Trail[L])
  BY <1>1, <1>2, <1>4 DEF AtWork, Resting, Rescanning, Connecting, Scanning, RemovingBlock, Reverting
<1>7. PICK h \in 0..Here : h = Common
  BY <1>1, <1>2, CommonIs
<1>8. OnMain(Trail[h]) /\ hashes[h] = Trail[h] /\ \A k \in (h + 1)..Here : ~OnMain(Trail[k])
  BY <1>1, <1>2, <1>7, CommonIs
<1>9. Here \in Nat /\ Height[Trail[h]] = h /\ Trail[h] # None
  BY <1>1, PlaceFacts, LinkFacts
<1>10. L > h \/ L = Here
  <2>1. CASE L \in 0..h
    <3>1. OnMain(Trail[L])
      BY <1>1, <1>8, <2>1, OnMainMeets
    <3> QED
      BY <1>6, <3>1
  <2>2. CASE ~(L \in 0..h)
    BY <1>9, <2>2
  <2> QED
    BY <2>1, <2>2
<1>11. /\ blocks' = blocks /\ job'.op = "none" /\ alarm' = {} /\ Above' = Above
       /\ (\A b : OnMain(b)' <=> OnMain(b))
  BY <1>1, <1>2 DEF vars, Above, OnMain
<1>12. /\ Linked' /\ Here' = Here /\ Holds(L, m)' /\ L \in 0..Here' /\ m \in 0..Size(Trail'[L])
       /\ Trail' = Trail /\ FloorOK /\ Kept(floor)' /\ Anchored'
  BY <1>1, <1>2, <1>5, <1>11, Unmoved, LinkStays DEF Follows, FloorOK
<1>13. AtWork(L, m)'
  <2>1. CASE h < Here
    <3>1. work' = Rollback(h, "scan")
      BY <1>1, <1>7, <2>1 DEF Scan, Here
    <3>2. work'.op = "revert" /\ work'.tip = Trail[h] /\ work'.todo = Above[h + 1] /\ ~work'.reset /\ work'.scan
      BY <1>8, <1>9, <3>1 DEF Rollback
    <3>3. UndoIs(Above[h + 1])'
      BY <1>11, <3>2 DEF UndoIs
    <3>4. h \in 0..(L - 1)
      BY <1>9, <1>10, <2>1
    <3>5. Reverting(L)'
      BY <1>1, <1>8, <1>11, <1>12, <3>2, <3>3, <3>4 DEF Reverting
    <3> QED
      BY <3>5 DEF AtWork
  <2>2. CASE h = Here
    <3>1. work' = [op |-> "rescan"]
      BY <1>1, <1>7, <1>9, <2>2 DEF Scan, Here
    <3>2. OnMain(Trail[Here])' /\ L = Here
      BY <1>1, <1>8, <1>9, <1>10, <1>12, <2>2 DEF OnMain
    <3>3. Rescanning(L)'
      BY <1>1, <1>12, <3>1, <3>2 DEF Rescanning
    <3> QED
      BY <3>3 DEF AtWork
  <2> QED
    BY <1>9, <2>1, <2>2
<1>14. JobMatches' /\ MarkOK' /\ QueueOK'
  BY <1>1, <1>2, <1>11, <1>12 DEF JobMatches, Underway, MarkOK, QueueOK
<1> QED
  BY <1>1, <1>11, <1>12, <1>13, <1>14, Rebuilt

LEMMA OpenedFollows ==
  ASSUME StartsEarly, WalletInv, Follows, floor' = floor, Opened
  PROVE  Follows'
<1>1. /\ phase = "opening" /\ work = NoWork /\ phase' = "up"
      /\ UNCHANGED vars /\ UNCHANGED <<main, queue, sync, hashes, work>>
      /\ Linked /\ MainOK /\ JobMatches /\ MarkOK /\ alarm = {} /\ QueueOK
  BY DEF Opened, Follows
<1>2. work.op = "none" /\ queue = <<>>
  BY <1>1 DEF NoWork, QueueOK
<1>3. PICK L \in 0..Here : \E m \in 0..Size(Trail[L]) : Holds(L, m) /\ AtWork(L, m)
  BY DEF Follows
<1>4. PICK m \in 0..Size(Trail[L]) : Holds(L, m) /\ AtWork(L, m)
  BY <1>3
<1>5. At(L, m)
  BY <1>1, <1>4 DEF At
<1>6. Resting(L, m)
  BY <1>2, <1>4 DEF AtWork, Rescanning, Connecting, Scanning, RemovingBlock, Reverting
<1>7. Full(L, m) /\ Trail[Here] = Tip /\ L = Here
  BY <1>1, <1>6 DEF Resting, Full
<1>8. sync.marked
  BY <1>1, <1>5, <1>7, StartMarks
<1>9. blocks' = blocks /\ alarm' = {} /\ job' = job
  BY <1>1 DEF vars
<1>10. /\ Linked' /\ Here' = Here /\ Holds(L, m)' /\ L \in 0..Here' /\ m \in 0..Size(Trail'[L])
       /\ Trail' = Trail /\ Safe' = Safe /\ FloorOK /\ Kept(floor)'
  BY <1>1, <1>5, <1>9, Unmoved DEF Follows, FloorOK
<1>11. AtWork(L, m)'
  <2>1. Full(L, m)'
    BY <1>1, <1>7, <1>10 DEF Full
  <2>2. Resting(L, m)'
    BY <1>1, <2>1 DEF Resting
  <2> QED
    BY <2>2 DEF AtWork
<1>12. JobMatches' /\ MarkOK'
  BY <1>1, <1>8, <1>9 DEF JobMatches, Underway, Pend, RelevantTo, MarkOK
<1>13. QueueOK'
  <2>1. PICK x : x = Tip
    OBVIOUS
  <2>2. x \in Blocks /\ x = Tip' /\ x = Target' /\ queue' = <<>>
    BY <1>1, <1>2, <1>7, <1>10, <2>1, PlaceFacts DEF Tip, Target, NoWork
  <2>3. Height[Tip] \in Safe
    <3>1. floor \in Nat /\ Kept(floor) /\ Height[Tip] \in Nat /\ floor <= Height[Tip] /\ Here \in Nat
          /\ Height[Tip] < floor + KeepBlocks
      BY <1>10, PlaceFacts, HeightsAreNat DEF FloorOK
    <3>2. \A k \in Height[Tip]..Here : k \in floor..Here
      BY <3>1
    <3> QED
      BY <3>1, <3>2 DEF Safe, Kept
  <2>4. Leads(x, <<>>, x, Safe')
    BY <1>10, <2>1, <2>2, <2>3, LeadsNowhere
  <2> QED
    BY <1>1, <2>2, <2>4, QueueLeads
<1> QED
  BY <1>1, <1>9, <1>10, <1>11, <1>12, <1>13, Rebuilt

(* The notifications that wait all come back to a block below the wallet's *)
(* that it still has the hash of.                                          *)
LEMMA QueueAnchors ==
  ASSUME ValidBlocks, WalletInv, Linked, MainOK, QueueOK, phase = "up", work.op # "revert",
         NEW L \in 0..Here, NEW m, AtWork(L, m)
  PROVE  Anchored
<1>1. Here \in Nat /\ Len(main) - 1 \in Nat /\ Height[Tip] = Len(main) - 1 /\ Here \in 0..Here
      /\ Chain(Trail, Here) /\ queue \in Seq(Note)
  BY PlaceFacts, MainFacts, LinkFacts
<1>2. PICK n \in 0..Here : Target = Trail[n]
  <2>1. CASE work.op = "disconnect"
    <3>1. RemovingBlock(L)
      BY <2>1 DEF AtWork, Resting, NoWork, Rescanning, Connecting, Scanning, Reverting
    <3>2. L - 1 \in 0..Here /\ Target = Trail[L - 1]
      BY <1>1, <2>1, <3>1 DEF RemovingBlock, Target
    <3> QED
      BY <3>2
  <2>2. CASE work.op # "disconnect"
    <3>1. Target = Trail[Here]
      BY <2>2 DEF Target
    <3> QED
      BY <1>1, <3>1
  <2> QED
    BY <2>1, <2>2
<1>3. PICK x \in Blocks : x = Trail[n] /\ Height[x] = n
  BY LinkFacts
<1>4. PICK q : q = queue /\ Len(q) \in Nat
  <2>1. Len(queue) \in Nat
    BY <1>1, LenProperties
  <2> QED
    BY <2>1
<1>5. PICK y, S : y = Tip /\ S = Safe
  OBVIOUS
<1>6. Leads(x, q, y, S)
  BY <1>2, <1>3, <1>4, <1>5 DEF QueueOK
<1>7. Len(q) \in Nat /\ Chain(Trail, n)
  BY <1>1, <1>4, ChainPart
<1>8. Chain(Trail, Height[x]) /\ Trail[Height[x]] = x
  BY <1>3, <1>7
<1>a. PICK k \in S : MeetAt(x, Trail, y, k)
  BY <1>6, <1>7, <1>8, LeadsThrough
<1>9. PICK r : /\ k \in 0..Height[x] /\ k \in 0..Height[y]
               /\ Chain(r, Height[y]) /\ r[Height[y]] = y /\ r[k] = Trail[k]
  BY <1>a DEF MeetAt
<1> DEFINE N == Len(main) - 1
<1>10. N \in Nat /\ N \in 0..N /\ Height[y] = N /\ N + 1 = Len(main) /\ k \in 0..N
  <2>1. Len(main) \in Nat
    BY PlaceFacts
  <2> QED
    BY <1>1, <1>5, <1>9, <2>1
<1>11. Chain(MainPath, N) /\ MainPath[N] = y
  BY <1>5, <1>10, MainFacts, PlaceFacts
<1>12. OnMain(Trail[k])
  <2>1. \A j \in 0..N : r[j] = MainPath[j]
    BY <1>9, <1>10, <1>11, ChainsMeet
  <2>2. k + 1 \in 1..Len(main) /\ main[k + 1] = Trail[k]
    BY <1>9, <1>10, <2>1, MainFacts
  <2> QED
    BY <2>2, PlaceFacts
<1>13. k \in 0..Here /\ Kept(k)
  BY <1>1, <1>2, <1>3, <1>5, <1>9 DEF Safe
<1> QED
  BY <1>12, <1>13 DEF Anchored

LEMMA CrashFollows ==
  ASSUME ValidBlocks, WalletInv, Follows, Crash, ~(phase = "up" /\ work.op = "revert")
  PROVE  Follows'
<1>1. /\ phase # "down" /\ phase' = "down" /\ queue' = <<>> /\ work' = NoWork /\ job' = Idle
      /\ UNCHANGED <<records, alarm, main, sync, hashes, floor>>
      /\ Linked /\ MainOK /\ JobMatches /\ MarkOK /\ alarm = {}
      /\ phase \in {"down", "opening", "up"}
  BY DEF Crash, Follows
<1>2. PICK L \in 0..Here : \E m \in 0..Size(Trail[L]) : Holds(L, m) /\ AtWork(L, m)
  BY DEF Follows
<1>3. PICK m \in 0..Size(Trail[L]) : Holds(L, m) /\ AtWork(L, m)
  BY <1>2
<1>4. At(L, m)
  BY <1>1, <1>3 DEF At
<1>5. L = Here \/ ~OnMain(Trail[L])
  <2>1. CASE Resting(L, m)
    BY <1>1, <2>1 DEF Resting, Full
  <2>2. CASE Rescanning(L)
    BY <2>2 DEF Rescanning
  <2>3. CASE Connecting(L, m)
    BY <2>3 DEF Connecting, Full, Adding
  <2>4. CASE Scanning(L, m)
    BY <2>4 DEF Scanning, Adding
  <2>5. CASE RemovingBlock(L)
    BY <2>5 DEF RemovingBlock
  <2>6. CASE Reverting(L)
    <3>1. phase = "opening"
      BY <1>1, <2>6 DEF Reverting
    <3>2. PICK h \in 0..(L - 1) : \A k \in (h + 1)..Here : ~OnMain(Trail[k])
      BY <2>6, <3>1 DEF Reverting
    <3>3. L \in (h + 1)..Here
      <4>1. Here \in Nat
        BY PlaceFacts
      <4> QED
        BY <4>1
    <3> QED
      BY <3>2, <3>3
  <2> QED
    BY <1>3, <2>1, <2>2, <2>3, <2>4, <2>5, <2>6 DEF AtWork
<1>6. blocks' = blocks /\ alarm' = {} /\ job'.op = "none" /\ (\A b : OnMain(b)' <=> OnMain(b))
  BY <1>1 DEF records, Idle, OnMain
<1>7. /\ Linked' /\ Here' = Here /\ Holds(L, m)' /\ L \in 0..Here' /\ m \in 0..Size(Trail'[L])
      /\ Trail' = Trail /\ FloorOK /\ Kept(floor)'
  BY <1>1, <1>4, <1>6, Unmoved DEF Follows, FloorOK
<1>a. Anchored'
  <2>1. QueueOK /\ (Anchored => Anchored')
    BY <1>1, LinkStays DEF Follows
  <2>2. CASE phase # "up"
    BY <2>1, <2>2 DEF QueueOK
  <2>3. CASE phase = "up"
    BY <1>1, <1>3, <2>1, <2>3, QueueAnchors DEF Follows
  <2> QED
    BY <2>2, <2>3
<1>8. AtWork(L, m)'
  <2>1. L = Here' \/ ~OnMain(Trail[L])'
    BY <1>1, <1>5, <1>7 DEF OnMain
  <2>2. Resting(L, m)'
    BY <1>1, <2>1 DEF Resting
  <2> QED
    BY <2>2 DEF AtWork
<1>9. JobMatches' /\ MarkOK' /\ QueueOK'
  BY <1>1, <1>6, <1>7, <1>a DEF JobMatches, Underway, MarkOK, QueueOK
<1> QED
  BY <1>1, <1>6, <1>7, <1>8, <1>9, Rebuilt

LEMMA InitFollows ==
  ASSUME ValidBlocks, StartsEarly, Init
  PROVE  FollowInv
<1> USE Sentinels
<1>0. WalletInv
  BY InitOK
<1> DEFINE txs == IF Marked THEN BlockTxs[Start] ELSE <<>>
<1>1. /\ rec = [t \in Txs |-> IF t \in Range(txs) THEN 0 ELSE None]
      /\ credit = [o \in Outs |-> IF o \in Mine /\ Creator[o] \in Range(txs)
                                  THEN [height |-> 0, spent |-> FALSE] ELSE None]
      /\ undo = [t \in Txs |-> [o \in Outs |-> None]]
      /\ blocks = [h \in Heights |-> IF h = 0 THEN txs ELSE <<>>]
      /\ job = Idle /\ alarm = {} /\ main = <<Start>> /\ queue = <<>>
      /\ phase = IF Marked THEN "up" ELSE "down"
      /\ sync = [height |-> 0, marked |-> Marked, startHeight |-> 0, start |-> Start]
      /\ hashes = [h \in Heights |-> IF h = 0 THEN Start ELSE None]
      /\ work = NoWork /\ floor = 0
  BY DEF Init, InitWith
<1>2. /\ Start \in Blocks /\ Height[Start] = 0 /\ MaxHeight \in Nat /\ 0 \in Heights
      /\ Heights = 0..MaxHeight /\ Marked \in BOOLEAN
  BY <1>0, WalletAssumption, PlaceFacts DEF Heights
<1>3. \A t \in Range(txs) : t \in Txs /\ RelevantTo(t)
  <2>1. CASE Marked
    <3>1. \A t \in Range(BlockTxs[Start]) : t \in Txs
      <4>1. /\ Range(BlockTxs[Start]) = {BlockTxs[Start][i] : i \in 1..Size(Start)}
            /\ \A i \in 1..Size(Start) : BlockTxs[Start][i] \in Txs
        BY <1>2, BlockIsSeq
      <4> QED
        BY <4>1, Zenon
    <3>2. \A t \in Range(BlockTxs[Start]) : MyOuts(t) # {}
      BY <2>1 DEF StartsEarly
    <3> QED
      BY <2>1, <3>1, <3>2 DEF RelevantTo
  <2>2. CASE ~Marked
    BY <2>2, EmptySeq DEF Range
  <2> QED
    BY <2>1, <2>2
<1>4. HeightInv
  <2>1. OwnKnown
    BY <1>1, <1>3 DEF OwnKnown
  <2>2. ASSUME NEW o \in Mine, Creator[o] \in Confirmed
        PROVE  /\ credit[o] # None => credit[o].height = rec[Creator[o]]
               /\ \A t \in Txs : undo[t][o] = None
    <3>1. Creator[o] \in Txs /\ rec[Creator[o]] = 0
      <4>1. Creator[o] \in Txs /\ rec[Creator[o]] \in Heights
        BY <2>2 DEF Confirmed
      <4>2. None \notin Heights
        BY <1>2
      <4> QED
        BY <1>1, <4>1, <4>2
    <3>2. o \in Outs
      BY TXAssumption
    <3> QED
      BY <1>1, <3>1, <3>2
  <2> QED
    BY <2>1, <2>2 DEF HeightInv, HeightsAgree
<1> HIDE DEF txs
<1>5. Here = 0 /\ sync.startHeight = 0 /\ sync.start = Start /\ (sync.marked <=> Marked)
  BY <1>1 DEF Here
<1>a. hashes[0] = Start /\ Chain(Trail, 0) /\ Trail[0] = Start
  <2> DEFINE p == [k \in 0..0 |-> Start]
  <2>1. hashes[0] = Start
    BY <1>1, <1>2
  <2>2. (\A k \in 0..0 : k = 0) /\ (\A k \in 1..0 : FALSE) /\ p[0] = Start
    OBVIOUS
  <2> HIDE DEF p
  <2>3. Chain(p, 0)
    BY <1>2, <2>2 DEF Chain
  <2>4. Trail = TrailTo(p[0], 0)
    BY <1>5, <2>1, <2>2 DEF Trail
  <2> QED
    BY <2>1, <2>2, <2>3, <2>4, TrailIs
<1>6. Trail[0] = Start /\ blocks[0] = txs /\ \A k \in (0 + 1)..MaxHeight : blocks[k] = <<>>
  <2>1. \A k \in (0 + 1)..MaxHeight : k \in Heights /\ k # 0
    BY <1>2
  <2> QED
    BY <1>1, <1>2, <1>a, <2>1
<1>7. Linked
  <2>1. \A k \in 0..0 : k = 0
    OBVIOUS
  <2> QED
    BY <1>5, <1>a, <2>1 DEF Linked
<1>8. MainOK
  <2>1. Len(main) = 1 /\ main[1] = Start
    BY <1>1
  <2>2. Len(main) - 1 = 0 /\ 0 \in 0..0 /\ 0 + 1 = 1
    BY <2>1
  <2>3. MainPath[0] = Start
    BY <2>1, <2>2 DEF MainPath
  <2>4. (\A k \in 0..0 : k = 0) /\ \A k \in 1..0 : FALSE
    OBVIOUS
  <2>5. Chain(MainPath, 0)
    BY <1>2, <2>3, <2>4 DEF Chain
  <2> QED
    BY <2>2, <2>5 DEF MainOK
<1>9. Trail[Here] = Start /\ Tip = Start
  BY <1>1, <1>5, <1>6, <1>0, PlaceFacts

<1>c. FloorOK /\ 0 \in Safe /\ Kept(0) /\ OnMain(Trail[0])
  <2>1. \A i \in 0..0 : i = 0
    OBVIOUS
  <2>2. Kept(0)
    BY <1>2, <1>5, <1>a, <2>1, WalletAssumption DEF Kept
  <2>3. 0 < 0 + KeepBlocks
    BY HeightsAreNat
  <2>4. FloorOK /\ 0 \in Safe
    BY <1>1, <1>2, <1>9, <2>2, <2>3 DEF FloorOK, Safe
  <2>5. OnMain(Start)
    <3>1. 1 \in 1..Len(main) /\ main[1] = Start
      BY <1>1
    <3> QED
      BY <1>0, <3>1, PlaceFacts
  <2> QED
    BY <1>6, <2>2, <2>4, <2>5
<1>10. Size(Start) \in Nat /\ Range(BlockTxs[Start]) = {BlockTxs[Start][i] : i \in 1..Size(Start)}
  BY <1>2, BlockIsSeq
<1>11. JobMatches /\ QueueOK /\ MarkOK
  <2>1. JobMatches
    BY <1>1 DEF JobMatches, Underway, Idle
  <2>2. QueueOK
    <3>1. Target = Start
      BY <1>1, <1>9 DEF Target, NoWork
    <3>2. PICK x : x = Start
      OBVIOUS
    <3>3. PICK S : S = Safe /\ 0 \in S
      BY <1>c
    <3>4. Leads(x, <<>>, x, S)
      BY <1>2, <3>2, <3>3, LeadsNowhere
    <3>5. Anchored
      BY <1>5, <1>c DEF Anchored
    <3> QED
      BY <1>1, <1>9, <3>1, <3>2, <3>3, <3>4, <3>5 DEF QueueOK
  <2>3. MarkOK
    BY <1>1, <1>2, <1>5, <1>6 DEF MarkOK, txs
  <2> QED
    BY <2>1, <2>2, <2>3
<1>12. \E m \in 0..Size(Trail[0]) : ListsFirst(blocks[0], Trail[0], m) /\ Resting(0, m)
  <2>1. CASE Marked
    <3>1. \A i, j \in DOMAIN BlockTxs[Start] : i < j =>
            \E k, l \in 1..Size(Start) : k < l /\ BlockTxs[Start][k] = BlockTxs[Start][i]
                                              /\ BlockTxs[Start][l] = BlockTxs[Start][j]
      BY <1>2, BlockIsSeq
    <3>2. Range(BlockTxs[Start]) =
            {t \in Txs : RelevantTo(t) /\ \E i \in 1..Size(Start) : BlockTxs[Start][i] = t}
      <4>1. \A t \in Range(BlockTxs[Start]) : t \in Txs /\ RelevantTo(t)
        BY <1>3, <2>1 DEF txs
      <4> QED
        BY <1>10, <4>1
    <3>3. ListsFirst(blocks[0], Trail[0], Size(Start))
      BY <1>6, <2>1, <3>1, <3>2 DEF ListsFirst, txs
    <3>4. Full(0, Size(Start))
      BY <1>5, <1>6 DEF Full
    <3>5. Resting(0, Size(Start))
      BY <1>1, <1>9, <2>1, <3>4 DEF Resting
    <3> QED
      BY <1>6, <1>10, <3>3, <3>5
  <2>2. CASE ~Marked
    <3>1. ListsFirst(blocks[0], Trail[0], 0)
      BY <1>6, <2>2, ListsNothing DEF txs
    <3>2. Resting(0, 0)
      BY <1>1, <1>5, <2>2 DEF Resting
    <3> QED
      BY <1>6, <1>10, <3>1, <3>2
  <2> QED
    BY <2>1, <2>2
<1>13. \E m \in 0..Size(Trail[0]) : Holds(0, m) /\ AtWork(0, m)
  <2>1. \A k \in 0..(0 - 1) : FALSE
    OBVIOUS
  <2> QED
    BY <1>6, <1>12, <2>1 DEF Holds, AtWork
<1>14. Follows
  <2>1. 0 \in 0..Here /\ phase \in {"down", "opening", "up"}
    BY <1>1, <1>5
  <2> QED
    BY <1>1, <1>7, <1>8, <1>c, <1>11, <1>13, <2>1 DEF Follows
<1> QED
  BY <1>0, <1>4, <1>14 DEF FollowInv

LEMMA UnchangedFollows ==
  ASSUME WalletInv, Follows, floor' = floor, UNCHANGED vars, UNCHANGED walletVars
  PROVE  Follows'
<1>1. PICK L \in 0..Here : \E m \in 0..Size(Trail[L]) : Holds(L, m) /\ AtWork(L, m)
  BY DEF Follows
<1>2. PICK m \in 0..Size(Trail[L]) : Holds(L, m) /\ AtWork(L, m)
  BY <1>1
<1>3. /\ UNCHANGED <<blocks, alarm, job, main, queue, phase, sync, hashes, work>>
      /\ Linked /\ MainOK /\ JobMatches /\ MarkOK /\ QueueOK /\ alarm = {}
      /\ phase \in {"down", "opening", "up"}
  BY DEF vars, walletVars, records, Follows
<1>4. At(L, m)
  BY <1>2, <1>3 DEF At
<1>5. /\ Linked' /\ Here' = Here /\ Holds(L, m)' /\ L \in 0..Here' /\ m \in 0..Size(Trail'[L])
      /\ Trail' = Trail /\ Safe' = Safe /\ FloorOK /\ Kept(floor)' /\ (Anchored => Anchored')
  BY <1>3, <1>4, Unmoved, LinkStays DEF Follows, FloorOK
<1>6. JobMatches' /\ MarkOK' /\ (\A b : OnMain(b)' <=> OnMain(b)) /\ Above' = Above
  BY <1>3, <1>5 DEF JobMatches, Underway, Pend, MarkOK, RelevantTo, OnMain, Above
<1>7. AtWork(L, m)'
  <2>1. Full(L, m)' <=> Full(L, m)
    BY <1>3, <1>5 DEF Full
  <2>2. \A k, b, n : Handed(k, b, n)' <=> Handed(k, b, n)
    BY <1>3, <1>5 DEF Handed
  <2>3. \A k, b : Adding(L, k, b)' <=> Adding(L, k, b)
    BY <1>3, <1>5, <2>2 DEF Adding
  <2>4. \A s : UndoIs(s)' <=> UndoIs(s)
    BY <1>3 DEF UndoIs
  <2>5. Resting(L, m) => Resting(L, m)'
    BY <1>3, <1>5, <1>6, <2>1 DEF Resting, Tip
  <2>6. Rescanning(L) => Rescanning(L)'
    BY <1>3, <1>5, <1>6 DEF Rescanning
  <2>7. Connecting(L, m) => Connecting(L, m)'
    BY <1>3, <2>1, <2>3 DEF Connecting
  <2>8. Scanning(L, m) => Scanning(L, m)'
    BY <1>3, <1>5, <2>3 DEF Scanning
  <2>9. RemovingBlock(L) => RemovingBlock(L)'
    BY <1>3, <1>5, <1>6, <2>4 DEF RemovingBlock
  <2>10. Reverting(L) => Reverting(L)'
    BY <1>3, <1>5, <1>6, <2>4 DEF Reverting
  <2> QED
    BY <1>2, <2>5, <2>6, <2>7, <2>8, <2>9, <2>10 DEF AtWork
<1>8. QueueOK'
  <2>1. Target' = Target
    BY <1>3, <1>5 DEF Target
  <2> QED
    BY <1>3, <1>5, <2>1, QueueStays
<1> QED
  BY <1>3, <1>5, <1>6, <1>7, <1>8, Rebuilt

(* Only the node moves its chain.                                          *)
LEMMA ChainStays ==
  ASSUME WalletStep \/ (\E t \in Txs : Abandon(t)) \/ Open \/ Opened
  PROVE  main' = main
<1>1. CASE ConnectBlock \/ AddTX \/ RemoveBlock \/ RollBack \/ StartRescan \/ Drop
  BY <1>1 DEF ConnectBlock, AddTX, RemoveBlock, RollBack, StartRescan, Drop
<1>2. CASE Skip \/ MaybeMark \/ Insert \/ UnconfirmNext \/ Connected \/ Disconnected \/ Reverted
  BY <1>2 DEF Skip, MaybeMark, Insert, UnconfirmNext, Connected, Disconnected, Reverted
<1>3. CASE LockChain \/ ScanBlock \/ Scanned \/ Caught \/ (Step /\ UNCHANGED walletVars)
  BY <1>3 DEF LockChain, ScanBlock, Scanned, Caught, walletVars
<1>4. CASE (\E t \in Txs : Abandon(t)) \/ Open \/ Opened
  BY <1>4 DEF Abandon, Open, Opened, walletVars
<1> QED
  BY <1>1, <1>2, <1>3, <1>4 DEF WalletStep

LEMMA NextFollows ==
  ASSUME ValidBlocks, StartsEarly, "rescan" \notin UserOps, FollowInv, [Next]_allVars
  PROVE  FollowInv'
<1>1. WalletInv /\ HeightInv /\ (~lost => Follows)
  BY DEF FollowInv
<1>2. WalletInv' /\ HeightInv'
  BY <1>1, NextKeeps, NextHeights
<1>3. ASSUME ~lost' PROVE Follows'
  <2>1. CASE UNCHANGED allVars
    <3>1. UNCHANGED vars /\ UNCHANGED walletVars /\ floor' = floor /\ ~lost
      BY <1>3, <2>1 DEF allVars, history
    <3> QED
      BY <1>1, <3>1, UnchangedFollows
  <2>2. CASE Undisturbed /\ Reached
    <3>1. Follows
      BY <1>1, <1>3, <2>2 DEF Reached
    <3>a. main' = main => floor' = floor
      BY <1>1, <2>2, <3>1, FloorStays DEF Follows
    <3>2. CASE NodeStep
      BY <1>1, <1>3, <2>2, <3>1, <3>2, ConnectFollows, ResetFollows, DisconnectedFollows, RelayFollows DEF NodeStep
    <3>3. CASE WalletStep
      BY <1>1, <3>1, <3>a, <3>3, ChainStays, WorkFollows
    <3>4. ~\E h \in Heights : Rescan(h)
      BY DEF Rescan
    <3>5. CASE \E t \in Txs : Abandon(t)
      BY <1>1, <3>1, <3>a, <3>5, ChainStays, AbandonFollows
    <3>6. CASE Open \/ Opened
      BY <1>1, <3>1, <3>a, <3>6, ChainStays, OpenFollows, OpenedFollows
    <3> QED
      BY <2>2, <3>2, <3>3, <3>4, <3>5, <3>6 DEF Undisturbed
  <2>3. CASE Crash
    <3>1. ~lost /\ ~(phase = "up" /\ work.op = "revert")
      BY <1>3, <2>3 DEF Crash
    <3> QED
      BY <1>1, <2>3, <3>1, CrashFollows
  <2>4. CASE BatchFails
    BY <1>3, <2>4 DEF BatchFails
  <2> QED
    BY <2>1, <2>2, <2>3, <2>4 DEF Next
<1> QED
  BY <1>2, <1>3 DEF FollowInv

(* Listing all of a block's is listing the block's.                        *)
LEMMA ListsAll ==
  ASSUME NEW b \in Blocks, NEW txs, ListsFirst(txs, b, Size(b))
  PROVE  Lists(txs, b)
<1>1. DOMAIN BlockTxs[b] = 1..Size(b) /\ Range(BlockTxs[b]) = {BlockTxs[b][i] : i \in 1..Size(b)}
      /\ \A i \in 1..Size(b) : BlockTxs[b][i] \in Txs
  BY BlockIsSeq
<1>2. Range(txs) = {t \in Range(BlockTxs[b]) : RelevantTo(t)}
  BY <1>1 DEF ListsFirst
<1> QED
  BY <1>1, <1>2 DEF ListsFirst, Lists

LEMMA FollowsIsCaughtUp ==
  ASSUME WalletInv, Follows
  PROVE  CaughtUp
<1> SUFFICES ASSUME Quiet
             PROVE  /\ hashes[Here] = Tip
                    /\ \A h \in Heights :
                         IF h > Height[Tip] THEN blocks[h] = <<>> ELSE Lists(blocks[h], main[h + 1])
  BY DEF CaughtUp, Here
<1>1. phase = "up" /\ work = NoWork /\ queue = <<>> /\ Linked /\ MainOK /\ QueueOK
  BY DEF Quiet, Follows
<1>2. PICK L \in 0..Here : \E m \in 0..Size(Trail[L]) : Holds(L, m) /\ AtWork(L, m)
  BY DEF Follows
<1>3. PICK m \in 0..Size(Trail[L]) : Holds(L, m) /\ AtWork(L, m)
  BY <1>2
<1>4. Resting(L, m)
  BY <1>1, <1>3 DEF AtWork, Rescanning, Connecting, Scanning, RemovingBlock, Reverting, NoWork
<1>5. L = Here /\ m = Size(Trail[Here])
  BY <1>1, <1>4 DEF Resting, Full
<1>6. /\ Here \in Nat /\ Here \in 0..Here /\ MaxHeight \in Nat /\ Heights = 0..MaxHeight
      /\ Tip \in Blocks /\ \A b : OnMain(b) <=> \E i \in 1..Len(main) : main[i] = b
  BY PlaceFacts DEF Heights
<1>7. \A k \in 0..Here : Trail[k] \in Blocks /\ Height[Trail[k]] = k
  BY <1>1, LinkFacts
<1>8. Trail[Here] = Tip
  <2>1. PICK x \in Blocks : x = Trail[Here]
    BY <1>6, <1>7
  <2>2. PICK y, S : y = Tip /\ S = Safe
    OBVIOUS
  <2>3. Leads(x, <<>>, y, S)
    BY <1>1, <2>1, <2>2 DEF QueueOK, Target, NoWork
  <2> QED
    BY <2>1, <2>2, <2>3, LeadsNowhere
<1>9. OnMain(Trail[Here]) /\ Height[Tip] = Here
  <2>1. Len(main) \in 1..Len(main) /\ Tip = main[Len(main)]
    BY PlaceFacts
  <2> QED
    BY <1>6, <1>7, <1>8, <2>1
<1>10. \A j \in 0..Here : Trail[j] = main[j + 1]
  BY <1>1, <1>6, <1>9, OnMainMeets
<1>11. \A j \in 0..Here : ListsFirst(blocks[j], Trail[j], Size(Trail[j]))
  <2>1. \A j \in 0..Here : j \in 0..(Here - 1) \/ j = Here
    BY <1>6
  <2> QED
    BY <1>3, <1>5, <2>1 DEF Holds
<1>12. ASSUME NEW h \in Heights
       PROVE  IF h > Here THEN blocks[h] = <<>> ELSE Lists(blocks[h], main[h + 1])
  <2>1. CASE h > Here
    <3>1. h \in (L + 1)..MaxHeight
      BY <1>5, <1>6, <2>1
    <3> QED
      BY <1>3, <2>1, <3>1 DEF Holds
  <2>2. CASE ~(h > Here)
    <3>1. h \in 0..Here
      BY <1>6, <2>2
    <3>2. Lists(blocks[h], Trail[h])
      BY <1>7, <1>11, <3>1, ListsAll
    <3> QED
      BY <1>10, <2>2, <3>1, <3>2
  <2> QED
    BY <2>1, <2>2
<1> QED
  BY <1>1, <1>8, <1>9, <1>12, LinkFacts

(* Whatever blocks came and went, were lost in a crash or found again, and *)
(* however many hashes syncState threw away: a wallet that started early   *)
(* enough and whose owner asks for no rescan ends up with its transactions *)
(* of the node's chain, in their order, unless the chain gave up           *)
(* keepBlocks blocks or more, a batch was lost or the process died in a    *)
(* rollback (_addBlock, _removeBlock, _resetChain, scan, revert,           *)
(* syncState, maybeMark).                                                  *)
THEOREM WalletFollowsChain ==
  ASSUME ValidBlocks, StartsEarly, "rescan" \notin UserOps
  PROVE  Spec => []FollowsChain
<1>1. Init => FollowInv
  BY InitFollows
<1>2. FollowInv /\ [Next]_allVars => FollowInv'
  BY NextFollows
<1>3. FollowInv => FollowsChain
  BY FollowsIsCaughtUp DEF FollowInv, FollowsChain
<1> QED
  BY <1>1, <1>2, <1>3, PTL DEF Spec

(* No assertion of the transaction database fails on the way: a confirmed  *)
(* transaction has its place in its block record, takes its coins from     *)
(* where they are and gives them back (txdb.js confirm, disconnect).       *)
THEOREM WalletKeepsAssertions ==
  ASSUME ValidBlocks, StartsEarly, "rescan" \notin UserOps
  PROVE  Spec => []KeepsAssertions
<1>1. Init => FollowInv
  BY InitFollows
<1>2. FollowInv /\ [Next]_allVars => FollowInv'
  BY NextFollows
<1>3. FollowInv => KeepsAssertions
  BY DEF FollowInv, Follows, KeepsAssertions
<1> QED
  BY <1>1, <1>2, <1>3, PTL DEF Spec

-----------------------------------------------------------------------------
(* The confirmed figure: the sum of the wallet's outputs that confirmed    *)
(* transactions make and leave unspent.                                    *)
MinedOuts == {o \in Mine : Creator[o] \in Confirmed /\ spender[o] \notin Confirmed}
Figure == IsFiniteSet(MinedOuts) /\ R.confirmed = Total(MinedOuts)

FigureInv == FollowInv /\ CountInv /\ (~lost => Figure)

LEMMA MinedField ==
  ASSUME NEW b \in Balance, NEW Put, NEW Del
  PROVE  /\ Mined(b, Put, Del).confirmed = b.confirmed + Total(Put) - Total(Del)
         /\ Coins(b, Put, Del).confirmed = b.confirmed
         /\ [b EXCEPT !.tx = @ + 1].confirmed = b.confirmed
         /\ [b EXCEPT !.tx = @ - 1].confirmed = b.confirmed
<1> DEFINE c == b.coin + Cardinality(Put) - Cardinality(Del)
           u == b.unconfirmed + Total(Put) - Total(Del)
           v == b.confirmed + Total(Put) - Total(Del)
<1>1. Coins(b, Put, Del) = [b EXCEPT !.coin = c, !.unconfirmed = u]
  BY DEF Coins
<1>2. Mined(b, Put, Del) = [b EXCEPT !.confirmed = v]
  BY DEF Mined
<1> HIDE DEF c, u, v
<1>3. Coins(b, Put, Del).confirmed = b.confirmed
  BY <1>1 DEF Balance
<1>4. Mined(b, Put, Del).confirmed = v
  BY <1>2 DEF Balance
<1>5. [b EXCEPT !.tx = @ + 1].confirmed = b.confirmed /\ [b EXCEPT !.tx = @ - 1].confirmed = b.confirmed
  BY DEF Balance
<1> QED
  BY <1>3, <1>4, <1>5 DEF v

(* A batch that moves the figure as it moves the outputs.                  *)
LEMMA FigureMoves ==
  ASSUME Figure, NEW Put \in SUBSET Outs, NEW Del \in SUBSET MinedOuts,
         IsFiniteSet(Put), MinedOuts \cap Put = {}, MinedOuts' = (MinedOuts \ Del) \cup Put,
         R'.confirmed = R.confirmed + Total(Put) - Total(Del)
  PROVE  Figure'
<1> DEFINE S == MinedOuts
           T == (S \ Del) \cup Put
<1>1. S \in SUBSET Outs /\ IsFiniteSet(S) /\ R.confirmed = Total(S)
  BY TXAssumption DEF Figure, MinedOuts
<1> HIDE DEF S
<1>2. IsFiniteSet(T) /\ Total(T) = Total(S) + Total(Put) - Total(Del)
  BY <1>1, TotalChange DEF S
<1>3. MinedOuts' = T
  BY DEF S
<1> HIDE DEF T
<1>4. R'.confirmed = Total(T)
  BY <1>1, <1>2
<1> QED
  BY <1>2, <1>3, <1>4 DEF Figure

LEMMA FigureStays ==
  ASSUME Figure, MinedOuts' = MinedOuts, R'.confirmed = R.confirmed
  PROVE  Figure'
BY DEF Figure

LEMMA OutsStay ==
  ASSUME UNCHANGED <<rec, spender>>
  PROVE  MinedOuts' = MinedOuts
BY DEF MinedOuts, Confirmed

(* A transaction of the wallet is confirmed: its outputs come, and what it *)
(* spends goes.                                                            *)
LEMMA OutsConfirmed ==
  ASSUME Records, NEW t \in Txs, t \notin Confirmed, Confirmed' = Confirmed \cup {t},
         \A u \in Confirmed : \A o \in In(u) : Creator[o] # t,
         \A o \in In(t) : spender[o] \notin Confirmed /\ spender'[o] = t,
         \A o \in Outs : o \notin In(t) => spender'[o] = spender[o],
         NEW gone, \A o \in gone : o \in In(t) /\ o \in Mine,
         \A o \in Mine : o \in In(t) => (o \in gone <=> Creator[o] \in Confirmed)
  PROVE  /\ gone \in SUBSET MinedOuts /\ MinedOuts \cap MyOuts(t) = {}
         /\ MinedOuts' = (MinedOuts \ gone) \cup MyOuts(t)
<1> USE Sentinels
<1>1. /\ Mine \subseteq Outs /\ \A o \in In(t) : o \in Outs /\ Creator[o] # t
      /\ \A o \in Mine : o \in MyOuts(t) <=> Creator[o] = t
      /\ \A o \in MyOuts(t) : o \in Mine /\ o \notin In(t)
  BY NotOwn, TXAssumption
<1>2. gone \in SUBSET MinedOuts
  BY DEF MinedOuts
<1>3. MinedOuts \cap MyOuts(t) = {}
  BY <1>1 DEF MinedOuts
<1>4. \A o \in Outs : spender[o] \in Confirmed => o \in In(spender[o])
  BY DEF Records, Spends, Confirmed
<1>5. ASSUME NEW o \in Mine
      PROVE  (Creator[o] \in Confirmed' /\ spender'[o] \notin Confirmed')
               <=> ((o \in MinedOuts /\ o \notin gone) \/ o \in MyOuts(t))
  <2>1. CASE o \in In(t)
    <3>1. spender'[o] \in Confirmed' /\ o \notin MyOuts(t)
      BY <1>1, <2>1
    <3>2. o \in MinedOuts => o \in gone
      BY <2>1 DEF MinedOuts
    <3> QED
      BY <3>1, <3>2
  <2>2. CASE o \notin In(t)
    <3>1. spender'[o] = spender[o] /\ o \notin gone
      BY <1>1, <2>2
    <3>2. spender[o] # t
      <4>1. spender[o] \in Txs => o \in In(spender[o])
        BY <1>1 DEF Records, RecordTypes, Spends
      <4> QED
        BY <2>2, <4>1
    <3>3. CASE Creator[o] = t
      <4>1. spender[o] \notin Confirmed
        BY <1>1, <1>4, <3>3
      <4> QED
        BY <1>1, <3>1, <3>2, <3>3, <4>1
    <3>4. CASE Creator[o] # t
      BY <1>1, <3>1, <3>2, <3>4 DEF MinedOuts
    <3> QED
      BY <3>3, <3>4
  <2> QED
    BY <2>1, <2>2
<1>6. MinedOuts' = {o \in Mine : Creator[o] \in Confirmed' /\ spender'[o] \notin Confirmed'}
  BY DEF MinedOuts
<1>7. \A o \in MinedOuts : o \in Mine
  BY DEF MinedOuts
<1>8. MinedOuts' = (MinedOuts \ gone) \cup MyOuts(t)
  BY <1>1, <1>5, <1>6, <1>7
<1> QED
  BY <1>2, <1>3, <1>8

LEMMA InsertFigure ==
  ASSUME ValidBlocks, StartsEarly, WalletInv, HeightInv, Follows, Counts, Figure, InsertTX
  PROVE  Figure'
<1> USE Sentinels
<1> DEFINE t == job.tx
           h == job.height
           spent == Spendable(t)
           resolved == Resolved(t)
           new == MyOuts(t) \ resolved
           pending == {o \in resolved : rec[spender[o]] = Unconfirmed}
           both == new \cup pending
           bal0 == Coins(state, new, spent)
           bal == [bal0 EXCEPT !.tx = @ + 1]
<1>0. Records /\ JobOK /\ Balances /\ state = R
  BY DEF WalletInv, Counts
<1>1. /\ job.op = "add" /\ job.path = <<>> /\ rec[t] = None /\ Removes(t, h) /\ Ours(t)
      /\ spender' = [o \in Outs |-> IF o \in In(t) THEN t ELSE spender[o]]
      /\ rec' = [rec EXCEPT ![t] = h]
  BY DEF InsertTX, Inserting, Working, Removes
<1>2. job \in Job /\ t \in Txs /\ h \in Heights \cup {Unconfirmed} /\ h # None /\ Underway
  BY <1>0, <1>1, JobFields DEF JobOK, Underway
<1>3. \A o \in In(t) : o \in Outs /\ spender[o] \in {None, t}
  <2>1. Pend(job) = {}
    <3>1. job.roots = {}
      BY <1>0, <1>1, <1>2 DEF JobOK
    <3> QED
      BY <1>1, <3>1 DEF Pend, Range
  <2> QED
    BY <1>0, <1>1, <1>2, <2>1, NotOwn DEF JobOK
<1>4. RecordTypes /\ Spends /\ (\A o \in Mine : CoinAgrees(o)) /\ Mine \subseteq Outs
      /\ Creator \in [Outs -> Txs \cup {None}]
  BY <1>0, TXAssumption DEF Records
<1>5. /\ t \notin Confirmed /\ (h = Unconfirmed => Confirmed' = Confirmed)
      /\ (h # Unconfirmed => Confirmed' = Confirmed \cup {t})
  BY <1>1, <1>2, <1>4 DEF Confirmed, RecordTypes
<1>6. /\ \A o \in In(t) : spender[o] = None /\ spender'[o] = t
      /\ \A o \in Outs : o \notin In(t) => spender'[o] = spender[o]
  BY <1>1, <1>3, <1>4 DEF Spends, RecordTypes
<1>7. /\ \A o \in spent : o \in In(t) /\ o \in Mine
      /\ \A o \in Mine : o \in In(t) => (o \in spent <=> KnownOut(o))
  BY <1>3, <1>4, <1>6 DEF Spendable, Credits, Spends, CoinAgrees
<1>8. /\ state \in Balance
      /\ new \in SUBSET Outs /\ spent \in SUBSET Outs /\ IsFiniteSet(new) /\ IsFiniteSet(spent)
  <2>1. spent \subseteq In(t) /\ new \subseteq MyOuts(t)
    BY <1>7
  <2> HIDE DEF spent, new
  <2> QED
    BY <1>0, <1>2, <2>1, FiniteParts, FS_Subset DEF Balances
<1>9. IF h = Unconfirmed THEN R' = bal ELSE R' = Mined(bal, both, spent)
  <2>1. IF h = Unconfirmed THEN Commit(bal) ELSE Commit(Mined(bal, new \cup pending, spent))
    BY DEF InsertTX
  <2> HIDE DEF bal, new, pending, spent
  <2> QED
    BY <2>1 DEF Commit
<1>10. bal \in Balance /\ bal.confirmed = R.confirmed
  <2> HIDE DEF new, spent
  <2>1. bal0 \in Balance /\ bal0.confirmed = R.confirmed
    BY <1>0, <1>8, BalanceEdits, MinedField
  <2> HIDE DEF bal0
  <2> QED
    BY <2>1, CountEdits, MinedField
<1> HIDE DEF spent, bal, bal0
<1>11. CASE h = Unconfirmed
  <2>1. \A o \in Mine : spender'[o] \in Confirmed' <=> spender[o] \in Confirmed
    BY <1>4, <1>5, <1>6, <1>11 DEF Confirmed
  <2>2. MinedOuts' = MinedOuts
    BY <1>5, <1>11, <2>1 DEF MinedOuts
  <2> QED
    BY <1>9, <1>10, <1>11, <2>2, FigureStays
<1>12. CASE h # Unconfirmed
  <2>1. PICK L \in 0..Here : \E m \in 0..Size(Trail[L]) : Holds(L, m) /\ AtWork(L, m)
    BY DEF Follows
  <2>2. PICK m \in 0..Size(Trail[L]) : Holds(L, m) /\ AtWork(L, m)
    BY <2>1
  <2>3. At(L, m) /\ JobMatches
    BY <2>2 DEF At, Follows
  <2>4. PICK n \in 1..Size(Trail[L]) : t = BlockTxs[Trail[L]][n] /\ m >= n - 1
    BY <1>1, <1>12, <2>2, <2>3, AddPlace
  <2>5. RelevantTo(t)
    BY <1>1, <1>2, RelevantIs
  <2>6. /\ \A o \in In(t) : Creator[o] # None /\ RelevantTo(Creator[o]) => Creator[o] \in Confirmed
        /\ \A u \in Confirmed : \A o \in In(u) : Creator[o] # t
    <3> HIDE DEF t
    <3> QED
      BY <1>5, <2>3, <2>4, <2>5, NextFits
  <2>7. \A o \in Mine : o \in In(t) => (o \in spent <=> Creator[o] \in Confirmed)
    <3>1. ASSUME NEW o \in Mine, o \in In(t), KnownOut(o) PROVE Creator[o] \in Confirmed
      <4>1. Creator[o] \in Txs /\ o \in MyOuts(Creator[o])
        BY <1>4, <3>1 DEF KnownOut, MyOuts, OutsOf
      <4> QED
        BY <2>6, <3>1, <4>1 DEF RelevantTo
    <3>2. \A o \in Mine : Creator[o] \in Confirmed => KnownOut(o)
      BY DEF Confirmed, KnownOut
    <3> QED
      BY <1>7, <3>1, <3>2
  <2>8. both = MyOuts(t)
    <3>1. ASSUME NEW o \in resolved PROVE rec[spender[o]] = Unconfirmed
      <4>1. o \in Outs /\ Creator[o] = t /\ spender[o] # None
        BY <1>2, <3>1, NotOwn DEF Resolved
      <4>2. spender[o] \in Txs /\ o \in In(spender[o]) /\ rec[spender[o]] \in Heights \cup {Unconfirmed}
        BY <1>4, <4>1 DEF Spends, RecordTypes
      <4> QED
        BY <2>6, <4>1, <4>2 DEF Confirmed
    <3>2. \A o \in resolved : o \in MyOuts(t)
      BY DEF Resolved
    <3> HIDE DEF resolved
    <3> QED
      BY <3>1, <3>2
  <2>9. /\ spent \in SUBSET MinedOuts /\ MinedOuts \cap MyOuts(t) = {}
        /\ MinedOuts' = (MinedOuts \ spent) \cup MyOuts(t)
    <3>1. \A o \in In(t) : spender[o] \notin Confirmed /\ spender'[o] = t
      BY <1>6, TXAssumption DEF Confirmed
    <3> HIDE DEF t
    <3> QED
      BY <1>0, <1>2, <1>5, <1>6, <1>7, <1>12, <2>6, <2>7, <3>1, OutsConfirmed
  <2>10. MyOuts(t) \in SUBSET Outs /\ IsFiniteSet(MyOuts(t))
    BY <1>2, FiniteParts
  <2>11. R'.confirmed = R.confirmed + Total(MyOuts(t)) - Total(spent)
    <3> HIDE DEF both
    <3> QED
      BY <1>9, <1>10, <1>12, <2>8, MinedField
  <2> QED
    BY <2>9, <2>10, <2>11, FigureMoves
<1> QED
  BY <1>11, <1>12

LEMMA ConfirmFigure ==
  ASSUME ValidBlocks, StartsEarly, WalletInv, HeightInv, Follows, Counts, Figure, ConfirmTX
  PROVE  Figure'
<1> USE Sentinels
<1> DEFINE t == job.tx
           h == job.height
           gone == HasUndo(t)
           bal == Coins(state, {}, {})
<1>0. Records /\ JobOK /\ Balances /\ state = R
  BY DEF WalletInv, Counts
<1>1. /\ job.op = "add" /\ job.path = <<>> /\ rec[t] = Unconfirmed /\ h # Unconfirmed
      /\ rec' = [rec EXCEPT ![t] = h]
  BY DEF ConfirmTX, Confirming, Working
<1>2. t \in Txs /\ h \in Heights
  BY <1>0, <1>1, JobFields DEF JobOK
<1>3. Late(t) = {}
  BY <1>0, <1>1, <1>2, NoneLate
<1>4. RecordTypes /\ Spends /\ (\A o \in Mine : CoinAgrees(o)) /\ Mine \subseteq Outs
      /\ Creator \in [Outs -> Txs \cup {None}]
  BY <1>0, TXAssumption DEF Records
<1>5. spender' = spender /\ R' = Mined(bal, MyOuts(t), gone)
  <2>1. spender' = [o \in Outs |-> IF o \in Late(t) THEN t ELSE spender[o]]
        /\ R' = Mined(Coins(state, {}, Late(t)), MyOuts(t), HasUndo(t) \cup Late(t))
    BY DEF ConfirmTX, Commit
  <2>2. HasUndo(t) \cup {} = HasUndo(t)
    OBVIOUS
  <2>3. spender' = spender
    BY <1>3, <1>4, <2>1 DEF RecordTypes
  <2> HIDE DEF t
  <2> QED
    BY <1>3, <2>1, <2>2, <2>3
<1>6. t \notin Confirmed /\ Confirmed' = Confirmed \cup {t}
  BY <1>1, <1>2, <1>4 DEF Confirmed, RecordTypes
<1>7. \A o \in In(t) : o \in Outs /\ spender[o] = t
  BY <1>1, <1>2, <1>4, NotOwn DEF Spends
<1>8. /\ \A o \in gone : o \in In(t) /\ o \in Mine
      /\ \A o \in Mine : o \in In(t) => (o \in gone <=> KnownOut(o))
  BY <1>2, <1>4, <1>7 DEF HasUndo, Spends, CoinAgrees
<1>9. bal \in Balance /\ bal.confirmed = R.confirmed
  <2>1. Total({}) = 0 /\ IsFiniteSet({}) /\ {} \in SUBSET Outs /\ state \in Balance
    BY <1>0, FS_EmptySet, TotalStep DEF Balances
  <2> QED
    BY <1>0, <2>1, BalanceEdits, MinedField
<1> HIDE DEF gone, bal
<1>10. PICK L \in 0..Here : \E m \in 0..Size(Trail[L]) : Holds(L, m) /\ AtWork(L, m)
  BY DEF Follows
<1>11. PICK m \in 0..Size(Trail[L]) : Holds(L, m) /\ AtWork(L, m)
  BY <1>10
<1>12. At(L, m) /\ JobMatches
  BY <1>11 DEF At, Follows
<1>13. PICK n \in 1..Size(Trail[L]) : t = BlockTxs[Trail[L]][n] /\ m >= n - 1
  BY <1>1, <1>11, <1>12, AddPlace
<1>14. RelevantTo(t)
  BY <1>1, <1>2, RelevantIs
<1>15. /\ \A o \in In(t) : Creator[o] # None /\ RelevantTo(Creator[o]) => Creator[o] \in Confirmed
       /\ \A u \in Confirmed : \A o \in In(u) : Creator[o] # t
  <2> HIDE DEF t
  <2> QED
    BY <1>6, <1>12, <1>13, <1>14, NextFits
<1>16. \A o \in Mine : o \in In(t) => (o \in gone <=> Creator[o] \in Confirmed)
  <2>1. ASSUME NEW o \in Mine, o \in In(t), KnownOut(o) PROVE Creator[o] \in Confirmed
    <3>1. Creator[o] \in Txs /\ o \in MyOuts(Creator[o])
      BY <1>4, <2>1 DEF KnownOut, MyOuts, OutsOf
    <3> QED
      BY <1>15, <2>1, <3>1 DEF RelevantTo
  <2>2. \A o \in Mine : Creator[o] \in Confirmed => KnownOut(o)
    BY DEF Confirmed, KnownOut
  <2> QED
    BY <1>8, <2>1, <2>2
<1>17. /\ gone \in SUBSET MinedOuts /\ MinedOuts \cap MyOuts(t) = {}
       /\ MinedOuts' = (MinedOuts \ gone) \cup MyOuts(t)
  <2>1. /\ \A o \in In(t) : spender[o] \notin Confirmed /\ spender'[o] = t
        /\ \A o \in Outs : o \notin In(t) => spender'[o] = spender[o]
    BY <1>5, <1>6, <1>7
  <2> HIDE DEF t
  <2> QED
    BY <1>0, <1>2, <1>6, <1>8, <1>15, <1>16, <2>1, OutsConfirmed
<1>18. MyOuts(t) \in SUBSET Outs /\ IsFiniteSet(MyOuts(t))
  BY <1>2, FiniteParts
<1>19. R'.confirmed = R.confirmed + Total(MyOuts(t)) - Total(gone)
  BY <1>5, <1>9, MinedField
<1> QED
  BY <1>17, <1>18, <1>19, FigureMoves

(* A confirmation that is taken back returns what it spent.                *)
LEMMA DisconnectFigure ==
  ASSUME ValidBlocks, WalletInv, HeightInv, Follows, Counts, Figure, DisconnectTX
  PROVE  Figure'
<1> USE Sentinels
<1> DEFINE t == job.tx
           back == HasUndo(t)
           kept == MyOuts(t) \cap Credits
<1>0. Records /\ JobOK /\ Balances /\ state = R
  BY DEF WalletInv, Counts
<1>1. /\ job.op = "unconfirm" /\ rec[t] \in Heights /\ spender' = spender
      /\ rec' = [rec EXCEPT ![t] = Unconfirmed] /\ R' = Mined(state, back, kept)
  BY DEF DisconnectTX, Disconnecting, Working, Commit
<1>2. t \in Txs
  BY <1>0, <1>1, JobFields DEF JobOK
<1>3. RecordTypes /\ Spends /\ (\A o \in Mine : CoinAgrees(o)) /\ Mine \subseteq Outs
      /\ Creator \in [Outs -> Txs \cup {None}]
  BY <1>0, TXAssumption DEF Records
<1>4. t \in Confirmed /\ Confirmed' = Confirmed \ {t}
  BY <1>1, <1>2, <1>3 DEF Confirmed, RecordTypes
<1>5. \A o \in In(t) : o \in Outs /\ spender[o] = t /\ Creator[o] # t
  BY <1>1, <1>2, <1>3, NotOwn DEF Spends
<1>6. /\ \A o \in back : o \in In(t) /\ o \in Mine
      /\ \A o \in Mine : o \in In(t) => (o \in back <=> KnownOut(o))
  BY <1>2, <1>3, <1>5 DEF HasUndo, Spends, CoinAgrees
<1>7. PICK L \in 0..Here : \E m \in 0..Size(Trail[L]) : Holds(L, m) /\ AtWork(L, m)
  BY DEF Follows
<1>8. PICK m \in 0..Size(Trail[L]) : Holds(L, m) /\ AtWork(L, m)
  BY <1>7
<1>9. At(L, m)
  BY <1>8 DEF At, Follows
<1>10. \A o \in In(t) : Creator[o] # None /\ RelevantTo(Creator[o]) => Creator[o] \in Confirmed
  <2> HIDE DEF t
  <2> QED
    BY <1>4, <1>9, Closed
<1>11. \A o \in Mine : o \in In(t) => (o \in back <=> Creator[o] \in Confirmed)
  <2>1. ASSUME NEW o \in Mine, o \in In(t), KnownOut(o) PROVE Creator[o] \in Confirmed
    <3>1. Creator[o] \in Txs /\ o \in MyOuts(Creator[o])
      BY <1>3, <2>1 DEF KnownOut, MyOuts, OutsOf
    <3> QED
      BY <1>10, <2>1, <3>1 DEF RelevantTo
  <2>2. \A o \in Mine : Creator[o] \in Confirmed => KnownOut(o)
    BY DEF Confirmed, KnownOut
  <2> QED
    BY <1>6, <2>1, <2>2
<1>12. \A o \in Mine : o \in kept <=> Creator[o] = t /\ spender[o] \notin Confirmed
  <2>1. ASSUME NEW o \in Mine, Creator[o] = t
        PROVE  credit[o] # None <=> spender[o] \notin Confirmed
    <3>1. KnownOut(o)
      BY <1>1, <1>2, <2>1, TXAssumption DEF KnownOut
    <3>2. o \in Outs /\ (spender[o] # None => spender[o] \in Txs /\ rec[spender[o]] \in Heights \cup {Unconfirmed})
      BY <1>3 DEF Spends, RecordTypes
    <3>3. None \notin Txs /\ Unconfirmed \notin Heights
      BY TXAssumption
    <3> QED
      BY <1>3, <3>1, <3>2, <3>3 DEF CoinAgrees, Confirmed
  <2>2. \A o \in Mine : o \in MyOuts(t) <=> Creator[o] = t
    BY <1>2, NotOwn
  <2> QED
    BY <1>3, <2>1, <2>2 DEF Credits
<1>13. \A o \in kept : o \in Mine
  BY DEF MyOuts
<1>14. kept \subseteq MyOuts(t) /\ back \subseteq In(t)
  BY <1>6
<1> HIDE DEF back, kept
<1>15. /\ kept \in SUBSET MinedOuts /\ MinedOuts \cap back = {}
       /\ MinedOuts' = (MinedOuts \ kept) \cup back
  <2>1. \A o \in kept : o \in MinedOuts
    BY <1>4, <1>12, <1>13 DEF MinedOuts
  <2>2. \A o \in back : o \notin MinedOuts
    BY <1>4, <1>5, <1>6 DEF MinedOuts
  <2>3. MinedOuts' = {o \in Mine : Creator[o] \in Confirmed' /\ spender[o] \notin Confirmed'}
    BY <1>1 DEF MinedOuts
  <2>4. ASSUME NEW o \in Mine
        PROVE  (Creator[o] \in Confirmed' /\ spender[o] \notin Confirmed')
                 <=> ((o \in MinedOuts /\ o \notin kept) \/ o \in back)
    <3>1. CASE o \in In(t)
      <4>1. spender[o] = t /\ Creator[o] # t /\ o \notin MinedOuts
        BY <1>4, <1>5, <3>1 DEF MinedOuts
      <4> QED
        BY <1>4, <1>11, <3>1, <4>1
    <3>2. CASE o \notin In(t)
      <4>1. spender[o] # t /\ o \notin back
        <5>1. spender[o] \in Txs => o \in In(spender[o])
          BY <1>3, TXAssumption DEF Spends
        <5> QED
          BY <1>2, <1>6, <3>2, <5>1
      <4> QED
        BY <1>4, <1>12, <4>1 DEF MinedOuts
    <3> QED
      BY <3>1, <3>2
  <2>5. \A o \in MinedOuts : o \in Mine
    BY DEF MinedOuts
  <2> QED
    BY <1>6, <2>1, <2>2, <2>3, <2>4, <2>5
<1>16. back \in SUBSET Outs /\ IsFiniteSet(back)
  BY <1>2, <1>14, FiniteParts, FS_Subset
<1>17. R'.confirmed = R.confirmed + Total(back) - Total(kept)
  BY <1>0, <1>1, MinedField DEF Balances
<1> QED
  BY <1>15, <1>16, <1>17, FigureMoves

(* What is erased is not confirmed.                                        *)
LEMMA EraseFigure ==
  ASSUME WalletInv, Follows, Counts, Figure, Erase
  PROVE  Figure'
<1> USE Sentinels
<1> DEFINE t == Top.tx
           bal == Coins(state, HasUndo(t), MyOuts(t))
<1>0. Records /\ JobOK /\ Balances /\ state = R
  BY DEF WalletInv, Counts
<1>1. /\ job.op \in {"add", "remove"} /\ job.path # <<>>
      /\ spender' = [o \in Outs |-> IF o \in In(t) THEN None ELSE spender[o]]
      /\ rec' = [rec EXCEPT ![t] = None]
      /\ R' = [IF Top.height = Unconfirmed THEN bal ELSE Mined(bal, HasUndo(t), MyOuts(t))
               EXCEPT !.tx = @ - 1]
  BY DEF Erase, Commit, Top
<1>2. /\ t \in Txs /\ rec[t] \in {Top.height, None} /\ Underway /\ Top \in Pend(job)
      /\ rec[t] = None => \A o \in In(t) : spender[o] = None
  BY <1>0, <1>1, EraseFinds
<1>3. Top.height = Unconfirmed
  BY <1>2 DEF Follows, JobMatches
<1>4. RecordTypes /\ Spends /\ Mine \subseteq Outs
  BY <1>0, TXAssumption DEF Records
<1>5. t \notin Confirmed /\ Confirmed' = Confirmed
  BY <1>1, <1>2, <1>3, <1>4 DEF Confirmed, RecordTypes
<1>6. \A o \in In(t) : spender[o] \in {None, t}
  BY <1>2, <1>4, NotOwn DEF Spends
<1>7. MinedOuts' = MinedOuts
  <2>1. \A o \in Mine : spender'[o] \in Confirmed <=> spender[o] \in Confirmed
    BY <1>1, <1>4, <1>5, <1>6, TXAssumption DEF Confirmed
  <2> QED
    BY <1>5, <2>1 DEF MinedOuts
<1>8. R'.confirmed = R.confirmed
  <2>1. /\ MyOuts(t) \in SUBSET Outs /\ IsFiniteSet(MyOuts(t))
        /\ HasUndo(t) \in SUBSET Outs /\ IsFiniteSet(HasUndo(t))
    <3>1. HasUndo(t) \subseteq In(t)
      BY DEF HasUndo
    <3> QED
      BY <1>2, <3>1, FiniteParts, FS_Subset
  <2>2. state \in Balance
    BY <1>0 DEF Balances
  <2>3. bal \in Balance /\ bal.confirmed = R.confirmed
    BY <1>0, <2>1, <2>2, BalanceEdits, MinedField
  <2> HIDE DEF bal
  <2>4. R' = [bal EXCEPT !.tx = @ - 1]
    BY <1>1, <1>3
  <2> QED
    BY <2>3, <2>4, MinedField
<1> QED
  BY <1>7, <1>8, FigureStays

LEMMA InitFigures ==
  ASSUME ValidBlocks, StartsEarly, Init
  PROVE  FigureInv
<1> USE Sentinels
<1> DEFINE txs == IF Marked THEN BlockTxs[Start] ELSE <<>>
           known == Range(txs)
<1>1. /\ rec = [t \in Txs |-> IF t \in known THEN 0 ELSE None]
      /\ credit = [o \in Outs |-> IF o \in Mine /\ Creator[o] \in known
                                  THEN [height |-> 0, spent |-> FALSE] ELSE None]
      /\ spender = [o \in Outs |-> None]
      /\ R.confirmed = Total(Credits)
  BY DEF Init, InitWith
<1>2. FollowInv /\ CountInv
  BY InitFollows, InitCounts
<1>3. Mine \subseteq Outs /\ Creator \in [Outs -> Txs \cup {None}] /\ None \notin Txs /\ 0 \in Heights /\ None \notin Heights
  BY TXAssumption DEF Heights
<1> HIDE DEF known
<1>4. \A o \in Mine : Creator[o] \in Confirmed <=> Creator[o] \in known /\ Creator[o] \in Txs
  BY <1>1, <1>3 DEF Confirmed
<1>5. \A t \in known : t \in Txs
  <2>1. Records
    BY <1>2 DEF CountInv, WalletInv
  <2>2. known = Range(txs) /\ txs \in Seq(Txs)
    BY WalletAssumption, EmptySeq DEF known
  <2> HIDE DEF txs
  <2> QED
    BY <2>2, ElementOfSeq, LenProperties DEF Range
<1>6. MinedOuts = Credits /\ Unspent = Credits
  <2> DEFINE coin == [height |-> 0, spent |-> FALSE]
  <2>0. coin # None
    <3>1. coin \in Credit
      BY <1>3 DEF Credit
    <3> QED
      BY <3>1
  <2>1. \A o \in Outs : o \in Credits <=> o \in Mine /\ Creator[o] \in known
    <3>1. credit = [o \in Outs |-> IF o \in Mine /\ Creator[o] \in known THEN coin ELSE None]
      BY <1>1
    <3> HIDE DEF coin
    <3> QED
      BY <2>0, <3>1 DEF Credits
  <2>2. \A o \in Credits : o \in Outs /\ credit[o].spent = FALSE
    BY <1>1 DEF Credits
  <2>3. \A o \in Mine : spender[o] \notin Confirmed
    BY <1>1, <1>3 DEF Confirmed
  <2>4. MinedOuts = Credits
    BY <1>3, <1>4, <1>5, <2>1, <2>2, <2>3 DEF MinedOuts
  <2> QED
    BY <2>2, <2>4 DEF Unspent
<1>7. IsFiniteSet(Unspent)
  BY <1>2 DEF CountInv, Counts
<1>8. Figure
  BY <1>1, <1>6, <1>7 DEF Figure
<1> QED
  BY <1>2, <1>8 DEF FigureInv

LEMMA NextFigures ==
  ASSUME ValidBlocks, StartsEarly, "rescan" \notin UserOps, ConflictsApart, FigureInv, [Next]_allVars
  PROVE  FigureInv'
<1>1. FollowInv /\ CountInv /\ WalletInv /\ HeightInv /\ Counts
      /\ (~lost => Follows) /\ (~lost => Figure)
  BY DEF FigureInv, FollowInv, CountInv
<1>2. FollowInv' /\ CountInv'
  BY <1>1, NextFollows, NextCounts
<1>3. ASSUME ~lost' PROVE Figure'
  <2>1. ~lost
    BY <1>3 DEF Next, Reached, Crash, BatchFails, allVars, history
  <2>2. CASE UNCHANGED <<rec, spender, R>>
    BY <1>1, <2>1, <2>2, OutsStay, FigureStays
  <2>3. CASE Erase \/ InsertTX \/ ConfirmTX \/ DisconnectTX
    BY <1>1, <2>1, <2>3, EraseFigure, InsertFigure, ConfirmFigure, DisconnectFigure
  <2> QED
    BY <2>2, <2>3, FourBatches
<1> QED
  BY <1>2, <1>3 DEF FigureInv

(* The balance on disk is the one that the heights on record call for.     *)
LEMMA BalanceIs ==
  ASSUME CountInv, Figure
  PROVE  R = Ledger!BalanceOf(rec)
<1>1. Records /\ Counts /\ Balances
  BY DEF CountInv, WalletInv
<1>2. FiguresAreRight
  BY CountsFigures
<1>3. /\ Mine \subseteq Outs /\ Creator \in [Outs -> Txs \cup {None}] /\ None \notin Txs
      /\ None \notin -1..MaxHeight /\ MaxHeight \in Nat
  BY TXAssumption
<1>4. Ledger!Mined(rec) = Confirmed
  <2>1. \A t \in Txs : rec[t] # None /\ rec[t] # -1 <=> rec[t] \in Heights
    <3>1. \A t \in Txs : rec[t] \in Heights \cup {Unconfirmed, None}
      BY <1>1 DEF Records, RecordTypes
    <3>2. None \notin Heights /\ -1 \notin Heights
      BY <1>3 DEF Heights
    <3> QED
      BY <3>1, <3>2 DEF Unconfirmed
  <2> QED
    BY <2>1 DEF Ledger!Mined, Ledger!Known, Confirmed
<1>5. Ledger!Unspent(Confirmed, Confirmed) = MinedOuts
  <2>1. Ledger!Unspent(Confirmed, Confirmed)
          = {o \in Mine : Creator[o] \in Confirmed /\ \A t \in Confirmed : o \notin In(t)}
    BY DEF Ledger!Unspent, Confirmed
  <2>2. ASSUME NEW o \in Mine
        PROVE  (\A t \in Confirmed : o \notin In(t)) <=> spender[o] \notin Confirmed
    <3>1. \A t \in Confirmed : t \in Txs /\ rec[t] # None
      BY <1>3 DEF Confirmed, Heights
    <3>2. /\ spender[o] # None => o \in In(spender[o])
          /\ \A t \in Confirmed : o \in In(t) => spender[o] = t
      BY <1>1, <1>3, <3>1 DEF Records, Spends
    <3>3. None \notin Confirmed
      BY <1>3 DEF Confirmed
    <3> QED
      BY <3>2, <3>3
  <2> QED
    BY <2>1, <2>2 DEF MinedOuts
<1>6. Ledger!Sum(MinedOuts) = Total(MinedOuts)
  BY SameSum
<1> DEFINE C == Ledger!BalanceOf(rec)
<1>7. C.confirmed = Total(MinedOuts)
  BY <1>4, <1>5, <1>6 DEF Ledger!BalanceOf
<1>8. C = [tx |-> C.tx, coin |-> C.coin, unconfirmed |-> C.unconfirmed, confirmed |-> C.confirmed]
  BY Zenon DEF Ledger!BalanceOf
<1>9. R.tx = C.tx /\ R.coin = C.coin /\ R.unconfirmed = C.unconfirmed
  BY <1>2 DEF FiguresAreRight
<1> HIDE DEF C
<1>10. R = [tx |-> R.tx, coin |-> R.coin, unconfirmed |-> R.unconfirmed, confirmed |-> R.confirmed]
  BY <1>1 DEF Balances, Balance
<1>11. R = C
  BY <1>7, <1>8, <1>9, <1>10 DEF Figure
<1> QED
  BY <1>11 DEF C

(* A step of the abstract wallet with the balance it calls for is one with *)
(* the balance on disk.                                                    *)
LEMMA MovesBoth ==
  ASSUME Promise!Next, R' = Ledger!BalanceOf(rec')
  PROVE  Ledger!Next
<1>1. ASSUME NEW t, NEW h, Promise!Now(t, h) PROVE Ledger!Now(t, h)
  BY <1>1 DEF Promise!Now, Ledger!Now
<1>2. PICK t \in Txs :
        \/ \E h \in 0..MaxHeight : Promise!Enter(t, h) \/ Promise!Confirm(t, h)
        \/ Promise!Enter(t, -1) \/ Promise!Unconfirm(t) \/ Promise!Leave(t)
  BY DEF Promise!Next
<1>3. Promise!Known(rec) = Ledger!Known(rec) /\ Promise!Mined(rec) = Ledger!Mined(rec)
  BY DEF Promise!Known, Promise!Mined, Ledger!Known, Ledger!Mined
<1>4. \A h : /\ Promise!Enter(t, h) => Ledger!Enter(t, h)
             /\ Promise!Confirm(t, h) => Ledger!Confirm(t, h)
  BY <1>1, <1>3 DEF Promise!Enter, Promise!Confirm, Ledger!Enter, Ledger!Confirm
<1>5. Promise!Unconfirm(t) => Ledger!Unconfirm(t)
  BY <1>1, <1>3 DEF Promise!Unconfirm, Ledger!Unconfirm
<1>6. Promise!Leave(t) => Ledger!Leave(t)
  BY <1>1, <1>3 DEF Promise!Leave, Ledger!Leave
<1> QED
  BY <1>2, <1>4, <1>5, <1>6 DEF Ledger!Next

(* The wallet implements module WalletLedger: every batch is one step of   *)
(* it, with the balance that the transactions on record call for, through  *)
(* relayed, mined, reorganised and abandoned transactions, conflicts and   *)
(* crashes, until it loses a batch, dies in a rollback or the chain gives  *)
(* up keepBlocks blocks or more.  Where two inputs of a transaction are    *)
(* contested by one other (txdb.js:1512) a removal would count it twice:   *)
(* ConflictsApart leaves that out.                                         *)
THEOREM WalletKeepsPromise ==
  ASSUME ValidBlocks, StartsEarly, "rescan" \notin UserOps, ConflictsApart
  PROVE  Spec => KeepsPromise
<1>1. Init => FigureInv
  BY InitFigures
<1>2. FigureInv /\ [Next]_allVars => FigureInv'
  BY NextFigures
<1>3. ASSUME FigureInv, FigureInv', [Next]_allVars
      PROVE  [~lost => Ledger!Next]_<<rec, R>>
  <2>1. SUFFICES ASSUME ~lost PROVE Ledger!Next \/ UNCHANGED <<rec, R>>
    OBVIOUS
  <2>2. CountInv /\ WalletInv /\ Figure
    BY <1>3, <2>1 DEF FigureInv, CountInv
  <2>3. CASE lost'
    <3>1. CASE Crash \/ BatchFails \/ UNCHANGED allVars
      BY <2>1, <2>3, <3>1 DEF Crash, BatchFails, CommitFails, records, allVars, history
    <3>2. CASE Undisturbed /\ Reached
      <4>1. main' # main
        <5>1. FloorOK /\ Height[Tip] \in Nat
          BY <1>3, <2>1, <2>2, HeightsAreNat, PlaceFacts DEF FigureInv, FollowInv, Follows
        <5>2. Height[Tip'] < floor
          BY <2>1, <2>3, <3>2 DEF Reached
        <5> QED
          BY <5>1, <5>2 DEF FloorOK, Tip
      <4>2. NodeStep \/ \E h \in Heights : Rescan(h)
        BY <3>2, <4>1, ChainStays DEF Undisturbed
      <4> QED
        BY <4>2 DEF NodeStep, Connect, ChainReset, Disconnect, Relay, Rescan, vars, records
    <3> QED
      BY <1>3, <3>1, <3>2 DEF Next
  <2>4. CASE ~lost'
    <3>1. CountInv' /\ Figure'
      BY <1>3, <2>4 DEF FigureInv
    <3>2. R = Ledger!BalanceOf(rec) /\ R' = Ledger!BalanceOf(rec')
      <4>1. R = Ledger!BalanceOf(rec)
        BY <2>2, BalanceIs
      <4>2. (CountInv /\ Figure => R = Ledger!BalanceOf(rec))'
        BY BalanceIs, PTL
      <4> QED
        BY <3>1, <4>1, <4>2
    <3>3. Promise!Next \/ UNCHANGED rec
      BY <1>3, <2>2, NextMoves
    <3> QED
      BY <3>2, <3>3, MovesBoth
  <2> QED
    BY <2>3, <2>4
<1>4. Init => Ledger!Init
  <2> SUFFICES ASSUME Init PROVE Ledger!Init
    OBVIOUS
  <2>1. CountInv /\ Figure
    BY <1>1 DEF FigureInv, Init, InitWith
  <2>2. R = Ledger!BalanceOf(rec)
    BY <2>1, BalanceIs
  <2>3. rec \in [Txs -> {0, None}]
    BY DEF Init, InitWith
  <2> QED
    BY <2>2, <2>3 DEF Ledger!Init
<1> QED
  BY <1>1, <1>2, <1>3, <1>4, PTL DEF Spec, KeepsPromise
=============================================================================
