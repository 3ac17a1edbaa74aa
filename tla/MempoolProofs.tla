--------------------------- MODULE MempoolProofs ----------------------------
(***************************************************************************)
(* Proofs about module Mempool, for any transactions, blocks and limits:   *)
(* the index of spent outputs is exact, the index of orphans faithful, the *)
(* pool and the orphans stay within their limits, and between calls the    *)
(* pool can be mined on top of the chain.                                  *)
(***************************************************************************)
EXTENDS MempoolCache, FiniteSetTheorems, SequenceTheorems, WellFoundedInduction, TLAPS

-----------------------------------------------------------------------------
(* A set of numbers that is not empty has a least one.                     *)
LEMMA LeastNumber ==
  ASSUME NEW S, S \subseteq Nat, S # {}
  PROVE  \E m \in S : \A n \in S : m <= n
<1> DEFINE R == OpToRel(<, Nat)
<1>1. IsWellFoundedOn(R, Nat)
  BY NatLessThanWellFounded
<1>2. \A x, y \in Nat : <<y, x>> \in R <=> y < x
  BY DEF OpToRel
<1> HIDE DEF R
<1>3. PICK m \in S : \A n \in S : ~(<<n, m>> \in R)
  BY <1>1, WFMin
<1>4. \A n \in S : ~(n < m)
  BY <1>2, <1>3
<1> QED
  BY <1>4

(* The positions of P are numbered by how many of P are not behind them.   *)
RankIn(P, i) == Cardinality({j \in P : j <= i})

(* They are numbered from 1 on, each once and without a gap.               *)
LEMMA RankIsBijective ==
  ASSUME NEW n \in Nat, NEW P \in SUBSET (1..n)
  PROVE  /\ IsFiniteSet(P) /\ Cardinality(P) \in Nat
         /\ \A i \in P : RankIn(P, i) \in 1..Cardinality(P)
         /\ \A i, j \in P : RankIn(P, i) = RankIn(P, j) => i = j
         /\ \A k \in 1..Cardinality(P) : \E i \in P : RankIn(P, i) = k
<1> DEFINE upto(i) == {j \in P : j <= i}
           K == 1..Cardinality(P)
           rank == [i \in P |-> RankIn(P, i)]
<1>1. IsFiniteSet(P) /\ Cardinality(P) \in Nat
  <2>1. IsFiniteSet(1..n)
    BY FS_Interval
  <2>2. QED
    BY <2>1, FS_Subset, FS_CardinalityType
<1>2. ASSUME NEW i \in P PROVE RankIn(P, i) \in K
  <2>1. upto(i) \in SUBSET P /\ i \in upto(i)
    OBVIOUS
  <2>2. /\ IsFiniteSet(upto(i)) /\ Cardinality(upto(i)) \in Nat
        /\ Cardinality(upto(i)) <= Cardinality(P)
    BY <1>1, <2>1, FS_Subset, FS_CardinalityType
  <2>3. Cardinality(upto(i)) # 0
    BY <2>1, <2>2, FS_EmptySet
  <2>4. QED
    BY <1>1, <2>2, <2>3 DEF RankIn
<1>3. ASSUME NEW i \in P, NEW j \in P, i < j PROVE RankIn(P, i) # RankIn(P, j)
  <2>1. upto(j) \in SUBSET P /\ upto(i) \in SUBSET upto(j) /\ j \in upto(j) /\ j \notin upto(i)
    <3>1. \A k \in P : k \in Nat
      OBVIOUS
    <3>2. \A k \in P : k <= i => k <= j
      BY <1>3, <3>1
    <3>3. ~(j <= i) /\ j <= j
      BY <1>3, <3>1
    <3>4. QED
      BY <3>2, <3>3
  <2>2. IsFiniteSet(upto(j))
    BY <1>1, <2>1, FS_Subset
  <2>3. upto(i) # upto(j)
    BY <2>1
  <2> HIDE DEF upto
  <2>4. Cardinality(upto(i)) # Cardinality(upto(j))
    BY <2>1, <2>2, <2>3, FS_Subset
  <2>5. QED
    BY <2>4 DEF RankIn, upto
<1>4. \A i, j \in P : RankIn(P, i) = RankIn(P, j) => i = j
  <2>1. \A i, j \in P : i < j \/ j < i \/ i = j
    OBVIOUS
  <2>2. QED
    BY <1>3, <2>1
<1>5. \A k \in K : \E i \in P : RankIn(P, i) = k
  <2>1. IsFiniteSet(K) /\ Cardinality(K) = Cardinality(P)
    BY <1>1, FS_Interval
  <2>2. rank \in Injection(P, K)
    BY <1>2, <1>4 DEF Injection, IsInjective
  <2>3. rank \in Surjection(P, K)
    BY <1>1, <2>1, <2>2, FS_Injection
  <2>4. QED
    BY <2>3 DEF Surjection
<1> QED
  BY <1>1, <1>2, <1>4, <1>5

(* What is picked from s is what s has at those positions, each once.      *)
LEMMA PickedMembers ==
  ASSUME NEW S, NEW s \in Seq(S), NEW P \in SUBSET DOMAIN s
  PROVE  /\ Picked(s, P) \in Seq(S)
         /\ DOMAIN Picked(s, P) = 1..Cardinality(P)
         /\ \A k \in DOMAIN Picked(s, P) : \E i \in P : Picked(s, P)[k] = s[i]
         /\ \A i \in P : \E k \in DOMAIN Picked(s, P) : Picked(s, P)[k] = s[i]
         /\ (\A i, j \in DOMAIN s : s[i] = s[j] => i = j)
              => \A k, l \in DOMAIN Picked(s, P) : Picked(s, P)[k] = Picked(s, P)[l] => k = l
<1> DEFINE K == 1..Cardinality(P)
           at(k) == CHOOSE i \in P : RankIn(P, i) = k
<1>1. Len(s) \in Nat /\ DOMAIN s = 1..Len(s)
  BY LenProperties
<1>2. /\ Cardinality(P) \in Nat
      /\ \A i \in P : RankIn(P, i) \in K
      /\ \A i, j \in P : RankIn(P, i) = RankIn(P, j) => i = j
      /\ \A k \in K : \E i \in P : RankIn(P, i) = k
  BY <1>1, RankIsBijective
<1>3. \A k \in K : at(k) \in P /\ RankIn(P, at(k)) = k
  BY <1>2
<1>4. Picked(s, P) = [k \in K |-> s[at(k)]]
  BY DEF Picked, RankIn
<1>5. \A i \in P : s[i] \in S
  BY <1>1, ElementOfSeq
<1>6. \A i \in P : at(RankIn(P, i)) = i
  BY <1>2, <1>3
<1> HIDE DEF at
<1>7. [k \in K |-> s[at(k)]] \in Seq(S)
  BY <1>2, <1>3, <1>5
<1> QED
  BY <1>1, <1>2, <1>3, <1>4, <1>6, <1>7

(* Forgetting t leaves everything else, each as often as before.           *)
LEMMA WithoutMembers ==
  ASSUME NEW s \in Seq(Txs), NEW t
  PROVE  /\ Without(s, t) \in Seq(Txs)
         /\ \A k \in DOMAIN Without(s, t) :
              Without(s, t)[k] # t /\ \E i \in DOMAIN s : Without(s, t)[k] = s[i]
         /\ \A i \in DOMAIN s : s[i] # t => \E k \in DOMAIN Without(s, t) : Without(s, t)[k] = s[i]
         /\ (\A i, j \in DOMAIN s : s[i] = s[j] => i = j)
              => \A k, l \in DOMAIN Without(s, t) : Without(s, t)[k] = Without(s, t)[l] => k = l
<1> DEFINE P == {i \in DOMAIN s : s[i] # t}
<1>1. P \in SUBSET DOMAIN s /\ Without(s, t) = Picked(s, P)
  BY DEF Without
<1>2. \A i \in P : s[i] # t
  OBVIOUS
<1>3. \A i \in DOMAIN s : s[i] # t => i \in P
  OBVIOUS
<1> HIDE DEF P
<1>4. /\ Picked(s, P) \in Seq(Txs)
      /\ \A k \in DOMAIN Picked(s, P) : \E i \in P : Picked(s, P)[k] = s[i]
      /\ \A i \in P : \E k \in DOMAIN Picked(s, P) : Picked(s, P)[k] = s[i]
      /\ (\A i, j \in DOMAIN s : s[i] = s[j] => i = j)
           => \A k, l \in DOMAIN Picked(s, P) : Picked(s, P)[k] = Picked(s, P)[l] => k = l
  BY <1>1, PickedMembers
<1>5. \A k \in DOMAIN Picked(s, P) : Picked(s, P)[k] # t /\ \E i \in DOMAIN s : Picked(s, P)[k] = s[i]
  BY <1>1, <1>2, <1>4
<1> QED
  BY <1>1, <1>3, <1>4, <1>5

(* What is in an agenda, and what is left when its head is done.           *)
ItemsOf(s) == {s[i] : i \in 1..Len(s)}

(* The items of an agenda are its head and those of the rest.              *)
LEMMA TailItems ==
  ASSUME NEW s \in Seq(Item), s # <<>>
  PROVE  /\ Tail(s) \in Seq(Item) /\ Head(s) \in Item
         /\ ItemsOf(s) = ItemsOf(Tail(s)) \cup {Head(s)}
<1>1. /\ Len(s) \in Nat \ {0} /\ Head(s) = s[1] /\ Head(s) \in Item
      /\ Tail(s) \in Seq(Item) /\ Len(Tail(s)) = Len(s) - 1
      /\ \A i \in 1..Len(Tail(s)) : Tail(s)[i] = s[i + 1]
  BY EmptySeq, HeadTailProperties
<1>2. ItemsOf(Tail(s)) \cup {Head(s)} \subseteq ItemsOf(s)
  <2>1. \A i \in 1..Len(Tail(s)) : i + 1 \in 1..Len(s)
    BY <1>1
  <2>2. 1 \in 1..Len(s)
    BY <1>1
  <2>3. QED
    BY <1>1, <2>1, <2>2 DEF ItemsOf
<1>3. ASSUME NEW i \in 1..Len(s) PROVE s[i] \in ItemsOf(Tail(s)) \cup {Head(s)}
  <2>1. CASE i = 1
    BY <1>1, <2>1
  <2>2. CASE i # 1
    <3>1. i - 1 \in 1..Len(Tail(s)) /\ (i - 1) + 1 = i
      BY <1>1, <2>2
    <3>2. Tail(s)[i - 1] = s[i]
      BY <1>1, <3>1
    <3>3. QED
      BY <3>1, <3>2 DEF ItemsOf
  <2>3. QED
    BY <2>1, <2>2
<1> QED
  BY <1>1, <1>2, <1>3 DEF ItemsOf

(* The items of two agendas put together are those of either.              *)
LEMMA ConcatItems ==
  ASSUME NEW s \in Seq(Item), NEW u \in Seq(Item)
  PROVE  s \o u \in Seq(Item) /\ ItemsOf(s \o u) = ItemsOf(s) \cup ItemsOf(u)
<1>1. /\ s \o u \in Seq(Item) /\ Len(s \o u) = Len(s) + Len(u)
      /\ Len(s) \in Nat /\ Len(u) \in Nat
      /\ \A i \in 1..(Len(s) + Len(u)) : (s \o u)[i] = IF i <= Len(s) THEN s[i] ELSE u[i - Len(s)]
  BY ConcatProperties, LenProperties
<1>2. ASSUME NEW i \in 1..(Len(s) + Len(u)) PROVE (s \o u)[i] \in ItemsOf(s) \cup ItemsOf(u)
  <2>1. CASE i <= Len(s)
    BY <1>1, <2>1 DEF ItemsOf
  <2>2. CASE ~(i <= Len(s))
    <3>1. i - Len(s) \in 1..Len(u)
      BY <1>1, <2>2
    <3>2. QED
      BY <1>1, <2>2, <3>1 DEF ItemsOf
  <2>3. QED
    BY <2>1, <2>2
<1>3. ASSUME NEW i \in 1..Len(s) PROVE s[i] \in ItemsOf(s \o u)
  <2>1. i \in 1..(Len(s) + Len(u)) /\ i <= Len(s)
    BY <1>1
  <2>2. (s \o u)[i] = s[i]
    BY <1>1, <2>1
  <2>3. QED
    BY <1>1, <2>1, <2>2 DEF ItemsOf
<1>4. ASSUME NEW i \in 1..Len(u) PROVE u[i] \in ItemsOf(s \o u)
  <2>1. i + Len(s) \in 1..(Len(s) + Len(u)) /\ ~(i + Len(s) <= Len(s)) /\ (i + Len(s)) - Len(s) = i
    BY <1>1
  <2>2. (s \o u)[i + Len(s)] = u[i]
    BY <1>1, <2>1
  <2>3. QED
    BY <1>1, <2>1, <2>2 DEF ItemsOf
<1> QED
  BY <1>1, <1>2, <1>3, <1>4 DEF ItemsOf

(* A failed assertion drops nothing that a block still has to do.          *)
LEMMA UnwoundItems ==
  ASSUME NEW s \in Seq(Item)
  PROVE  /\ Unwound(s) \in Seq(Item)
         /\ ItemsOf(Unwound(s)) \subseteq ItemsOf(s)
         /\ \A x \in ItemsOf(s) : x.from = "block" /\ x.do # "trim" => x \in ItemsOf(Unwound(s))
<1> DEFINE outer == {i \in DOMAIN s : s[i].from = "block" /\ s[i].do # "trim"}
           first == CHOOSE i \in outer : \A j \in outer : i <= j
<1>1. Len(s) \in Nat /\ DOMAIN s = 1..Len(s) /\ \A i \in 1..Len(s) : s[i] \in Item
  BY LenProperties, ElementOfSeq
<1>2. CASE outer = {}
  <2>1. Unwound(s) = <<>>
    BY <1>2 DEF Unwound
  <2>2. ItemsOf(<<>>) = {} /\ <<>> \in Seq(Item)
    BY EmptySeq DEF ItemsOf
  <2>3. QED
    BY <1>1, <1>2, <2>1, <2>2 DEF ItemsOf
<1>3. CASE outer # {}
  <2>1. first \in outer /\ \A j \in outer : first <= j
    <3>1. outer \subseteq Nat
      BY <1>1
    <3> HIDE DEF outer
    <3>2. \E i \in outer : \A j \in outer : i <= j
      BY <1>3, <3>1, LeastNumber
    <3>3. QED
      BY <3>2
  <2>2. Unwound(s) = SubSeq(s, first, Len(s))
    BY <1>3 DEF Unwound
  <2>3. first \in 1..Len(s)
    BY <1>1, <2>1
  <2> HIDE DEF first
  <2>4. \A i \in first..Len(s) : i \in 1..Len(s) /\ s[i] \in Item
    BY <1>1, <2>3
  <2>5. /\ SubSeq(s, first, Len(s)) \in Seq(Item)
        /\ Len(SubSeq(s, first, Len(s))) = Len(s) - first + 1
        /\ \A i \in 1..(Len(s) - first + 1) : SubSeq(s, first, Len(s))[i] = s[first + i - 1]
    <3>1. first \in Int /\ Len(s) \in Int /\ first <= Len(s)
      BY <1>1, <2>3
    <3>2. QED
      BY <2>4, <3>1, SubSeqProperties
  <2>6. ItemsOf(Unwound(s)) \subseteq ItemsOf(s)
    <3>1. \A i \in 1..(Len(s) - first + 1) : first + i - 1 \in 1..Len(s)
      BY <1>1, <2>3
    <3>2. QED
      BY <2>2, <2>5, <3>1 DEF ItemsOf
  <2>7. ASSUME NEW i \in 1..Len(s), s[i].from = "block", s[i].do # "trim"
        PROVE  s[i] \in ItemsOf(Unwound(s))
    <3>1. i \in outer
      BY <1>1, <2>7
    <3>2. first <= i
      BY <2>1, <3>1
    <3>3. i - first + 1 \in 1..(Len(s) - first + 1) /\ first + (i - first + 1) - 1 = i
      BY <1>1, <2>3, <3>2
    <3>4. SubSeq(s, first, Len(s))[i - first + 1] = s[i]
      BY <2>5, <3>3
    <3>5. QED
      BY <2>2, <2>5, <3>3, <3>4 DEF ItemsOf
  <2>8. QED
    BY <2>2, <2>5, <2>6, <2>7 DEF ItemsOf
<1> QED
  BY <1>2, <1>3

(* Done is the last thing a call does.                                     *)
DoneEnds(s) == \A i \in 1..Len(s) : s[i] = Done => i = Len(s)

(* That is so of what an agenda ends with ...                              *)
LEMMA SuffixEnds ==
  ASSUME NEW s \in Seq(Item), DoneEnds(s), NEW k \in 1..Len(s)
  PROVE  DoneEnds(SubSeq(s, k, Len(s)))
<1>1. Len(s) \in Nat /\ \A i \in 1..Len(s) : s[i] \in Item
  BY LenProperties, ElementOfSeq
<1>2. /\ Len(SubSeq(s, k, Len(s))) = Len(s) - k + 1
      /\ \A i \in 1..(Len(s) - k + 1) : SubSeq(s, k, Len(s))[i] = s[k + i - 1]
  <2>1. k \in Int /\ Len(s) \in Int /\ k <= Len(s) /\ \A i \in k..Len(s) : s[i] \in Item
    BY <1>1
  <2>2. QED
    BY <2>1, SubSeqProperties
<1>3. ASSUME NEW i \in 1..(Len(s) - k + 1), SubSeq(s, k, Len(s))[i] = Done
      PROVE  i = Len(s) - k + 1
  <2>1. s[k + i - 1] = Done /\ k + i - 1 \in 1..Len(s)
    BY <1>1, <1>2, <1>3
  <2>2. k + i - 1 = Len(s)
    BY <2>1 DEF DoneEnds
  <2>3. QED
    BY <1>1, <2>2
<1> QED
  BY <1>2, <1>3 DEF DoneEnds

(* ... once its head is done or an assertion failed ...                    *)
LEMMA RestEnds ==
  ASSUME NEW s \in Seq(Item), DoneEnds(s)
  PROVE  /\ s # <<>> => DoneEnds(Tail(s))
         /\ DoneEnds(Unwound(s))
<1>0. DoneEnds(<<>>)
  BY DEF DoneEnds
<1>1. ASSUME s # <<>> PROVE DoneEnds(Tail(s))
  <2>1. /\ Len(s) \in Nat \ {0} /\ Len(Tail(s)) = Len(s) - 1
        /\ \A i \in 1..Len(Tail(s)) : Tail(s)[i] = s[i + 1]
    BY <1>1, EmptySeq, HeadTailProperties
  <2>2. ASSUME NEW i \in 1..(Len(s) - 1), s[i + 1] = Done PROVE i = Len(s) - 1
    <3>1. i + 1 \in 1..Len(s)
      BY <2>1
    <3>2. i + 1 = Len(s)
      BY <2>2, <3>1 DEF DoneEnds
    <3>3. i \in Int /\ Len(s) \in Int
      BY <2>1
    <3>4. QED
      BY <3>2, <3>3
  <2>3. QED
    BY <2>1, <2>2 DEF DoneEnds
<1>2. DoneEnds(Unwound(s))
  <2> DEFINE outer == {i \in DOMAIN s : s[i].from = "block" /\ s[i].do # "trim"}
             first == CHOOSE i \in outer : \A j \in outer : i <= j
  <2>1. Len(s) \in Nat /\ DOMAIN s = 1..Len(s)
    BY LenProperties
  <2>2. CASE outer = {}
    <3>1. Unwound(s) = <<>>
      BY <2>2 DEF Unwound
    <3>2. QED
      BY <1>0, <3>1
  <2>3. CASE outer # {}
    <3>1. first \in outer
      <4>1. outer \subseteq Nat
        BY <2>1
      <4> HIDE DEF outer
      <4>2. \E i \in outer : \A j \in outer : i <= j
        BY <2>3, <4>1, LeastNumber
      <4>3. QED
        BY <4>2
    <3>2. Unwound(s) = SubSeq(s, first, Len(s))
      BY <2>3 DEF Unwound
    <3>3. first \in 1..Len(s)
      BY <2>1, <3>1
    <3> HIDE DEF first
    <3>4. QED
      BY <3>2, <3>3, SuffixEnds
  <2>4. QED
    BY <2>2, <2>3
<1> QED
  BY <1>1, <1>2

(* ... and of anything else put before it.                                 *)
LEMMA ConcatEnds ==
  ASSUME NEW s \in Seq(Item), NEW u \in Seq(Item), Done \notin ItemsOf(s), DoneEnds(u)
  PROVE  DoneEnds(s \o u)
<1>1. /\ Len(s \o u) = Len(s) + Len(u) /\ Len(s) \in Nat /\ Len(u) \in Nat
      /\ \A i \in 1..(Len(s) + Len(u)) : (s \o u)[i] = IF i <= Len(s) THEN s[i] ELSE u[i - Len(s)]
  BY ConcatProperties, LenProperties
<1>2. ASSUME NEW i \in 1..(Len(s) + Len(u)), (s \o u)[i] = Done PROVE i = Len(s) + Len(u)
  <2>1. ~(i <= Len(s))
    <3>1. SUFFICES ASSUME i <= Len(s) PROVE FALSE
      OBVIOUS
    <3>2. s[i] = Done /\ i \in 1..Len(s)
      BY <1>1, <1>2, <3>1
    <3>3. QED
      BY <3>2 DEF ItemsOf
  <2>2. u[i - Len(s)] = Done /\ i - Len(s) \in 1..Len(u)
    BY <1>1, <1>2, <2>1
  <2>3. i - Len(s) = Len(u)
    BY <2>2 DEF DoneEnds
  <2>4. QED
    BY <1>1, <2>3
<1> QED
  BY <1>1, <1>2 DEF DoneEnds

-----------------------------------------------------------------------------
(* The index of orphans.  A transaction has finitely many parents, and no  *)
(* more parents are missing than inputs.                                   *)
LEMMA FiniteParents ==
  ASSUME NEW t \in Txs
  PROVE  /\ ParentsOf(t) \subseteq All /\ IsFiniteSet(ParentsOf(t))
         /\ MissingParents(t) \subseteq ParentsOf(t)
         /\ IsFiniteSet(MissingParents(t)) /\ Cardinality(Missing(t)) \in Nat
         /\ Cardinality(MissingParents(t)) <= Cardinality(Missing(t))
         /\ Missing(t) # {} => Cardinality(Missing(t)) > 0
<1>1. /\ Inputs[t] \in Seq(Outputs) /\ Len(Inputs[t]) \in Nat
      /\ DOMAIN Inputs[t] = 1..Len(Inputs[t])
      /\ \A i \in DOMAIN Inputs[t] : Inputs[t][i] \in Outputs
  <2>1. Inputs[t] \in Seq(Outputs)
    BY MempoolAssumption
  <2>2. QED
    BY <2>1, LenProperties, ElementOfSeq
<1>2. \A o \in Outputs : Owner[o] \in All
  BY MempoolAssumption DEF Outputs
<1> DEFINE owner == [i \in DOMAIN Inputs[t] |-> Owner[Inputs[t][i]]]
           ownerM == [i \in Missing(t) |-> Owner[Inputs[t][i]]]
<1>3. IsFiniteSet(DOMAIN Inputs[t])
  BY <1>1, FS_Interval
<1>4. owner \in Surjection(DOMAIN Inputs[t], ParentsOf(t))
  BY DEF Surjection, ParentsOf, In
<1>5. IsFiniteSet(ParentsOf(t))
  BY <1>3, <1>4, FS_Surjection
<1>6. Missing(t) \in SUBSET DOMAIN Inputs[t]
  BY DEF Missing
<1>7. IsFiniteSet(Missing(t)) /\ Cardinality(Missing(t)) \in Nat
  BY <1>3, <1>6, FS_Subset, FS_CardinalityType
<1>8. ownerM \in Surjection(Missing(t), MissingParents(t))
  BY DEF Surjection, MissingParents
<1>9. IsFiniteSet(MissingParents(t)) /\ Cardinality(MissingParents(t)) <= Cardinality(Missing(t))
  BY <1>7, <1>8, FS_Surjection
<1>10. MissingParents(t) \subseteq ParentsOf(t)
  BY <1>6 DEF MissingParents, ParentsOf, In
<1>11. ParentsOf(t) \subseteq All
  BY <1>1, <1>2 DEF ParentsOf, In
<1>12. Missing(t) # {} => Cardinality(Missing(t)) > 0
  BY <1>7, FS_EmptySet
<1> QED
  BY <1>5, <1>7, <1>9, <1>10, <1>11, <1>12

(* Who waits in the queues w, and what makes w and the counts os of        *)
(* missing parents a faithful index.                                       *)
InQueue(w, h, o) == \E i \in DOMAIN w[h] : w[h][i] = o

QueuesOf(w, o) == {h \in ParentsOf(o) : InQueue(w, h, o)}

Faithful(w, os) ==
  /\ w \in [All -> Seq(Txs)]
  /\ os \in [Txs -> Nat]
  /\ \A h \in All : \A o \in Txs : InQueue(w, h, o) => os[o] > 0 /\ h \in ParentsOf(o)
  /\ \A h \in All : \A i, j \in DOMAIN w[h] : w[h][i] = w[h][j] => i = j
  /\ \A o \in Txs : os[o] > 0 => Cardinality(QueuesOf(w, o)) <= os[o]

(* A transaction waits in finitely many queues.                            *)
LEMMA FiniteQueues ==
  ASSUME NEW o \in Txs, NEW w
  PROVE  IsFiniteSet(QueuesOf(w, o)) /\ Cardinality(QueuesOf(w, o)) \in Nat
<1>1. IsFiniteSet(ParentsOf(o)) /\ QueuesOf(w, o) \in SUBSET ParentsOf(o)
  BY FiniteParents DEF QueuesOf
<1> QED
  BY <1>1, FS_Subset, FS_CardinalityType

(* A faithful index is what WaitingFaithful asks for.                      *)
LEMMA FaithfulMeans ==
  ASSUME Faithful(waiting, orphans)
  PROVE  WaitingFaithful
<1>1. ASSUME NEW h \in All, NEW i \in DOMAIN waiting[h]
      PROVE  IsOrphan(waiting[h][i]) /\ h \in ParentsOf(waiting[h][i])
  <2>1. waiting[h] \in Seq(Txs)
    BY DEF Faithful
  <2>2. waiting[h][i] \in Txs
    BY <2>1, ElementOfSeq, LenProperties
  <2>3. InQueue(waiting, h, waiting[h][i])
    BY DEF InQueue
  <2>4. QED
    BY <2>2, <2>3 DEF Faithful, IsOrphan
<1>2. \A t \in OrphanTxs : Cardinality({h \in ParentsOf(t) : Waits(t, h)}) <= orphans[t]
  BY DEF Faithful, OrphanTxs, IsOrphan, QueuesOf, InQueue, Waits
<1>3. \A h \in All : \A i, j \in DOMAIN waiting[h] : waiting[h][i] = waiting[h][j] => i = j
  BY DEF Faithful
<1> QED
  BY <1>1, <1>2, <1>3 DEF WaitingFaithful

(* Taking t out of any queues leaves a faithful index; if it waits in none *)
(* any more, t need not be counted as an orphan.                           *)
LEMMA FewerQueues ==
  ASSUME NEW w, NEW os, Faithful(w, os), NEW t \in Txs, NEW G \in SUBSET All
  PROVE  LET v == [h \in All |-> IF h \in G THEN Without(w[h], t) ELSE w[h]]
         IN  /\ Faithful(v, os)
             /\ (\A h \in All \ G : ~InQueue(w, h, t)) =>
                  /\ \A h \in All : ~InQueue(v, h, t)
                  /\ Faithful(v, [os EXCEPT ![t] = 0])
<1> DEFINE v == [h \in All |-> IF h \in G THEN Without(w[h], t) ELSE w[h]]
<1>1. \A h \in All : w[h] \in Seq(Txs)
  BY DEF Faithful
<1>2. ASSUME NEW h \in All
      PROVE  /\ v[h] \in Seq(Txs)
             /\ \A o \in Txs : InQueue(v, h, o) => InQueue(w, h, o)
             /\ h \in G => ~InQueue(v, h, t)
             /\ \A i, j \in DOMAIN v[h] : v[h][i] = v[h][j] => i = j
  <2>1. CASE h \in G
    <3>1. v[h] = Without(w[h], t)
      BY <2>1
    <3>2. /\ Without(w[h], t) \in Seq(Txs)
          /\ \A k \in DOMAIN Without(w[h], t) :
               Without(w[h], t)[k] # t /\ \E i \in DOMAIN w[h] : Without(w[h], t)[k] = w[h][i]
          /\ \A k, l \in DOMAIN Without(w[h], t) : Without(w[h], t)[k] = Without(w[h], t)[l] => k = l
      BY <1>1, WithoutMembers DEF Faithful
    <3> HIDE DEF v
    <3>3. QED
      BY <3>1, <3>2 DEF InQueue
  <2>2. CASE h \notin G
    BY <1>1, <2>2 DEF InQueue, Faithful
  <2>3. QED
    BY <2>1, <2>2
<1>3. v \in [All -> Seq(Txs)]
  BY <1>2
<1> HIDE DEF v
<1>4. ASSUME NEW o \in Txs PROVE Cardinality(QueuesOf(v, o)) <= Cardinality(QueuesOf(w, o))
  <2>1. QueuesOf(v, o) \in SUBSET QueuesOf(w, o)
    BY <1>2, FiniteParents DEF QueuesOf
  <2>2. QED
    BY <2>1, FiniteQueues, FS_Subset
<1>5. Faithful(v, os)
  <2>1. \A h \in All : \A o \in Txs : InQueue(v, h, o) => os[o] > 0 /\ h \in ParentsOf(o)
    BY <1>2 DEF Faithful
  <2>2. \A o \in Txs : os[o] > 0 => Cardinality(QueuesOf(v, o)) <= os[o]
    <3>1. TAKE o \in Txs
    <3>2. /\ os[o] \in Nat /\ Cardinality(QueuesOf(v, o)) \in Nat /\ Cardinality(QueuesOf(w, o)) \in Nat
          /\ os[o] > 0 => Cardinality(QueuesOf(w, o)) <= os[o]
      BY FiniteQueues DEF Faithful
    <3>3. QED
      BY <1>4, <3>2
  <2>3. QED
    BY <1>2, <1>3, <2>1, <2>2 DEF Faithful
<1>6. ASSUME \A h \in All \ G : ~InQueue(w, h, t)
      PROVE  /\ \A h \in All : ~InQueue(v, h, t)
             /\ Faithful(v, [os EXCEPT ![t] = 0])
  <2>1. \A h \in All : ~InQueue(v, h, t)
    BY <1>2, <1>6
  <2>2. os \in [Txs -> Nat]
    BY DEF Faithful
  <2>3. QED
    BY <1>5, <2>1, <2>2 DEF Faithful
<1> QED
  BY <1>5, <1>6 DEF v

(* removeOrphan: partly done, or done.                                     *)
LEMMA DropFaithful ==
  ASSUME Faithful(waiting, orphans), NEW t \in Txs
  PROVE  /\ Faithful(WaitingWithout(t), orphans)
         /\ Removable(t) =>
              /\ \A h \in All : ~InQueue(WaitingWithout(t), h, t)
              /\ Faithful(WaitingWithout(t), [orphans EXCEPT ![t] = 0])
         /\ WaitingWithout(t)[t] = waiting[t]
<1> DEFINE reached == {i \in DOMAIN Inputs[t] : \A j \in 1..i : ~Stale(t, j)}
           G == {h \in All : \E i \in reached : Owner[Inputs[t][i]] = h}
           v == [h \in All |-> IF h \in G THEN Without(waiting[h], t) ELSE waiting[h]]
<1>1. WaitingWithout(t) = v
  BY DEF WaitingWithout
<1>2. G \in SUBSET All
  OBVIOUS
<1>3. Removable(t) => \A h \in All \ G : ~InQueue(waiting, h, t)
  <2>1. SUFFICES ASSUME Removable(t), NEW h \in All, InQueue(waiting, h, t) PROVE h \in G
    OBVIOUS
  <2>2. h \in ParentsOf(t)
    BY <2>1 DEF Faithful
  <2>3. PICK i \in DOMAIN Inputs[t] : Owner[Inputs[t][i]] = h
    BY <2>2 DEF ParentsOf, In
  <2>4. Inputs[t] \in Seq(Outputs)
    BY MempoolAssumption
  <2>5. DOMAIN Inputs[t] = 1..Len(Inputs[t]) /\ Len(Inputs[t]) \in Nat
    BY <2>4, LenProperties
  <2>6. \A j \in 1..i : j \in DOMAIN Inputs[t]
    BY <2>5
  <2>7. i \in reached
    BY <2>1, <2>6 DEF Removable
  <2>8. QED
    BY <2>3, <2>7
<1>4. t \in All /\ t \notin G
  <2>1. t \notin ParentsOf(t)
    BY MempoolAssumption
  <2>2. QED
    BY <2>1 DEF All, ParentsOf, In
<1>5. v[t] = waiting[t]
  BY <1>4
<1>6. /\ Faithful(v, orphans)
      /\ (\A h \in All \ G : ~InQueue(waiting, h, t)) =>
           /\ \A h \in All : ~InQueue(v, h, t)
           /\ Faithful(v, [orphans EXCEPT ![t] = 0])
  <2> HIDE DEF G
  <2>1. QED
    BY <1>2, FewerQueues
<1> QED
  BY <1>1, <1>3, <1>5, <1>6

(* storeOrphan: t waits for its missing parents.                           *)
LEMMA AwaitFaithful ==
  ASSUME NEW w, NEW os, Faithful(w, os), NEW t \in Txs, os[t] = 0, Missing(t) # {},
         Await(t, w), orphans' = [os EXCEPT ![t] = Cardinality(Missing(t))]
  PROVE  Faithful(waiting', orphans')
<1>1. /\ \A h \in All : w[h] \in Seq(Txs)
      /\ \A h \in All : ~InQueue(w, h, t)
      /\ os \in [Txs -> Nat] /\ w \in [All -> Seq(Txs)]
  BY DEF Faithful
<1>2. ASSUME NEW h \in All
      PROVE  /\ waiting'[h] \in Seq(Txs)
             /\ \A o \in Txs \ {t} : InQueue(waiting', h, o) => InQueue(w, h, o)
             /\ InQueue(waiting', h, t) => h \in MissingParents(t)
             /\ \A i, j \in DOMAIN waiting'[h] : waiting'[h][i] = waiting'[h][j] => i = j
  <2>1. CASE h \in MissingParents(t)
    <3> DEFINE u == Without(w[h], t)
    <3>1. waiting'[h] = Append(u, t)
      BY <2>1 DEF Await
    <3>2. /\ u \in Seq(Txs)
          /\ \A k \in DOMAIN u : u[k] # t /\ \E i \in DOMAIN w[h] : u[k] = w[h][i]
          /\ \A k, l \in DOMAIN u : u[k] = u[l] => k = l
      BY <1>1, WithoutMembers DEF Faithful
    <3> HIDE DEF u
    <3>3. /\ Append(u, t) \in Seq(Txs)
          /\ DOMAIN Append(u, t) = 1..(Len(u) + 1) /\ DOMAIN u = 1..Len(u) /\ Len(u) \in Nat
          /\ \A i \in 1..Len(u) : Append(u, t)[i] = u[i]
          /\ Append(u, t)[Len(u) + 1] = t
      BY <3>2, AppendProperties, LenProperties
    <3>4. \A i \in DOMAIN Append(u, t) : i \in DOMAIN u \/ i = Len(u) + 1
      BY <3>3
    <3>5. \A o \in Txs \ {t} : InQueue(waiting', h, o) => InQueue(w, h, o)
      BY <3>1, <3>2, <3>3, <3>4 DEF InQueue
    <3>6. \A i, j \in DOMAIN Append(u, t) : Append(u, t)[i] = Append(u, t)[j] => i = j
      <4>1. TAKE i, j \in DOMAIN Append(u, t)
      <4>2. CASE i \in DOMAIN u /\ j \in DOMAIN u
        BY <3>2, <3>3, <4>2
      <4>3. CASE i \in DOMAIN u /\ j = Len(u) + 1
        BY <3>2, <3>3, <4>3
      <4>4. CASE j \in DOMAIN u /\ i = Len(u) + 1
        BY <3>2, <3>3, <4>4
      <4>5. QED
        BY <3>4, <4>2, <4>3, <4>4
    <3>7. QED
      BY <2>1, <3>1, <3>3, <3>5, <3>6
  <2>2. CASE h \notin MissingParents(t)
    <3>1. waiting'[h] = w[h]
      BY <2>2 DEF Await
    <3>2. QED
      BY <1>1, <3>1 DEF InQueue, Faithful
  <2>3. QED
    BY <2>1, <2>2
<1>3. waiting' \in [All -> Seq(Txs)]
  BY <1>2 DEF Await
<1>4. /\ orphans' \in [Txs -> Nat]
      /\ orphans'[t] = Cardinality(Missing(t)) /\ Cardinality(Missing(t)) > 0
      /\ \A o \in Txs \ {t} : orphans'[o] = os[o]
  BY <1>1, FiniteParents
<1>5. ASSUME NEW h \in All, NEW o \in Txs, InQueue(waiting', h, o)
      PROVE  orphans'[o] > 0 /\ h \in ParentsOf(o)
  <2>2. CASE o = t
    BY <1>2, <1>4, <1>5, <2>2, FiniteParents
  <2>3. CASE o # t
    BY <1>2, <1>4, <1>5, <2>3 DEF Faithful
  <2>4. QED
    BY <2>2, <2>3
<1>6. ASSUME NEW o \in Txs, orphans'[o] > 0 PROVE Cardinality(QueuesOf(waiting', o)) <= orphans'[o]
  <2>1. CASE o = t
    <3>1. QueuesOf(waiting', t) \in SUBSET MissingParents(t)
      BY <1>2, FiniteParents DEF QueuesOf
    <3>2. Cardinality(QueuesOf(waiting', t)) <= Cardinality(MissingParents(t))
      BY <3>1, FiniteParents, FS_Subset
    <3>3. /\ Cardinality(QueuesOf(waiting', t)) \in Nat
          /\ Cardinality(MissingParents(t)) \in Nat /\ Cardinality(Missing(t)) \in Nat
          /\ Cardinality(MissingParents(t)) <= Cardinality(Missing(t))
      BY FiniteQueues, FiniteParents, FS_CardinalityType
    <3>4. QED
      BY <1>4, <2>1, <3>2, <3>3
  <2>2. CASE o # t
    <3>1. QueuesOf(waiting', o) \in SUBSET QueuesOf(w, o)
      BY <1>2, <2>2, FiniteParents DEF QueuesOf
    <3>2. Cardinality(QueuesOf(waiting', o)) <= Cardinality(QueuesOf(w, o))
      BY <3>1, FiniteQueues, FS_Subset
    <3>3. /\ Cardinality(QueuesOf(waiting', o)) \in Nat /\ Cardinality(QueuesOf(w, o)) \in Nat
          /\ os[o] \in Nat /\ orphans'[o] = os[o] /\ Cardinality(QueuesOf(w, o)) <= os[o]
      BY <1>1, <1>4, <1>6, <2>2, FiniteQueues DEF Faithful
    <3>4. QED
      BY <3>2, <3>3
  <2>3. QED
    BY <2>1, <2>2
<1> QED
  BY <1>2, <1>3, <1>4, <1>5, <1>6 DEF Faithful

(* resolveOrphans: who waited for h is counted down, and h forgotten.      *)
LEMMA ResolveFaithful ==
  ASSUME NEW w, NEW os, Faithful(w, os), NEW h \in All, w[h] = waiting[h],
         Resolve(h, w, os)
  PROVE  /\ Faithful(waiting', orphans')
         /\ \A o \in Txs : orphans'[o] > 0 => os[o] > 0
<1>1. /\ w \in [All -> Seq(Txs)] /\ os \in [Txs -> Nat]
      /\ \A o \in Txs : Waits(o, h) <=> InQueue(w, h, o)
  BY DEF Faithful, Waits, InQueue
<1>2. \A o \in Txs : InQueue(w, h, o) => os[o] > 0 /\ h \in ParentsOf(o) /\ h \in QueuesOf(w, o)
  BY DEF Faithful, QueuesOf
<1>3. /\ \A o \in Txs : orphans'[o] = IF InQueue(w, h, o) THEN os[o] - 1 ELSE os[o]
      /\ orphans' = [o \in Txs |-> IF Waits(o, h) THEN os[o] - 1 ELSE os[o]]
  BY <1>1 DEF Resolve
<1>4. /\ waiting'[h] = <<>> /\ \A g \in All \ {h} : waiting'[g] = w[g]
      /\ waiting' \in [All -> Seq(Txs)]
  <2>1. <<>> \in Seq(Txs)
    BY EmptySeq
  <2>2. QED
    BY <1>1, <2>1 DEF Resolve
<1>5. orphans' \in [Txs -> Nat]
  BY <1>1, <1>2, <1>3
<1>6. /\ \A o \in Txs : ~InQueue(waiting', h, o)
      /\ \A g \in All \ {h} : \A o \in Txs : InQueue(waiting', g, o) <=> InQueue(w, g, o)
  <2>1. DOMAIN <<>> = {}
    OBVIOUS
  <2>2. QED
    BY <1>4, <2>1 DEF InQueue
<1>7. ASSUME NEW o \in Txs PROVE QueuesOf(waiting', o) = QueuesOf(w, o) \ {h}
  BY <1>6, FiniteParents DEF QueuesOf
<1>8. ASSUME NEW o \in Txs, os[o] > 0 PROVE Cardinality(QueuesOf(waiting', o)) <= orphans'[o]
  <2>1. /\ IsFiniteSet(QueuesOf(w, o)) /\ Cardinality(QueuesOf(w, o)) \in Nat
        /\ Cardinality(QueuesOf(w, o)) <= os[o] /\ os[o] \in Nat
    BY <1>1, <1>8, FiniteQueues DEF Faithful
  <2>2. Cardinality(QueuesOf(w, o) \ {h})
          = IF h \in QueuesOf(w, o) THEN Cardinality(QueuesOf(w, o)) - 1 ELSE Cardinality(QueuesOf(w, o))
    BY <2>1, FS_RemoveElement
  <2>3. CASE InQueue(w, h, o)
    BY <1>2, <1>3, <1>7, <2>1, <2>2, <2>3
  <2>4. CASE ~InQueue(w, h, o)
    BY <1>3, <1>7, <2>1, <2>2, <2>4 DEF QueuesOf
  <2>5. QED
    BY <2>3, <2>4
<1>9. ASSUME NEW g \in All, NEW o \in Txs, InQueue(waiting', g, o)
      PROVE  orphans'[o] > 0 /\ g \in ParentsOf(o)
  <2>1. g # h /\ InQueue(w, g, o)
    BY <1>6, <1>9
  <2>2. os[o] > 0 /\ g \in ParentsOf(o) /\ g \in QueuesOf(waiting', o)
    BY <1>9, <2>1 DEF Faithful, QueuesOf
  <2>3. Cardinality(QueuesOf(waiting', o)) <= orphans'[o]
    BY <1>8, <2>2
  <2>4. Cardinality(QueuesOf(waiting', o)) # 0 /\ Cardinality(QueuesOf(waiting', o)) \in Nat
    BY <2>2, FiniteQueues, FS_EmptySet
  <2>5. orphans'[o] \in Nat
    BY <1>5
  <2>6. QED
    BY <2>2, <2>3, <2>4, <2>5
<1>10. \A g \in All : \A i, j \in DOMAIN waiting'[g] : waiting'[g][i] = waiting'[g][j] => i = j
  <2>1. DOMAIN <<>> = {}
    OBVIOUS
  <2>2. QED
    BY <1>4, <2>1 DEF Faithful
<1>11. \A o \in Txs : orphans'[o] > 0 => os[o] > 0
  <2>1. TAKE o \in Txs
  <2>2. CASE InQueue(w, h, o)
    BY <1>2, <2>2
  <2>3. CASE ~InQueue(w, h, o)
    BY <1>3, <2>3
  <2>4. QED
    BY <2>2, <2>3
<1>12. \A o \in Txs : orphans'[o] > 0 => Cardinality(QueuesOf(waiting', o)) <= orphans'[o]
  BY <1>8, <1>11
<1> QED
  BY <1>4, <1>5, <1>9, <1>10, <1>11, <1>12 DEF Faithful

-----------------------------------------------------------------------------
(* The invariant, part by part.                                            *)
OrphansInv ==
  /\ Faithful(waiting, orphans)
  /\ IsFiniteSet(OrphanTxs) /\ Cardinality(OrphanTxs) <= MaxOrphans

(* A pool above its limit is going to be trimmed.                          *)
PoolInv ==
  /\ IsFiniteSet(pool)
  /\ failed = {} /\ Cardinality(pool) > MaxSize => \E x \in ItemsOf(agenda) : x.do = "trim"

(* What a block spends, it or a block below it created.                    *)
ChainLinked ==
  \A h \in DOMAIN chain : \A t \in BlockTxs(chain[h]) :
    ParentsOf(t) \subseteq Base \cup UNION {BlockTxs(chain[g]) : g \in 1..h}

(* The transactions of a disconnected block still to come back, and those  *)
(* of a connected block still to be looked at.                             *)
Returning == {t \in Txs : Insert(t, "block") \in ItemsOf(agenda)}

Confirming == {t \in Txs : Confirm(t) \in ItemsOf(agenda)}

Backed(o) == o \in Coins \/ \E p \in pool \cup lost \cup Returning : o \in Outs[p]

Contested(o) == \E r \in Confirming : o \in In(r)

EntriesInv ==
  "block" \notin failed =>
    /\ pool \cap Confirmed \subseteq Confirming
    /\ Confirming \subseteq Confirmed
    /\ Confirming # {} => \A x \in ItemsOf(agenda) : x.do # "insert"
    /\ \A e \in pool : \A o \in In(e) :
         /\ Backed(o) \/ Contested(o)
         /\ o \in SpentOnChain => Contested(o)

IInv ==
  /\ TypeOK
  /\ SpentsExact
  /\ OrphansInv
  /\ PoolInv
  /\ ChainLinked
  /\ EntriesInv
  /\ DoneEnds(agenda)

-----------------------------------------------------------------------------
(* The index of spent outputs: taking entries out keeps it exact ...       *)
LEMMA UntrackExact ==
  ASSUME NEW S \in SUBSET pool, pool \subseteq Txs, SpentsExact, Untrack(S)
  PROVE  SpentsExact'
BY MempoolAssumption DEF SpentsExact, Untrack, All

(* ... and so does putting in a transaction that double-spends nothing.    *)
LEMMA TrackExact ==
  ASSUME NEW t \in Txs, pool \subseteq Txs, SpentsExact, ~DoubleSpends(t), Track(t)
  PROVE  SpentsExact'
BY MempoolAssumption DEF SpentsExact, Track, DoubleSpends, All

(* Every step keeps the index of spent outputs exact.                      *)
LEMMA NextExact ==
  ASSUME IInv, [Next]_vars
  PROVE  SpentsExact'
<1>p. pool \subseteq Txs /\ SpentsExact
  BY DEF IInv, TypeOK
<1>u. UNCHANGED entries => SpentsExact'
  BY <1>p DEF SpentsExact, entries
<1>1. ASSUME NEW t \in Txs, AddTX(t) PROVE SpentsExact'
  BY <1>1, <1>u DEF AddTX
<1>2. ASSUME NEW b \in Templates, AddBlock(b) PROVE SpentsExact'
  BY <1>2, <1>u DEF AddBlock
<1>3. CASE RemoveBlock
  BY <1>3, <1>u DEF RemoveBlock
<1>4. CASE Reset
  BY <1>4 DEF Reset, SpentsExact
<1>5. CASE InsertTX
  <2>1. PICK t \in Txs, from \in Callers :
           \/ UNCHANGED entries
           \/ Refuse(t, from) \/ Accept(t, from) \/ StoreOrphan(t, from)
    BY <1>5 DEF InsertTX, entries
  <2>2. CASE Refuse(t, from)
    BY <2>2, <1>u DEF Refuse
  <2>3. CASE Accept(t, from)
    BY <2>3, <1>p, TrackExact DEF Accept, Refused
  <2>4. CASE StoreOrphan(t, from)
    BY <2>4, <1>u DEF StoreOrphan
  <2> QED
    BY <2>1, <2>2, <2>3, <2>4, <1>u
<1>6. CASE LimitSize
  <2>1. UNCHANGED entries \/ \E S \in SUBSET pool : Untrack(S)
    BY <1>6 DEF LimitSize, Package, entries
  <2> QED
    BY <2>1, <1>p, <1>u, UntrackExact
<1>7. CASE ConfirmTX
  <2>1. PICK t \in Txs : ConfirmEntry(t) \/ ConfirmOther(t) \/ ConfirmFails(t)
    BY <1>7 DEF ConfirmTX
  <2>2. CASE ConfirmEntry(t)
    BY <2>2, <1>p, UntrackExact DEF ConfirmEntry
  <2>3. CASE ConfirmOther(t)
    BY <2>3, <1>p, UntrackExact DEF ConfirmOther, DoubleSpenders, Package
  <2>4. CASE ConfirmFails(t)
    BY <2>4, <1>u DEF ConfirmFails
  <2> QED
    BY <2>1, <2>2, <2>3, <2>4
<1>8. CASE BlockDone
  BY <1>8, <1>u DEF BlockDone
<1>9. CASE UNCHANGED vars
  BY <1>9, <1>u DEF vars
<1> QED
  BY <1>1, <1>2, <1>3, <1>4, <1>5, <1>6, <1>7, <1>8, <1>9 DEF Next

-----------------------------------------------------------------------------
(* The index of orphans, and their number.                                 *)
LEMMA FewerOrphans ==
  ASSUME OrphansInv, \A o \in Txs : orphans'[o] > 0 => orphans[o] > 0
  PROVE  IsFiniteSet(OrphanTxs') /\ Cardinality(OrphanTxs') <= MaxOrphans
<1>1. OrphanTxs' \in SUBSET OrphanTxs
  BY DEF OrphanTxs, IsOrphan
<1>2. /\ IsFiniteSet(OrphanTxs') /\ Cardinality(OrphanTxs') <= Cardinality(OrphanTxs)
      /\ Cardinality(OrphanTxs') \in Nat /\ Cardinality(OrphanTxs) \in Nat
  BY <1>1, FS_Subset, FS_CardinalityType DEF OrphansInv
<1> QED
  BY <1>2, MempoolAssumption DEF OrphansInv

(* An orphan is stored below the limit, or in the place of another.        *)
LEMMA StoreOrphanKeeps ==
  ASSUME OrphansInv, NEW t \in Txs, NEW from, StoreOrphan(t, from)
  PROVE  OrphansInv'
<1>t. orphans \in [Txs -> Nat] /\ Faithful(waiting, orphans)
  BY DEF OrphansInv, Faithful
<1>0. Missing(t) # {} /\ orphans[t] = 0
  BY <1>t DEF StoreOrphan, Refused, Known, IsOrphan
<1>m. Cardinality(Missing(t)) \in Nat /\ Cardinality(Missing(t)) > 0
  BY <1>0, FiniteParents
<1>1. CASE Ignore(t, from)
  <2>1. waiting' = waiting /\ orphans' = orphans
    BY <1>1 DEF Ignore
  <2>2. QED
    BY <2>1 DEF OrphansInv, OrphanTxs, IsOrphan
<1>2. CASE ~AtLimit /\ AddOrphan(t, waiting, orphans, from)
  <2>1. Faithful(waiting', orphans')
    BY <1>0, <1>2, <1>t, AwaitFaithful DEF AddOrphan
  <2>2. OrphanTxs' = OrphanTxs \cup {t} /\ t \notin OrphanTxs
    BY <1>0, <1>2, <1>m, <1>t DEF AddOrphan, OrphanTxs, IsOrphan
  <2>3. IsFiniteSet(OrphanTxs') /\ Cardinality(OrphanTxs') = Cardinality(OrphanTxs) + 1
    BY <2>2, FS_AddElement DEF OrphansInv
  <2>4. Cardinality(OrphanTxs) \in Nat /\ ~(Cardinality(OrphanTxs) >= MaxOrphans) /\ MaxOrphans \in Nat
    BY <1>2, FS_CardinalityType, MempoolAssumption DEF OrphansInv, AtLimit
  <2>5. QED
    BY <2>1, <2>3, <2>4 DEF OrphansInv
<1>3. ASSUME NEW victim \in OrphanTxs, Removable(victim),
             AddOrphan(t, WaitingWithout(victim), [orphans EXCEPT ![victim] = 0], from)
      PROVE  OrphansInv'
  <2> DEFINE os == [orphans EXCEPT ![victim] = 0]
  <2>0. victim \in Txs
    BY DEF OrphanTxs
  <2>1. Faithful(WaitingWithout(victim), os)
    BY <1>3, <1>t, <2>0, DropFaithful
  <2>2. os[t] = 0
    BY <1>0, <1>t
  <2>3. Faithful(waiting', orphans')
    BY <1>0, <1>3, <2>1, <2>2, AwaitFaithful DEF AddOrphan
  <2>4. OrphanTxs' = (OrphanTxs \ {victim}) \cup {t}
    BY <1>m, <1>t, <1>3 DEF AddOrphan, OrphanTxs, IsOrphan
  <2>5. /\ IsFiniteSet(OrphanTxs \ {victim})
        /\ Cardinality(OrphanTxs \ {victim}) = Cardinality(OrphanTxs) - 1
        /\ Cardinality(OrphanTxs) \in Nat
    BY FS_RemoveElement, FS_CardinalityType DEF OrphansInv
  <2>6. t \notin OrphanTxs
    BY <1>0, <1>t DEF OrphanTxs, IsOrphan
  <2>7. IsFiniteSet(OrphanTxs') /\ Cardinality(OrphanTxs') = (Cardinality(OrphanTxs) - 1) + 1
    BY <2>4, <2>5, <2>6, FS_AddElement
  <2>8. QED
    BY <2>3, <2>5, <2>7 DEF OrphansInv
<1>4. ASSUME NEW victim \in OrphanTxs, EvictionFails(victim) PROVE OrphansInv'
  <2>1. waiting' = WaitingWithout(victim) /\ orphans' = orphans /\ victim \in Txs
    BY <1>4 DEF EvictionFails, OrphanTxs
  <2>2. Faithful(waiting', orphans')
    BY <1>t, <2>1, DropFaithful
  <2>3. QED
    BY <2>1, <2>2 DEF OrphansInv, OrphanTxs, IsOrphan
<1> QED
  BY <1>1, <1>2, <1>3, <1>4 DEF StoreOrphan

(* Every step keeps the index of orphans faithful and their number in its  *)
(* limit.                                                                  *)
LEMMA NextOrphans ==
  ASSUME IInv, [Next]_vars
  PROVE  OrphansInv'
<1>t. orphans \in [Txs -> Nat] /\ Faithful(waiting, orphans) /\ OrphansInv
  BY DEF IInv, OrphansInv, Faithful
<1>u. UNCHANGED <<orphans, waiting>> => OrphansInv'
  BY <1>t DEF OrphansInv, OrphanTxs, IsOrphan
<1>1. ASSUME NEW t \in Txs, AddTX(t) PROVE OrphansInv'
  BY <1>1, <1>u DEF AddTX
<1>2. ASSUME NEW b \in Templates, AddBlock(b) PROVE OrphansInv'
  BY <1>2, <1>u DEF AddBlock
<1>3. CASE RemoveBlock
  BY <1>3, <1>u DEF RemoveBlock
<1>4. CASE Reset
  <2>1. /\ orphans' = [t \in Txs |-> 0] /\ waiting' = [h \in All |-> <<>>]
        /\ <<>> \in Seq(Txs) /\ DOMAIN <<>> = {}
    BY <1>4, EmptySeq DEF Reset
  <2>2. Faithful(waiting', orphans')
    BY <2>1 DEF Faithful, InQueue
  <2>3. \A o \in Txs : ~(orphans'[o] > 0)
    BY <2>1
  <2>4. QED
    BY <1>t, <2>2, <2>3, FewerOrphans DEF OrphansInv
<1>5. CASE InsertTX
  <2>1. PICK t \in Txs, from \in Callers :
           \/ UNCHANGED <<orphans, waiting>>
           \/ Refuse(t, from) \/ Accept(t, from) \/ StoreOrphan(t, from)
    BY <1>5 DEF InsertTX
  <2>2. CASE Refuse(t, from)
    BY <2>2, <1>u DEF Refuse
  <2>3. CASE Accept(t, from)
    <3>1. t \in All /\ Resolve(t, waiting, orphans)
      BY <2>3 DEF Accept, All
    <3>2. Faithful(waiting', orphans') /\ \A o \in Txs : orphans'[o] > 0 => orphans[o] > 0
      BY <1>t, <3>1, ResolveFaithful
    <3>3. QED
      BY <1>t, <3>2, FewerOrphans DEF OrphansInv
  <2>4. CASE StoreOrphan(t, from)
    BY <2>4, <1>t, StoreOrphanKeeps
  <2> QED
    BY <2>1, <2>2, <2>3, <2>4, <1>u
<1>6. CASE LimitSize
  BY <1>6, <1>u DEF LimitSize
<1>7. CASE ConfirmTX
  <2>1. PICK t \in Txs : ConfirmEntry(t) \/ ConfirmOther(t) \/ ConfirmFails(t)
    BY <1>7 DEF ConfirmTX
  <2>2. CASE ConfirmEntry(t)
    BY <2>2, <1>u DEF ConfirmEntry
  <2>3. CASE ConfirmOther(t) /\ IsOrphan(t)
    <3>1. t \in All /\ Removable(t) /\ Resolve(t, WaitingWithout(t), [orphans EXCEPT ![t] = 0])
      BY <2>3 DEF ConfirmOther, All
    <3>2. /\ Faithful(WaitingWithout(t), [orphans EXCEPT ![t] = 0])
          /\ WaitingWithout(t)[t] = waiting[t]
      BY <1>t, <3>1, DropFaithful
    <3>3. /\ Faithful(waiting', orphans')
          /\ \A o \in Txs : orphans'[o] > 0 => [orphans EXCEPT ![t] = 0][o] > 0
      BY <3>1, <3>2, ResolveFaithful
    <3>4. \A o \in Txs : orphans'[o] > 0 => orphans[o] > 0
      BY <1>t, <3>3
    <3>5. QED
      BY <1>t, <3>3, <3>4, FewerOrphans DEF OrphansInv
  <2>4. CASE ConfirmOther(t) /\ ~IsOrphan(t)
    <3>1. t \in All /\ Resolve(t, waiting, orphans)
      BY <2>4 DEF ConfirmOther, All
    <3>2. Faithful(waiting', orphans') /\ \A o \in Txs : orphans'[o] > 0 => orphans[o] > 0
      BY <1>t, <3>1, ResolveFaithful
    <3>3. QED
      BY <1>t, <3>2, FewerOrphans DEF OrphansInv
  <2>5. CASE ConfirmFails(t)
    <3>1. waiting' = WaitingWithout(t) /\ orphans' = orphans
      BY <2>5 DEF ConfirmFails
    <3>2. Faithful(waiting', orphans')
      BY <1>t, <3>1, DropFaithful
    <3>3. QED
      BY <1>t, <3>1, <3>2 DEF OrphansInv, OrphanTxs, IsOrphan
  <2> QED
    BY <2>1, <2>2, <2>3, <2>4, <2>5
<1>8. CASE BlockDone
  BY <1>8, <1>u DEF BlockDone
<1>9. CASE UNCHANGED vars
  BY <1>9, <1>u DEF vars
<1> QED
  BY <1>1, <1>2, <1>3, <1>4, <1>5, <1>6, <1>7, <1>8, <1>9 DEF Next

-----------------------------------------------------------------------------
(* The agenda: what each way to change it does to the items it holds.      *)
LEMMA ItemFields ==
  /\ \A t \in Txs : \A f \in Callers :
       /\ Insert(t, f) \in Item /\ Insert(t, f).do = "insert"
       /\ Insert(t, f).tx = t /\ Insert(t, f).from = f
       /\ Trim(t, f) \in Item /\ Trim(t, f).do = "trim"
  /\ \A t \in Txs : /\ Confirm(t) \in Item /\ Confirm(t).do = "confirm"
                    /\ Confirm(t).tx = t /\ Confirm(t).from = "block"
  /\ Done \in Item /\ Done.do = "done" /\ Done.from = "block"
BY DEF Insert, Trim, Confirm, Done, Item, Callers

(* The item that is up is taken from the agenda.                           *)
LEMMA Popped ==
  ASSUME agenda \in Seq(Item), NEW x, Now(x)
  PROVE  /\ x \in Item /\ x \in ItemsOf(agenda) /\ Tail(agenda) \in Seq(Item)
         /\ ItemsOf(agenda) = ItemsOf(Tail(agenda)) \cup {x}
<1>1. agenda # <<>> /\ Head(agenda) = x
  BY DEF Now
<1> QED
  BY <1>1, TailItems

(* Between calls no block is under way.                                    *)
LEMMA NothingToDo ==
  ASSUME agenda = <<>>
  PROVE  ItemsOf(agenda) = {} /\ Returning = {} /\ Confirming = {}
BY DEF ItemsOf, Returning, Confirming

(* The agenda that a list of transactions makes: their insertions.         *)
LEMMA InsertList ==
  ASSUME NEW r \in Seq(Txs), NEW f \in Callers
  PROVE  LET s == [i \in DOMAIN r |-> Insert(r[i], f)]
         IN  s \in Seq(Item) /\ ItemsOf(s) = {Insert(r[i], f) : i \in DOMAIN r}
<1> DEFINE s == [i \in DOMAIN r |-> Insert(r[i], f)]
<1>1. Len(r) \in Nat /\ DOMAIN r = 1..Len(r) /\ \A i \in DOMAIN r : r[i] \in Txs
  BY LenProperties, ElementOfSeq
<1>2. \A i \in 1..Len(r) : Insert(r[i], f) \in Item
  BY <1>1, ItemFields
<1>3. s \in [1..Len(r) -> Item]
  BY <1>1, <1>2
<1>4. s \in Seq(Item)
  BY <1>1, <1>3
<1>5. Len(s) = Len(r)
  BY <1>1, <1>3, <1>4, LenProperties
<1> QED
  BY <1>1, <1>4, <1>5 DEF ItemsOf

(* An agenda for a block ends with Done.                                   *)
LEMMA BlockAgenda ==
  ASSUME NEW s \in Seq(Item)
  PROVE  s \o <<Done>> \in Seq(Item) /\ ItemsOf(s \o <<Done>>) = ItemsOf(s) \cup {Done}
<1>1. <<Done>> \in Seq(Item) /\ Len(<<Done>>) = 1 /\ <<Done>>[1] = Done
  BY ItemFields
<1>2. ItemsOf(<<Done>>) = {Done}
  BY <1>1 DEF ItemsOf
<1> QED
  BY <1>1, <1>2, ConcatItems

(* The agenda that a connected block makes: its transactions, last first.  *)
LEMMA ConfirmList ==
  ASSUME NEW b \in Seq(Txs)
  PROVE  LET s == [i \in DOMAIN b |-> Confirm(b[Len(b) + 1 - i])]
         IN  s \in Seq(Item) /\ ItemsOf(s) = {Confirm(t) : t \in BlockTxs(b)}
<1> DEFINE s == [i \in DOMAIN b |-> Confirm(b[Len(b) + 1 - i])]
<1>1. Len(b) \in Nat /\ DOMAIN b = 1..Len(b) /\ \A i \in DOMAIN b : b[i] \in Txs
  BY LenProperties, ElementOfSeq
<1>2. \A i \in 1..Len(b) : Len(b) + 1 - i \in 1..Len(b) /\ Len(b) + 1 - (Len(b) + 1 - i) = i
  BY <1>1
<1>3. \A i \in 1..Len(b) : Confirm(b[Len(b) + 1 - i]) \in Item
  BY <1>1, <1>2, ItemFields
<1>4. s \in [1..Len(b) -> Item]
  BY <1>1, <1>3
<1>5. s \in Seq(Item)
  BY <1>1, <1>4
<1>6. Len(s) = Len(b) /\ \A i \in 1..Len(b) : s[i] = Confirm(b[Len(b) + 1 - i])
  BY <1>1, <1>4, <1>5, LenProperties
<1>7. ItemsOf(s) \subseteq {Confirm(t) : t \in BlockTxs(b)}
  BY <1>1, <1>2, <1>6 DEF ItemsOf, BlockTxs
<1>8. ASSUME NEW i \in 1..Len(b) PROVE Confirm(b[i]) \in ItemsOf(s)
  <2>1. s[Len(b) + 1 - i] = Confirm(b[Len(b) + 1 - (Len(b) + 1 - i)])
    BY <1>2, <1>6
  <2>2. s[Len(b) + 1 - i] = Confirm(b[i])
    BY <1>2, <2>1
  <2>3. QED
    BY <1>2, <1>6, <2>2 DEF ItemsOf
<1>9. {Confirm(t) : t \in BlockTxs(b)} \subseteq ItemsOf(s)
  BY <1>1, <1>8 DEF BlockTxs
<1> QED
  BY <1>5, <1>7, <1>9

(* The agenda once t is in: the orphans it resolves, a look at the size of *)
(* the pool, and the rest.                                                 *)
LEMMA AcceptAgenda ==
  ASSUME agenda \in Seq(Item), Faithful(waiting, orphans),
         NEW t \in Txs, NEW from \in Callers, Now(Insert(t, from)), Accept(t, from)
  PROVE  /\ agenda' \in Seq(Item)
         /\ \A x \in ItemsOf(agenda') :
              \/ x \in ItemsOf(Tail(agenda)) \/ x = Trim(t, from)
              \/ \E o \in Txs : x = Insert(o, "orphan")
         /\ ItemsOf(Tail(agenda)) \subseteq ItemsOf(agenda')
         /\ Trim(t, from) \in ItemsOf(agenda')
         /\ DoneEnds(agenda) => DoneEnds(agenda')
<1> DEFINE r == Resolved(t)
           s == [i \in DOMAIN r |-> Insert(r[i], "orphan")]
<1>1. r \in Seq(Txs)
  <2>1. t \in All
    BY DEF All
  <2>2. waiting[t] \in Seq(Txs)
    BY <2>1 DEF Faithful
  <2> DEFINE P == {i \in DOMAIN waiting[t] : orphans[waiting[t][i]] = 1}
  <2>3. P \in SUBSET DOMAIN waiting[t] /\ r = Picked(waiting[t], P)
    BY DEF Resolved
  <2> HIDE DEF P, r
  <2>4. QED
    BY <2>2, <2>3, PickedMembers
<1>2. s \in Seq(Item) /\ ItemsOf(s) = {Insert(r[i], "orphan") : i \in DOMAIN r}
  <2> HIDE DEF r
  <2>1. QED
    BY <1>1, InsertList DEF Callers
<1>3. \A i \in DOMAIN r : r[i] \in Txs
  BY <1>1, ElementOfSeq, LenProperties
<1>4. Trim(t, from) \in Item
  BY ItemFields
<1>5. <<Trim(t, from)>> \in Seq(Item) /\ Len(<<Trim(t, from)>>) = 1
      /\ <<Trim(t, from)>>[1] = Trim(t, from)
  BY <1>4
<1>6. ItemsOf(<<Trim(t, from)>>) = {Trim(t, from)}
  BY <1>5 DEF ItemsOf
<1>7. Tail(agenda) \in Seq(Item)
  BY Popped
<1>8. agenda' = s \o <<Trim(t, from)>> \o Tail(agenda)
  BY DEF Accept
<1> HIDE DEF s
<1>9. /\ s \o <<Trim(t, from)>> \in Seq(Item)
      /\ ItemsOf(s \o <<Trim(t, from)>>) = ItemsOf(s) \cup {Trim(t, from)}
  BY <1>2, <1>5, <1>6, ConcatItems
<1>10. /\ agenda' \in Seq(Item)
       /\ ItemsOf(agenda') = ItemsOf(s) \cup {Trim(t, from)} \cup ItemsOf(Tail(agenda))
  BY <1>7, <1>8, <1>9, ConcatItems
<1>11. ASSUME DoneEnds(agenda) PROVE DoneEnds(agenda')
  <2>1. DoneEnds(Tail(agenda))
    BY <1>11, RestEnds DEF Now
  <2>2. Done # Trim(t, from) /\ \A o \in Txs : Done # Insert(o, "orphan")
    BY ItemFields DEF Callers
  <2>3. Done \notin ItemsOf(s \o <<Trim(t, from)>>)
    BY <1>2, <1>3, <1>9, <2>2
  <2>4. QED
    BY <1>7, <1>8, <1>9, <2>1, <2>3, ConcatEnds
<1> QED
  BY <1>2, <1>3, <1>10, <1>11

(* An insertion that does not get in is over, or leaves with an assertion. *)
LEMMA FailedAgenda ==
  ASSUME agenda \in Seq(Item), NEW x, Now(x),
         agenda' = Tail(agenda) \/ agenda' = Unwound(Tail(agenda))
  PROVE  /\ agenda' \in Seq(Item)
         /\ ItemsOf(agenda') \subseteq ItemsOf(agenda)
         /\ \A y \in ItemsOf(agenda) :
              y # x /\ y.from = "block" /\ y.do # "trim" => y \in ItemsOf(agenda')
         /\ DoneEnds(agenda) => DoneEnds(agenda')
<1>e. DoneEnds(agenda) => DoneEnds(agenda')
  <2>1. agenda # <<>> /\ Tail(agenda) \in Seq(Item)
    BY Popped DEF Now
  <2>2. DoneEnds(agenda) => DoneEnds(Tail(agenda)) /\ DoneEnds(Unwound(Tail(agenda)))
    BY <2>1, RestEnds
  <2>3. QED
    BY <2>2
<1>1. Tail(agenda) \in Seq(Item) /\ ItemsOf(agenda) = ItemsOf(Tail(agenda)) \cup {x}
  BY Popped
<1>2. CASE agenda' = Tail(agenda)
  BY <1>1, <1>2, <1>e
<1>3. CASE agenda' = Unwound(Tail(agenda))
  <2>1. /\ Unwound(Tail(agenda)) \in Seq(Item)
        /\ ItemsOf(Unwound(Tail(agenda))) \subseteq ItemsOf(Tail(agenda))
        /\ \A y \in ItemsOf(Tail(agenda)) :
             y.from = "block" /\ y.do # "trim" => y \in ItemsOf(Unwound(Tail(agenda)))
    BY <1>1, UnwoundItems
  <2>2. QED
    BY <1>1, <1>3, <1>e, <2>1
<1> QED
  BY <1>2, <1>3

(* What the ways to end an insertion without getting in have in common.    *)
LEMMA NotAccepted ==
  ASSUME TypeOK, NEW t \in Txs, NEW from \in Callers, Now(Insert(t, from)),
         \/ from = "block" /\ t \in pool /\ agenda' = Tail(agenda)
              /\ UNCHANGED <<entries, orphans, waiting, rejects, lost, failed>>
         \/ Refuse(t, from) \/ StoreOrphan(t, from)
  PROVE  /\ pool' = pool /\ spents' = spents
         /\ agenda' = Tail(agenda) \/ agenda' = Unwound(Tail(agenda))
         /\ \/ failed' = failed /\ agenda' = Tail(agenda)
            \/ failed' = failed \cup {"insertion"}
         /\ lost \subseteq lost' /\ lost' \subseteq Txs
         /\ from = "block" => t \in pool \cup lost'
         /\ rejects' \subseteq Txs
<1>1. rejects \subseteq Txs /\ lost \subseteq Txs
  BY DEF TypeOK
<1>2. CASE from = "block" /\ t \in pool /\ agenda' = Tail(agenda)
             /\ UNCHANGED <<entries, orphans, waiting, rejects, lost, failed>>
  BY <1>1, <1>2 DEF entries
<1>3. CASE Refuse(t, from)
  BY <1>1, <1>3 DEF Refuse, Rejected, NotBack, entries
<1>4. CASE StoreOrphan(t, from)
  <2>1. pool' = pool /\ spents' = spents /\ NotBack(t, from)
    BY <1>4 DEF StoreOrphan, entries
  <2>2. lost \subseteq lost' /\ lost' \subseteq Txs /\ (from = "block" => t \in pool \cup lost')
    BY <1>1, <2>1 DEF NotBack
  <2>3. ASSUME ReturnMissing(from)
        PROVE  /\ agenda' = Tail(agenda) \/ agenda' = Unwound(Tail(agenda))
               /\ \/ failed' = failed /\ agenda' = Tail(agenda)
                  \/ failed' = failed \cup {"insertion"}
    BY <2>3 DEF ReturnMissing, AssertionFails
  <2>4. CASE Ignore(t, from)
    BY <1>1, <2>1, <2>2, <2>3, <2>4 DEF Ignore
  <2>5. ASSUME NEW w, NEW os, AddOrphan(t, w, os, from)
        PROVE  ReturnMissing(from) /\ rejects' \subseteq Txs
    BY <1>1, <2>5 DEF AddOrphan
  <2>6. ASSUME NEW victim, EvictionFails(victim)
        PROVE  /\ agenda' = Unwound(Tail(agenda)) /\ failed' = failed \cup {"insertion"}
               /\ rejects' \subseteq Txs
    BY <1>1, <2>6 DEF EvictionFails, AssertionFails
  <2>7. \/ Ignore(t, from) \/ AddOrphan(t, waiting, orphans, from)
        \/ \E victim \in OrphanTxs :
             AddOrphan(t, WaitingWithout(victim), [orphans EXCEPT ![victim] = 0], from)
        \/ \E victim \in OrphanTxs : EvictionFails(victim)
    BY <1>4 DEF StoreOrphan
  <2> QED
    BY <2>1, <2>2, <2>3, <2>4, <2>5, <2>6, <2>7
<1> QED
  BY <1>2, <1>3, <1>4

-----------------------------------------------------------------------------
(* The chain.  Everything confirmed is known, and what a confirmed         *)
(* transaction spends was created by a confirmed one.                      *)
LEMMA ChainFacts ==
  ASSUME chain \in Seq(Seq(Txs)), ChainLinked
  PROVE  /\ Confirmed \subseteq All
         /\ \A t \in Confirmed \ Base : t \in Txs /\ ParentsOf(t) \subseteq Confirmed
         /\ \A o \in SpentOnChain : Owner[o] \in Confirmed
<1>1. /\ Len(chain) \in Nat /\ DOMAIN chain = 1..Len(chain)
      /\ \A h \in DOMAIN chain : chain[h] \in Seq(Txs)
  BY LenProperties, ElementOfSeq
<1>2. ASSUME NEW h \in DOMAIN chain PROVE BlockTxs(chain[h]) \subseteq Txs
  BY <1>1, ElementOfSeq, LenProperties DEF BlockTxs
<1>3. Confirmed \subseteq All
  BY <1>2 DEF Confirmed, All
<1>4. ASSUME NEW t \in Confirmed \ Base
      PROVE  t \in Txs /\ ParentsOf(t) \subseteq Confirmed
  <2>1. PICK h \in DOMAIN chain : t \in BlockTxs(chain[h])
    BY DEF Confirmed
  <2>2. ParentsOf(t) \subseteq Base \cup UNION {BlockTxs(chain[g]) : g \in 1..h}
    BY <2>1 DEF ChainLinked
  <2>3. 1..h \subseteq DOMAIN chain
    BY <1>1
  <2>4. QED
    BY <1>2, <2>1, <2>2, <2>3 DEF Confirmed
<1>5. ASSUME NEW o \in SpentOnChain PROVE Owner[o] \in Confirmed
  <2>1. PICK t \in Confirmed \ Base : o \in In(t)
    BY DEF SpentOnChain
  <2>2. Owner[o] \in ParentsOf(t)
    BY <2>1 DEF ParentsOf
  <2>3. QED
    BY <1>4, <2>1, <2>2
<1> QED
  BY <1>3, <1>4, <1>5

(* Blocks taken off the chain leave a chain.                               *)
LEMMA Shortened ==
  ASSUME chain \in Seq(Seq(Txs)), ChainLinked,
         NEW n \in 0..Len(chain), chain' = SubSeq(chain, 1, n)
  PROVE  /\ chain' \in Seq(Seq(Txs)) /\ ChainLinked'
         /\ Len(chain') = n /\ DOMAIN chain' = 1..n
         /\ \A h \in 1..n : chain'[h] = chain[h]
<1>1. Len(chain) \in Nat /\ DOMAIN chain = 1..Len(chain)
  BY LenProperties
<1>2. \A i \in 1..n : i \in 1..Len(chain) /\ chain[i] \in Seq(Txs)
  BY <1>1, ElementOfSeq
<1>3. /\ SubSeq(chain, 1, n) \in Seq(Seq(Txs))
      /\ Len(SubSeq(chain, 1, n)) = n
      /\ \A i \in 1..n : SubSeq(chain, 1, n)[i] = chain[i]
  <2>1. CASE n = 0
    BY <2>1, <1>1, SubSeqProperties
  <2>2. CASE n # 0
    <3>1. 1 \in Int /\ n \in Int /\ 1 <= n /\ \A i \in 1..n : chain[i] \in Seq(Txs)
      BY <2>2, <1>1, <1>2
    <3>2. /\ SubSeq(chain, 1, n) \in Seq(Seq(Txs))
          /\ Len(SubSeq(chain, 1, n)) = n - 1 + 1
          /\ \A i \in 1..(n - 1 + 1) : SubSeq(chain, 1, n)[i] = chain[1 + i - 1]
      BY <3>1, SubSeqProperties
    <3>3. \A i \in 1..n : 1 + i - 1 = i
      OBVIOUS
    <3>4. n - 1 + 1 = n
      BY <1>1
    <3>5. QED
      BY <3>2, <3>3, <3>4
  <2>3. QED
    BY <2>1, <2>2
<1>4. DOMAIN chain' = 1..n
  BY <1>3, LenProperties
<1>5. ASSUME NEW h \in 1..n, NEW t \in BlockTxs(chain[h])
      PROVE  ParentsOf(t) \subseteq Base \cup UNION {BlockTxs(chain'[g]) : g \in 1..h}
  <2>1. ParentsOf(t) \subseteq Base \cup UNION {BlockTxs(chain[g]) : g \in 1..h}
    BY <1>1, <1>2, <1>5 DEF ChainLinked
  <2>2. \A g \in 1..h : g \in 1..n
    BY <1>1, <1>5
  <2>3. \A g \in 1..h : chain'[g] = chain[g]
    BY <1>3, <2>2
  <2>4. QED
    BY <2>1, <2>3
<1> QED
  BY <1>3, <1>4, <1>5 DEF ChainLinked

(* So does a block that connects.                                          *)
LEMMA Lengthened ==
  ASSUME chain \in Seq(Seq(Txs)), ChainLinked,
         NEW b \in Seq(Txs), Connects(b), chain' = Append(chain, b)
  PROVE  /\ chain' \in Seq(Seq(Txs)) /\ ChainLinked'
         /\ Confirmed' = Confirmed \cup BlockTxs(b)
         /\ BlockTxs(b) \subseteq Txs
<1> DEFINE n == Len(chain) + 1
<1>1. Len(chain) \in Nat /\ DOMAIN chain = 1..Len(chain)
  BY LenProperties
<1>2. /\ chain' \in Seq(Seq(Txs)) /\ Len(chain') = n /\ chain'[n] = b
      /\ \A h \in 1..Len(chain) : chain'[h] = chain[h]
  BY AppendProperties
<1>3. DOMAIN chain' = DOMAIN chain \cup {n} /\ \A h \in DOMAIN chain : 1..h \subseteq DOMAIN chain
  <2>1. DOMAIN chain' = 1..n
    BY <1>2, LenProperties
  <2>2. QED
    BY <1>1, <2>1
<1>4. BlockTxs(b) \subseteq Txs
  BY ElementOfSeq, LenProperties DEF BlockTxs
<1>n. n \notin DOMAIN chain /\ DOMAIN chain \subseteq 1..n /\ n \in 1..n
  BY <1>1
<1> HIDE DEF n
<1>5. Confirmed' = Confirmed \cup BlockTxs(b)
  BY <1>1, <1>2, <1>3 DEF Confirmed
<1>6. ASSUME NEW h \in DOMAIN chain, NEW t \in BlockTxs(chain[h])
      PROVE  ParentsOf(t) \subseteq Base \cup UNION {BlockTxs(chain'[g]) : g \in 1..h}
  <2>1. ParentsOf(t) \subseteq Base \cup UNION {BlockTxs(chain[g]) : g \in 1..h}
    BY <1>6 DEF ChainLinked
  <2>2. \A g \in 1..h : chain'[g] = chain[g]
    BY <1>1, <1>2, <1>3
  <2>3. QED
    BY <2>1, <2>2
<1>7. ASSUME NEW t \in BlockTxs(b)
      PROVE  ParentsOf(t) \subseteq Base \cup UNION {BlockTxs(chain'[g]) : g \in 1..n}
  <2>1. PICK i \in DOMAIN b : t = b[i]
    BY DEF BlockTxs
  <2>2. DOMAIN b = 1..Len(b) /\ Len(b) \in Nat
    BY LenProperties
  <2>i. i \in 1..Len(b) /\ \A j \in 1..(i - 1) : j \in 1..Len(b)
    BY <2>1, <2>2
  <2>3. \A j \in 1..(i - 1) : b[j] \in BlockTxs(b)
    BY <2>2, <2>i DEF BlockTxs
  <2>4. In(t) \subseteq Coins \cup UNION {Outs[s] : s \in {b[j] : j \in 1..(i - 1)}}
    BY <2>1 DEF Connects
  <2>5. \A o \in In(t) : \E s \in Confirmed \cup BlockTxs(b) : o \in Outs[s]
    BY <2>3, <2>4 DEF Coins
  <2>6. Confirmed \cup BlockTxs(b) \subseteq All
    BY <1>4, ChainFacts DEF All
  <2>7. \A o \in In(t) : Owner[o] \in Confirmed \cup BlockTxs(b)
    BY <2>5, <2>6, MempoolAssumption
  <2>8. Confirmed \cup BlockTxs(b) \subseteq Base \cup UNION {BlockTxs(chain'[g]) : g \in 1..n}
    BY <1>1, <1>2, <1>n DEF Confirmed
  <2>9. QED
    BY <2>7, <2>8 DEF ParentsOf
<1>8. ASSUME NEW h \in DOMAIN chain', NEW t \in BlockTxs(chain'[h])
      PROVE  ParentsOf(t) \subseteq Base \cup UNION {BlockTxs(chain'[g]) : g \in 1..h}
  <2>1. CASE h \in DOMAIN chain
    BY <1>1, <1>2, <1>6, <1>8, <2>1
  <2>2. CASE h = n
    BY <1>2, <1>7, <1>8, <2>2
  <2>3. QED
    BY <1>3, <2>1, <2>2
<1> QED
  BY <1>2, <1>4, <1>5, <1>8 DEF ChainLinked

(* Every step leaves a chain of blocks, each connected to those below.     *)
LEMMA NextChain ==
  ASSUME IInv, [Next]_vars
  PROVE  chain' \in Seq(Seq(Txs)) /\ ChainLinked'
<1>t. chain \in Seq(Seq(Txs)) /\ ChainLinked
  BY DEF IInv, TypeOK
<1>u. chain' = chain => chain' \in Seq(Seq(Txs)) /\ ChainLinked'
  BY <1>t DEF ChainLinked
<1>n. Len(chain) \in Nat
  BY <1>t, LenProperties
<1>1. ASSUME NEW b \in Templates, AddBlock(b)
      PROVE  chain' \in Seq(Seq(Txs)) /\ ChainLinked'
  BY <1>1, <1>t, Lengthened, MempoolAssumption DEF AddBlock
<1>2. CASE RemoveBlock
  <2>1. chain' = SubSeq(chain, 1, Len(chain) - 1) /\ chain # <<>>
    BY <1>2 DEF RemoveBlock
  <2>2. Len(chain) - 1 \in 0..Len(chain)
    BY <1>t, <1>n, <2>1, EmptySeq
  <2>3. QED
    BY <1>t, <2>1, <2>2, Shortened
<1>3. CASE Reset
  <2>1. PICK h \in 0..Len(chain) : chain' = SubSeq(chain, 1, h)
    BY <1>3 DEF Reset
  <2>2. QED
    BY <1>t, <2>1, Shortened
<1>4. CASE (\E t \in Txs : AddTX(t)) \/ InsertTX \/ LimitSize \/ ConfirmTX \/ BlockDone \/ UNCHANGED vars
  BY <1>4, <1>u DEF AddTX, InsertTX, LimitSize, ConfirmTX, BlockDone, vars
<1> QED
  BY <1>1, <1>2, <1>3, <1>4 DEF Next

-----------------------------------------------------------------------------
(* The types.  What an insertion leaves of the agenda, the rejects and the *)
(* failures is well typed however it ends.                                 *)
LEMMA NextType ==
  ASSUME IInv, [Next]_vars
  PROVE  TypeOK'
<1>t. /\ pool \subseteq Txs /\ spents \in [Outputs -> Txs \cup {None}]
      /\ rejects \subseteq Txs /\ agenda \in Seq(Item) /\ lost \subseteq Txs
      /\ failed \subseteq {"insertion", "block"} /\ chain \in Seq(Seq(Txs))
      /\ Faithful(waiting, orphans)
  BY DEF IInv, TypeOK, OrphansInv
<1>o. orphans' \in [Txs -> Nat] /\ waiting' \in [All -> Seq(Txs)]
  BY NextOrphans DEF OrphansInv, Faithful
<1>c. chain' \in Seq(Seq(Txs))
  BY NextChain
<1> DEFINE Rest ==
      /\ pool' \subseteq Txs /\ spents' \in [Outputs -> Txs \cup {None}]
      /\ rejects' \subseteq Txs /\ agenda' \in Seq(Item) /\ lost' \subseteq Txs
      /\ failed' \subseteq {"insertion", "block"}
<1> SUFFICES Rest
  BY <1>o, <1>c DEF TypeOK
<1>e. /\ UNCHANGED entries => pool' = pool /\ spents' = spents
      /\ \A S : Untrack(S) => pool' \subseteq Txs /\ spents' \in [Outputs -> Txs \cup {None}]
  BY <1>t DEF entries, Untrack
<1>p. \A x : Now(x) => Tail(agenda) \in Seq(Item)
  BY <1>t, Popped
<1>1. ASSUME NEW t \in Txs, AddTX(t) PROVE Rest
  <2>1. Insert(t, "peer") \in Item
    BY ItemFields DEF Callers
  <2>2. <<Insert(t, "peer")>> \in Seq(Item)
    BY <2>1
  <2>3. QED
    BY <1>1, <1>t, <1>e, <2>2 DEF AddTX
<1>2. ASSUME NEW b \in Templates, AddBlock(b) PROVE Rest
  <2>1. b \in Seq(Txs)
    BY MempoolAssumption
  <2> DEFINE s == [i \in DOMAIN b |-> Confirm(b[Len(b) + 1 - i])]
  <2>2. s \in Seq(Item)
    BY <2>1, ConfirmList
  <2>3. agenda' = <<>> \/ agenda' = s \o <<Done>>
    BY <1>2 DEF AddBlock
  <2> HIDE DEF s
  <2>4. s \o <<Done>> \in Seq(Item) /\ <<>> \in Seq(Item)
    BY <2>2, BlockAgenda, EmptySeq
  <2>5. QED
    BY <1>2, <1>t, <1>e, <2>3, <2>4 DEF AddBlock
<1>3. CASE RemoveBlock
  <2> DEFINE b == chain[Len(chain)]
             s == [i \in DOMAIN b |-> Insert(b[i], "block")]
  <2>1. b \in Seq(Txs)
    <3>1. Len(chain) \in Nat /\ Len(chain) # 0
      BY <1>3, <1>t, LenProperties, EmptySeq DEF RemoveBlock
    <3>2. QED
      BY <1>t, <3>1, ElementOfSeq
  <2>3. agenda' = <<>> \/ agenda' = s \o <<Done>>
    BY <1>3 DEF RemoveBlock
  <2> HIDE DEF b
  <2>2. s \in Seq(Item)
    BY <2>1, InsertList DEF Callers
  <2> HIDE DEF s
  <2>4. s \o <<Done>> \in Seq(Item) /\ <<>> \in Seq(Item)
    BY <2>2, BlockAgenda, EmptySeq
  <2>5. QED
    BY <1>3, <1>t, <1>e, <2>3, <2>4 DEF RemoveBlock
<1>4. CASE Reset
  BY <1>4, <1>t DEF Reset
<1>5. CASE InsertTX
  <2>1. PICK t \in Txs, from \in Callers :
           /\ Now(Insert(t, from))
           /\ \/ from = "block" /\ t \in pool /\ agenda' = Tail(agenda)
                   /\ UNCHANGED <<entries, orphans, waiting, rejects, lost, failed>>
              \/ Refuse(t, from) \/ Accept(t, from) \/ StoreOrphan(t, from)
    BY <1>5 DEF InsertTX
  <2>2. CASE Accept(t, from)
    <3>1. agenda' \in Seq(Item)
      BY <1>t, <2>1, <2>2, AcceptAgenda
    <3>2. pool' \subseteq Txs /\ spents' \in [Outputs -> Txs \cup {None}]
      BY <1>t, <2>2 DEF Accept, Track
    <3>3. QED
      BY <1>t, <2>2, <3>1, <3>2 DEF Accept
  <2>3. CASE ~Accept(t, from)
    <3>1. /\ pool' = pool /\ spents' = spents
          /\ agenda' = Tail(agenda) \/ agenda' = Unwound(Tail(agenda))
          /\ failed' = failed \/ failed' = failed \cup {"insertion"}
          /\ lost' \subseteq Txs /\ rejects' \subseteq Txs
      <4>1. TypeOK
        BY DEF IInv
      <4>2. QED
        BY <2>1, <2>3, <4>1, NotAccepted
    <3>2. agenda' \in Seq(Item)
      BY <1>t, <2>1, <3>1, FailedAgenda
    <3>3. QED
      BY <1>t, <3>1, <3>2
  <2>4. QED
    BY <2>2, <2>3
<1>6. CASE LimitSize
  <2>1. PICK t \in Txs, from \in Callers :
           /\ Now(Trim(t, from))
           /\ \/ UNCHANGED <<entries, rejects>>
              \/ /\ \E S : Untrack(S)
                 /\ UNCHANGED rejects \/ Rejected(t, from)
    BY <1>6 DEF LimitSize
  <2>2. rejects' \subseteq Txs
    BY <2>1, <1>t DEF Rejected
  <2>3. QED
    BY <1>6, <1>t, <1>e, <1>p, <2>1, <2>2 DEF LimitSize
<1>7. CASE ConfirmTX
  <2>1. PICK t \in Txs :
           Now(Confirm(t)) /\ (ConfirmEntry(t) \/ ConfirmOther(t) \/ ConfirmFails(t))
    BY <1>7 DEF ConfirmTX
  <2>2. rejects' = rejects /\ lost' = lost
    BY <1>7 DEF ConfirmTX
  <2>3. CASE ConfirmEntry(t)
    BY <1>t, <1>e, <1>p, <2>1, <2>2, <2>3 DEF ConfirmEntry
  <2>4. CASE ConfirmOther(t)
    BY <1>t, <1>e, <1>p, <2>1, <2>2, <2>4 DEF ConfirmOther
  <2>5. CASE ConfirmFails(t)
    <3>1. <<>> \in Seq(Item)
      BY EmptySeq
    <3>2. QED
      BY <1>t, <1>e, <2>2, <2>5, <3>1 DEF ConfirmFails
  <2>6. QED
    BY <2>1, <2>3, <2>4, <2>5
<1>8. CASE BlockDone
  BY <1>8, <1>t, <1>e, <1>p DEF BlockDone
<1>9. CASE UNCHANGED vars
  BY <1>9, <1>t DEF vars, entries
<1> QED
  BY <1>1, <1>2, <1>3, <1>4, <1>5, <1>6, <1>7, <1>8, <1>9 DEF Next

(* Every step leaves Done, if it is to be done, for last.                  *)
LEMMA NextEnds ==
  ASSUME IInv, [Next]_vars
  PROVE  DoneEnds(agenda')
<1>t. agenda \in Seq(Item) /\ DoneEnds(agenda) /\ chain \in Seq(Seq(Txs))
  BY DEF IInv, TypeOK
<1>e. DoneEnds(<<>>)
  BY DEF DoneEnds
<1>d. ASSUME NEW x, Now(x), agenda' = Tail(agenda) \/ agenda' = Unwound(Tail(agenda))
      PROVE  DoneEnds(agenda')
  BY <1>d, <1>t, FailedAgenda
<1>b. ASSUME NEW s \in Seq(Item), Done \notin ItemsOf(s) PROVE DoneEnds(s \o <<Done>>)
  <2>1. <<Done>> \in Seq(Item) /\ Len(<<Done>>) = 1
    BY ItemFields
  <2>2. DoneEnds(<<Done>>)
    BY <2>1 DEF DoneEnds
  <2>3. QED
    BY <1>b, <2>1, <2>2, ConcatEnds
<1>1. ASSUME NEW t \in Txs, AddTX(t) PROVE DoneEnds(agenda')
  <2>1. agenda' = <<Insert(t, "peer")>>
    BY <1>1 DEF AddTX
  <2>2. Len(agenda') = 1
    BY <2>1
  <2>3. QED
    BY <2>2 DEF DoneEnds
<1>2. ASSUME NEW b \in Templates, AddBlock(b) PROVE DoneEnds(agenda')
  <2> DEFINE s == [i \in DOMAIN b |-> Confirm(b[Len(b) + 1 - i])]
  <2>1. b \in Seq(Txs)
    BY MempoolAssumption
  <2>2. s \in Seq(Item) /\ ItemsOf(s) = {Confirm(t) : t \in BlockTxs(b)}
    BY <2>1, ConfirmList
  <2>3. Done \notin ItemsOf(s)
    <3>1. \A t : Confirm(t) # Done
      BY DEF Confirm, Done
    <3>2. QED
      BY <2>2, <3>1
  <2>4. agenda' = <<>> \/ agenda' = s \o <<Done>>
    BY <1>2 DEF AddBlock
  <2> HIDE DEF s
  <2>5. QED
    BY <1>b, <1>e, <2>2, <2>3, <2>4
<1>3. CASE RemoveBlock
  <2> DEFINE b == chain[Len(chain)]
             s == [i \in DOMAIN b |-> Insert(b[i], "block")]
  <2>1. b \in Seq(Txs)
    <3>1. chain # <<>>
      BY <1>3 DEF RemoveBlock
    <3>2. Len(chain) \in 1..Len(chain)
      BY <1>t, <3>1, EmptySeq, LenProperties
    <3>3. QED
      BY <1>t, <3>2, ElementOfSeq
  <2> HIDE DEF b
  <2>2. s \in Seq(Item) /\ ItemsOf(s) = {Insert(b[i], "block") : i \in DOMAIN b}
    BY <2>1, InsertList DEF Callers
  <2>3. Done \notin ItemsOf(s)
    <3>1. \A t : Insert(t, "block") # Done
      BY DEF Insert, Done
    <3>2. QED
      BY <2>2, <3>1
  <2>4. agenda' = <<>> \/ agenda' = s \o <<Done>>
    BY <1>3 DEF RemoveBlock, b
  <2> HIDE DEF s
  <2>5. QED
    BY <1>b, <1>e, <2>2, <2>3, <2>4
<1>4. CASE InsertTX
  <2>1. PICK t \in Txs, from \in Callers :
           /\ Now(Insert(t, from))
           /\ \/ from = "block" /\ t \in pool /\ agenda' = Tail(agenda)
                   /\ UNCHANGED <<entries, orphans, waiting, rejects, lost, failed>>
              \/ Refuse(t, from) \/ Accept(t, from) \/ StoreOrphan(t, from)
    BY <1>4 DEF InsertTX
  <2>2. CASE Accept(t, from)
    BY <1>t, <2>1, <2>2, AcceptAgenda DEF IInv, OrphansInv
  <2>3. CASE ~Accept(t, from)
    <3>1. agenda' = Tail(agenda) \/ agenda' = Unwound(Tail(agenda))
      BY <2>1, <2>3, NotAccepted DEF IInv
    <3>2. QED
      BY <1>d, <2>1, <3>1
  <2>4. QED
    BY <2>2, <2>3
<1>5. CASE LimitSize \/ BlockDone
  BY <1>5, <1>d DEF LimitSize, BlockDone
<1>6. CASE ConfirmTX
  <2>1. PICK t \in Txs :
           Now(Confirm(t)) /\ (ConfirmEntry(t) \/ ConfirmOther(t) \/ ConfirmFails(t))
    BY <1>6 DEF ConfirmTX
  <2>2. agenda' = Tail(agenda) \/ agenda' = <<>>
    BY <2>1 DEF ConfirmEntry, ConfirmOther, ConfirmFails
  <2>3. QED
    BY <1>d, <1>e, <2>1, <2>2
<1>7. CASE Reset \/ UNCHANGED vars
  BY <1>7, <1>t DEF Reset, vars
<1> QED
  BY <1>1, <1>2, <1>3, <1>4, <1>5, <1>6, <1>7 DEF Next

-----------------------------------------------------------------------------
(* The size of the pool: what takes it over the limit leaves word to trim  *)
(* it, and the step that trims it takes it below the threshold.            *)
LEMMA SmallerPool ==
  ASSUME IsFiniteSet(pool), pool' \subseteq pool
  PROVE  /\ IsFiniteSet(pool') /\ Cardinality(pool') <= Cardinality(pool)
         /\ Cardinality(pool') \in Nat /\ Cardinality(pool) \in Nat
BY FS_Subset, FS_CardinalityType

(* Every step leaves a pool within its limit, or word to trim it.          *)
LEMMA NextPool ==
  ASSUME IInv, [Next]_vars
  PROVE  PoolInv'
<1>t. agenda \in Seq(Item) /\ IsFiniteSet(pool) /\ MaxSize \in Nat /\ Threshold \in 0..MaxSize
  BY MempoolAssumption DEF IInv, TypeOK, PoolInv
<1>v. failed = {} /\ Cardinality(pool) > MaxSize => \E x \in ItemsOf(agenda) : x.do = "trim"
  BY DEF IInv, PoolInv
<1>e. agenda = <<>> => ItemsOf(agenda) = {}
  BY NothingToDo
<1> DEFINE Kept(s) == \A x \in ItemsOf(agenda) : x.do = "trim" => x \in ItemsOf(s)
<1>f. pool' \subseteq pool =>
        /\ IsFiniteSet(pool') /\ Cardinality(pool') <= Cardinality(pool)
        /\ Cardinality(pool') \in Nat /\ Cardinality(pool) \in Nat
  BY <1>t, SmallerPool
<1>s. pool' \subseteq pool /\ (Cardinality(pool') <= MaxSize \/ failed' # {}) => PoolInv'
  BY <1>t, <1>f DEF PoolInv
<1>k. pool' \subseteq pool /\ failed' = failed /\ Kept(agenda') => PoolInv'
  <2> SUFFICES ASSUME pool' \subseteq pool, failed' = failed, Kept(agenda'),
                      failed' = {}, Cardinality(pool') > MaxSize
               PROVE  \E x \in ItemsOf(agenda') : x.do = "trim"
    BY <1>f DEF PoolInv
  <2>1. Cardinality(pool) > MaxSize
    BY <1>t, <1>f
  <2>2. PICK x \in ItemsOf(agenda) : x.do = "trim"
    BY <1>v, <2>1
  <2>3. QED
    BY <2>2
<1>n. agenda = <<>> => Kept(agenda')
  BY <1>e
<1>p. ASSUME NEW x, Now(x), agenda' = Tail(agenda), x.do # "trim"
      PROVE  Kept(agenda')
  BY <1>p, <1>t, Popped
<1>u. UNCHANGED agenda => Kept(agenda')
  OBVIOUS
<1> HIDE DEF Kept
<1>1. ASSUME NEW t \in Txs, AddTX(t) PROVE PoolInv'
  BY <1>1, <1>k, <1>n DEF AddTX, entries
<1>2. ASSUME NEW b \in Templates, AddBlock(b) PROVE PoolInv'
  BY <1>2, <1>k, <1>n DEF AddBlock, entries
<1>3. CASE RemoveBlock
  BY <1>3, <1>k, <1>n DEF RemoveBlock, entries
<1>4. CASE Reset
  <2>1. pool' = {} /\ Cardinality(pool') = 0
    BY <1>4, FS_EmptySet DEF Reset
  <2>2. QED
    BY <1>s, <1>t, <2>1
<1>5. CASE InsertTX
  <2>1. PICK t \in Txs, from \in Callers :
           /\ Now(Insert(t, from))
           /\ \/ from = "block" /\ t \in pool /\ agenda' = Tail(agenda)
                   /\ UNCHANGED <<entries, orphans, waiting, rejects, lost, failed>>
              \/ Refuse(t, from) \/ Accept(t, from) \/ StoreOrphan(t, from)
    BY <1>5 DEF InsertTX
  <2>2. CASE Accept(t, from)
    <3>1. Trim(t, from) \in ItemsOf(agenda') /\ Trim(t, from).do = "trim"
      <4>1. Faithful(waiting, orphans)
        BY DEF IInv, OrphansInv
      <4>2. QED
        BY <1>t, <2>1, <2>2, <4>1, AcceptAgenda, ItemFields
    <3>2. IsFiniteSet(pool')
      <4>1. pool' = pool \cup {t}
        BY <2>2 DEF Accept, Track
      <4>2. QED
        BY <1>t, <4>1, FS_AddElement
    <3>3. QED
      BY <3>1, <3>2 DEF PoolInv
  <2>3. CASE ~Accept(t, from)
    <3>1. /\ pool' = pool
          /\ (failed' = failed /\ agenda' = Tail(agenda)) \/ failed' # {}
      <4>1. TypeOK
        BY DEF IInv
      <4>2. QED
        BY <2>1, <2>3, <4>1, NotAccepted
    <3>2. Insert(t, from).do # "trim"
      BY ItemFields
    <3>3. QED
      BY <1>k, <1>p, <1>s, <2>1, <3>1, <3>2
  <2>4. QED
    BY <2>2, <2>3
<1>6. CASE LimitSize
  <2>1. CASE Cardinality(pool) <= MaxSize
    <3>1. pool' = pool
      BY <1>6, <2>1 DEF LimitSize, entries
    <3>2. QED
      BY <1>s, <2>1, <3>1
  <2>2. CASE ~(Cardinality(pool) <= MaxSize)
    <3>1. PICK expired \in SUBSET Roots, cheap \in SUBSET Roots :
             Overflow(expired, cheap) /\ Untrack(Package(expired \cup cheap))
      BY <1>6, <2>2 DEF LimitSize
    <3>2. Remaining(expired \cup cheap) <= Threshold
      <4>1. cheap = {} => expired \cup cheap = expired
        OBVIOUS
      <4>2. QED
        BY <3>1, <4>1 DEF Overflow
    <3>3. pool' = pool \ Package(expired \cup cheap)
      BY <3>1 DEF Untrack
    <3>4. Cardinality(pool') <= Threshold
      BY <3>2, <3>3 DEF Remaining
    <3>5. Cardinality(pool') \in Nat
      BY <1>t, <3>3, SmallerPool
    <3>6. QED
      <4>1. Cardinality(pool') <= MaxSize /\ pool' \subseteq pool
        BY <1>t, <3>3, <3>4, <3>5
      <4>2. QED
        BY <1>s, <4>1
  <2>3. QED
    BY <2>1, <2>2
<1>7. CASE ConfirmTX
  <2>1. PICK t \in Txs :
           Now(Confirm(t)) /\ (ConfirmEntry(t) \/ ConfirmOther(t) \/ ConfirmFails(t))
    BY <1>7 DEF ConfirmTX
  <2>2. /\ pool' \subseteq pool
        /\ (failed' = failed /\ agenda' = Tail(agenda)) \/ failed' # {}
    BY <2>1 DEF ConfirmEntry, ConfirmOther, ConfirmFails, Untrack, entries
  <2>3. Confirm(t).do # "trim"
    BY ItemFields
  <2>4. QED
    BY <1>k, <1>p, <1>s, <2>1, <2>2, <2>3
<1>8. CASE BlockDone
  BY <1>8, <1>k, <1>p, ItemFields DEF BlockDone, entries
<1>9. CASE UNCHANGED vars
  BY <1>9, <1>k, <1>u DEF vars, entries
<1> QED
  BY <1>1, <1>2, <1>3, <1>4, <1>5, <1>6, <1>7, <1>8, <1>9 DEF Next

-----------------------------------------------------------------------------
(* What the entries spend.  Nothing outside a package spends its outputs.  *)
LEMMA PackageClosed ==
  ASSUME SpentsExact, pool \subseteq Txs, NEW X, NEW e \in pool, NEW o \in In(e),
         Owner[o] \in Package(X)
  PROVE  e \in Package(X)
<1>1. o \in Outputs
  <2>1. e \in Txs
    OBVIOUS
  <2>2. Inputs[e] \in Seq(Outputs)
    BY <2>1, MempoolAssumption
  <2>3. QED
    BY <2>2, ElementOfSeq, LenProperties DEF In
<1>2. spents[o] = e /\ e # None
  BY <1>1, MempoolAssumption DEF SpentsExact, All
<1>3. ASSUME NEW S \in SUBSET pool, X \subseteq S,
             \A q \in Outputs : Owner[q] \in S /\ spents[q] # None => spents[q] \in S
      PROVE  e \in S
  <2>1. Owner[o] \in S
    BY <1>3 DEF Package
  <2>2. QED
    BY <1>1, <1>2, <1>3, <2>1
<1> QED
  BY <1>3 DEF Package

(* A package contains its roots.                                           *)
LEMMA PackageContains ==
  ASSUME NEW X, NEW e \in pool, e \in X
  PROVE  e \in Package(X)
BY DEF Package

(* What gets in is not confirmed and spends nothing that the chain spent.  *)
LEMMA AcceptUnconfirmed ==
  ASSUME chain \in Seq(Seq(Txs)), ChainLinked, pool \subseteq Txs,
         pool \cap Confirmed = {}, NEW t \in Txs, Missing(t) = {}
  PROVE  /\ t \notin Confirmed
         /\ \A o \in In(t) : o \notin SpentOnChain
         /\ \A o \in In(t) : o \in Coins \/ \E p \in pool : o \in Outs[p]
<1>1. ASSUME NEW o \in In(t)
      PROVE  o \in Coins \/ \E p \in pool : o \in Outs[p]
  BY DEF Missing, In
<1>2. ASSUME NEW o \in In(t), o \in SpentOnChain PROVE FALSE
  <2>1. o \notin Coins
    BY <1>2 DEF Coins
  <2>2. PICK p \in pool : o \in Outs[p]
    BY <1>1, <2>1
  <2>3. Owner[o] = p
    BY <2>2, MempoolAssumption DEF All
  <2>4. Owner[o] \in Confirmed
    BY <1>2, ChainFacts
  <2>5. QED
    BY <2>3, <2>4
<1>3. t \notin Confirmed
  <2>1. t \notin Base
    BY MempoolAssumption
  <2>2. \E o : o \in In(t)
    <3>1. Inputs[t] \in Seq(Outputs) /\ Inputs[t] # <<>>
      BY MempoolAssumption
    <3>2. 1 \in DOMAIN Inputs[t]
      BY <3>1, EmptySeq, LenProperties
    <3>3. QED
      BY <3>2 DEF In
  <2>3. t \in Confirmed => \A o \in In(t) : o \in SpentOnChain
    BY <2>1 DEF SpentOnChain
  <2>4. QED
    BY <1>2, <2>2, <2>3
<1> QED
  BY <1>1, <1>2, <1>3

(* What the items of the agenda say of the block under way.                *)
LEMMA AgendaMeans ==
  /\ \A t \in Txs : t \in Returning <=> Insert(t, "block") \in ItemsOf(agenda)
  /\ \A t \in Txs : t \in Confirming <=> Confirm(t) \in ItemsOf(agenda)
  /\ Returning \subseteq Txs /\ Confirming \subseteq Txs
  /\ \A t \in Txs : t \in Returning' <=> Insert(t, "block") \in ItemsOf(agenda')
  /\ \A t \in Txs : t \in Confirming' <=> Confirm(t) \in ItemsOf(agenda')
  /\ Returning' \subseteq Txs /\ Confirming' \subseteq Txs
BY DEF Returning, Confirming

(* The chain and the entries stay, nothing returning is given up.          *)
LEMMA SameEntries ==
  ASSUME EntriesInv, chain' = chain, pool' = pool, failed \subseteq failed', lost \subseteq lost',
         \A x \in ItemsOf(agenda') : x \in ItemsOf(agenda) \/ (x.do = "insert" /\ agenda = <<>>),
         Confirming \subseteq Confirming' \/ Confirming = {},
         Returning \subseteq pool \cup lost' \cup Returning'
  PROVE  EntriesInv'
<1> SUFFICES ASSUME "block" \notin failed'
             PROVE  /\ pool' \cap Confirmed' \subseteq Confirming'
                    /\ Confirming' \subseteq Confirmed'
                    /\ Confirming' # {} => \A x \in ItemsOf(agenda') : x.do # "insert"
                    /\ \A e \in pool' : \A o \in In(e) :
                         /\ Backed(o)' \/ Contested(o)'
                         /\ o \in SpentOnChain' => Contested(o)'
  BY DEF EntriesInv
<1>1. Coins' = Coins /\ Confirmed' = Confirmed /\ SpentOnChain' = SpentOnChain
  BY DEF Coins, Confirmed, SpentOnChain
<1>2. /\ pool \cap Confirmed \subseteq Confirming
      /\ Confirming \subseteq Confirmed
      /\ Confirming # {} => \A x \in ItemsOf(agenda) : x.do # "insert"
      /\ \A e \in pool : \A o \in In(e) :
           /\ Backed(o) \/ Contested(o)
           /\ o \in SpentOnChain => Contested(o)
  BY DEF EntriesInv
<1>3. \A t \in Txs : Confirm(t).do # "insert"
  BY ItemFields
<1>4. Confirming' \subseteq Confirming
  BY <1>3, AgendaMeans
<1>5. Confirming' = Confirming
  BY <1>4
<1>6. agenda = <<>> => Confirming = {}
  BY NothingToDo
<1>7. \A o : /\ Backed(o) => Backed(o)'
             /\ Contested(o) => Contested(o)'
  BY <1>1, <1>5 DEF Backed, Contested
<1>8. Confirming' # {} => \A x \in ItemsOf(agenda') : x.do # "insert"
  BY <1>2, <1>5, <1>6
<1> QED
  BY <1>1, <1>2, <1>5, <1>7, <1>8

(* Entries go with the item x.  What the others spend is still there if no *)
(* removed entry created it or its creator is in the chain, and if a       *)
(* transaction of the block leaves none behind that it conflicts with.     *)
LEMMA FewerEntries ==
  ASSUME EntriesInv, chain' = chain, pool' \subseteq pool, failed \subseteq failed', lost' = lost,
         NEW x, ItemsOf(agenda) = ItemsOf(agenda') \cup {x}, x.do # "insert",
         \A e \in pool' : \A o \in In(e) : \A p \in pool \ pool' : o \in Outs[p] => p \in Confirmed,
         \A r \in Confirming \ Confirming' :
           r \notin pool' /\ \A e \in pool' : \A o \in In(e) : o \notin In(r)
  PROVE  EntriesInv'
<1> SUFFICES ASSUME "block" \notin failed'
             PROVE  /\ pool' \cap Confirmed' \subseteq Confirming'
                    /\ Confirming' \subseteq Confirmed'
                    /\ Confirming' # {} => \A y \in ItemsOf(agenda') : y.do # "insert"
                    /\ \A e \in pool' : \A o \in In(e) :
                         /\ Backed(o)' \/ Contested(o)'
                         /\ o \in SpentOnChain' => Contested(o)'
  BY DEF EntriesInv
<1>1. Coins' = Coins /\ Confirmed' = Confirmed /\ SpentOnChain' = SpentOnChain
  BY DEF Coins, Confirmed, SpentOnChain
<1>2. /\ pool \cap Confirmed \subseteq Confirming
      /\ Confirming \subseteq Confirmed
      /\ Confirming # {} => \A y \in ItemsOf(agenda) : y.do # "insert"
      /\ \A e \in pool : \A o \in In(e) :
           /\ Backed(o) \/ Contested(o)
           /\ o \in SpentOnChain => Contested(o)
  BY DEF EntriesInv
<1>3. Confirming' \subseteq Confirming
  BY AgendaMeans
<1>4. Returning' = Returning
  <2>1. \A t \in Txs : Insert(t, "block").do = "insert"
    BY ItemFields DEF Callers
  <2>2. QED
    BY <2>1, AgendaMeans
<1>5. ASSUME NEW e \in pool', NEW o \in In(e), Contested(o) PROVE Contested(o)'
  BY <1>3, <1>5 DEF Contested
<1>6. ASSUME NEW e \in pool', NEW o \in In(e) PROVE Backed(o)' \/ Contested(o)'
  <2>1. CASE Contested(o)
    BY <1>5, <2>1
  <2>2. CASE o \in Coins \/ \E p \in pool' \cup lost \cup Returning : o \in Outs[p]
    BY <1>1, <1>4, <2>2 DEF Backed
  <2>3. CASE \E p \in pool \ pool' : o \in Outs[p]
    <3>1. o \in Coins \/ o \in SpentOnChain
      BY <2>3 DEF Coins
    <3>2. QED
      BY <1>2, <2>1, <2>2, <3>1
  <2>4. QED
    BY <1>2, <2>1, <2>2, <2>3 DEF Backed
<1>7. \A e \in pool' : \A o \in In(e) : o \in SpentOnChain' => Contested(o)'
  BY <1>1, <1>2, <1>5
<1>8. pool' \cap Confirmed' \subseteq Confirming'
  BY <1>1, <1>2
<1> QED
  BY <1>1, <1>2, <1>3, <1>6, <1>7, <1>8

(* A block that connects puts its transactions and those that conflict     *)
(* with them up for a look.                                                *)
LEMMA AddBlockEntries ==
  ASSUME IInv, NEW b \in Templates, AddBlock(b)
  PROVE  EntriesInv'
<1>t. chain \in Seq(Seq(Txs)) /\ ChainLinked /\ pool \subseteq Txs /\ EntriesInv
  BY DEF IInv, TypeOK
<1>b. b \in Seq(Txs) /\ agenda = <<>> /\ pool' = pool /\ failed' = failed /\ lost' = lost \ BlockTxs(b)
  BY MempoolAssumption DEF AddBlock, entries
<1>1. Confirmed' = Confirmed \cup BlockTxs(b) /\ BlockTxs(b) \subseteq Txs
  BY <1>b, <1>t, Lengthened DEF AddBlock
<1>2. SpentOnChain' = SpentOnChain \cup UNION {In(t) : t \in BlockTxs(b)}
  <2>1. \A t \in BlockTxs(b) : t \notin Base
    BY <1>1, MempoolAssumption
  <2>2. QED
    BY <1>1, <2>1 DEF SpentOnChain
<1>3. Returning = {} /\ Confirming = {}
  BY <1>b, NothingToDo
<1>4. CASE pool = {}
  <2>1. agenda' = <<>>
    BY <1>4 DEF AddBlock
  <2>2. Confirming' = {}
    BY <2>1 DEF Confirming, ItemsOf
  <2>3. QED
    BY <1>4, <1>b, <2>2 DEF EntriesInv
<1>5. CASE pool # {}
  <2> DEFINE s == [i \in DOMAIN b |-> Confirm(b[Len(b) + 1 - i])]
  <2>1. agenda' = s \o <<Done>>
    BY <1>5 DEF AddBlock
  <2>2. s \in Seq(Item) /\ ItemsOf(s) = {Confirm(t) : t \in BlockTxs(b)}
    BY <1>b, ConfirmList
  <2> HIDE DEF s
  <2>3. ItemsOf(agenda') = {Confirm(t) : t \in BlockTxs(b)} \cup {Done}
    BY <2>1, <2>2, BlockAgenda
  <2>4. \A x \in ItemsOf(agenda') : x.do # "insert"
    BY <1>1, <2>3, ItemFields
  <2>5. Confirming' = BlockTxs(b)
    <3>1. \A t, r \in Txs : Confirm(t) = Confirm(r) => t = r
      BY ItemFields
    <3>2. \A t \in Txs : Confirm(t) # Done
      BY ItemFields
    <3>3. QED
      BY <1>1, <2>3, <3>1, <3>2 DEF Confirming
  <2>6. CASE "block" \in failed
    BY <1>b, <2>6 DEF EntriesInv
  <2>7. CASE "block" \notin failed
    <3>1. pool \cap Confirmed = {}
      BY <1>3, <1>t, <2>7 DEF EntriesInv
    <3>2. ASSUME NEW e \in pool, NEW o \in In(e)
          PROVE  /\ Backed(o)' \/ Contested(o)'
                 /\ o \in SpentOnChain' => Contested(o)'
      <4>1. Backed(o) /\ o \notin SpentOnChain
        BY <1>3, <1>t, <2>7 DEF EntriesInv, Contested
      <4>2. o \in SpentOnChain' => Contested(o)'
        BY <1>2, <2>5, <4>1 DEF Contested
      <4>3. o \in Coins \/ \E p \in pool \cup lost : o \in Outs[p]
        BY <1>3, <4>1 DEF Backed
      <4>4. \/ \E p \in pool' \cup lost' : o \in Outs[p]
            \/ \E p \in Confirmed' : o \in Outs[p]
        BY <1>1, <1>b, <4>3 DEF Coins
      <4>5. o \notin SpentOnChain' => Backed(o)'
        BY <4>4 DEF Backed, Coins
      <4>6. QED
        BY <4>2, <4>5
    <3>3. QED
      BY <1>1, <1>b, <2>4, <2>5, <3>1, <3>2 DEF EntriesInv
  <2>8. QED
    BY <2>6, <2>7
<1> QED
  BY <1>4, <1>5

(* The transactions of a disconnected block are on their way back.         *)
LEMMA RemoveBlockEntries ==
  ASSUME IInv, RemoveBlock
  PROVE  EntriesInv'
<1>t. chain \in Seq(Seq(Txs)) /\ ChainLinked /\ pool \subseteq Txs /\ EntriesInv
  BY DEF IInv, TypeOK
<1> DEFINE n == Len(chain) - 1
           b == chain[Len(chain)]
<1>b. agenda = <<>> /\ pool' = pool /\ failed' = failed /\ lost' = lost
  BY DEF RemoveBlock, entries
<1>1. Len(chain) \in Nat \ {0} /\ DOMAIN chain = 1..Len(chain) /\ b \in Seq(Txs)
  <2>1. chain # <<>>
    BY DEF RemoveBlock
  <2>2. Len(chain) \in Nat \ {0} /\ DOMAIN chain = 1..Len(chain)
    BY <1>t, <2>1, EmptySeq, LenProperties
  <2>3. QED
    BY <1>t, <2>2, ElementOfSeq
<1>2. n \in 0..Len(chain) /\ DOMAIN chain = 1..n \cup {Len(chain)}
  BY <1>1
<1>3. chain' = SubSeq(chain, 1, n)
  BY DEF RemoveBlock
<1>a. agenda' = IF pool = {} THEN <<>>
                ELSE [i \in DOMAIN b |-> Insert(b[i], "block")] \o <<Done>>
  BY DEF RemoveBlock
<1> HIDE DEF n, b
<1>4. DOMAIN chain' = 1..n /\ \A h \in 1..n : chain'[h] = chain[h]
  BY <1>2, <1>3, <1>t, Shortened
<1>5. Confirmed = Confirmed' \cup BlockTxs(b)
  BY <1>2, <1>4 DEF Confirmed, b
<1>6. SpentOnChain' \subseteq SpentOnChain
  BY <1>5 DEF SpentOnChain
<1>7. Returning = {} /\ Confirming = {}
  BY <1>b, NothingToDo
<1>8. CASE pool = {}
  <2>1. agenda' = <<>>
    BY <1>8, <1>a
  <2>2. Confirming' = {}
    BY <2>1 DEF Confirming, ItemsOf
  <2>3. QED
    BY <1>8, <1>b, <2>2 DEF EntriesInv
<1>9. CASE pool # {}
  <2> DEFINE s == [i \in DOMAIN b |-> Insert(b[i], "block")]
  <2>1. agenda' = s \o <<Done>>
    BY <1>9, <1>a
  <2>2. s \in Seq(Item) /\ ItemsOf(s) = {Insert(b[i], "block") : i \in DOMAIN b}
    BY <1>1, InsertList DEF Callers
  <2> HIDE DEF s
  <2>3. ItemsOf(agenda') = {Insert(b[i], "block") : i \in DOMAIN b} \cup {Done}
    BY <2>1, <2>2, BlockAgenda
  <2>4. \A i \in DOMAIN b : b[i] \in Txs
    BY <1>1, ElementOfSeq, LenProperties
  <2>5. BlockTxs(b) \subseteq Returning'
    BY <2>3, <2>4 DEF BlockTxs, Returning
  <2>6. Confirming' = {}
    <3>1. \A t, r \in Txs : Confirm(t) # Insert(r, "block") /\ Confirm(t) # Done
      BY ItemFields DEF Callers
    <3>2. QED
      BY <2>3, <2>4, <3>1 DEF Confirming
  <2>7. CASE "block" \in failed
    BY <1>b, <2>7 DEF EntriesInv
  <2>8. CASE "block" \notin failed
    <3>1. pool' \cap Confirmed' = {}
      BY <1>5, <1>7, <1>b, <1>t, <2>8 DEF EntriesInv
    <3>2. ASSUME NEW e \in pool, NEW o \in In(e)
          PROVE  Backed(o)' /\ o \notin SpentOnChain'
      <4>1. Backed(o) /\ o \notin SpentOnChain
        BY <1>7, <1>t, <2>8 DEF EntriesInv, Contested
      <4>2. o \in Coins \/ \E p \in pool \cup lost : o \in Outs[p]
        BY <1>7, <4>1 DEF Backed
      <4>3. \/ \E p \in pool' \cup lost' \cup Returning' : o \in Outs[p]
            \/ \E p \in Confirmed' : o \in Outs[p]
        BY <1>5, <1>b, <2>5, <4>2 DEF Coins
      <4>4. o \notin SpentOnChain'
        BY <1>6, <4>1
      <4>5. QED
        BY <4>3, <4>4 DEF Backed, Coins
    <3>3. QED
      BY <1>b, <2>6, <3>1, <3>2 DEF EntriesInv
  <2>9. QED
    BY <2>7, <2>8
<1> QED
  BY <1>8, <1>9

(* A transaction that gets in spends what the chain or the pool has.       *)
LEMMA AcceptEntries ==
  ASSUME IInv, chain' = chain, NEW t \in Txs, NEW from \in Callers,
         Now(Insert(t, from)), Accept(t, from)
  PROVE  EntriesInv'
<1>t. /\ chain \in Seq(Seq(Txs)) /\ ChainLinked /\ pool \subseteq Txs /\ EntriesInv
      /\ agenda \in Seq(Item) /\ Faithful(waiting, orphans)
  BY DEF IInv, TypeOK, OrphansInv
<1>a. /\ pool' = pool \cup {t} /\ lost' = lost \ {t} /\ failed' = failed /\ Missing(t) = {}
  BY DEF Accept, Track
<1> SUFFICES ASSUME "block" \notin failed
             PROVE  EntriesInv'
  BY <1>a DEF EntriesInv
<1>c. Coins' = Coins /\ Confirmed' = Confirmed /\ SpentOnChain' = SpentOnChain
  BY DEF Coins, Confirmed, SpentOnChain
<1>p. /\ Insert(t, from) \in ItemsOf(agenda)
      /\ ItemsOf(agenda) = ItemsOf(Tail(agenda)) \cup {Insert(t, from)}
  BY <1>t, Popped
<1>1. Confirming = {}
  BY <1>p, <1>t, ItemFields DEF EntriesInv
<1>2. /\ \A x \in ItemsOf(agenda') :
           \/ x \in ItemsOf(Tail(agenda)) \/ x = Trim(t, from)
           \/ \E o \in Txs : x = Insert(o, "orphan")
      /\ ItemsOf(Tail(agenda)) \subseteq ItemsOf(agenda')
  BY <1>t, AcceptAgenda
<1>3. Confirming' = {}
  <2>1. \A r, o \in Txs : Confirm(r) # Trim(t, from) /\ Confirm(r) # Insert(o, "orphan")
    BY ItemFields DEF Callers
  <2>2. \A r \in Txs : Confirm(r) \in ItemsOf(agenda') => Confirm(r) \in ItemsOf(agenda)
    BY <1>2, <1>p, <2>1
  <2>3. QED
    BY <1>1, <2>2, AgendaMeans
<1>4. Returning \subseteq Returning' \cup {t}
  <2>1. ASSUME NEW r \in Txs, Insert(r, "block") \in ItemsOf(agenda), r # t
        PROVE  Insert(r, "block") \in ItemsOf(agenda')
    <3>1. Insert(r, "block") # Insert(t, from)
      BY <2>1, ItemFields DEF Callers
    <3>2. QED
      BY <1>2, <1>p, <2>1, <3>1
  <2>2. QED
    BY <2>1, AgendaMeans
<1>5. pool \cap Confirmed = {}
  BY <1>1, <1>t DEF EntriesInv
<1>6. /\ t \notin Confirmed
      /\ \A o \in In(t) : o \notin SpentOnChain
      /\ \A o \in In(t) : o \in Coins \/ \E p \in pool : o \in Outs[p]
  BY <1>a, <1>t, <1>5, AcceptUnconfirmed
<1>7. ASSUME NEW e \in pool', NEW o \in In(e)
      PROVE  Backed(o)' /\ o \notin SpentOnChain'
  <2>1. CASE e = t
    BY <1>a, <1>c, <1>6, <2>1 DEF Backed
  <2>2. CASE e \in pool
    <3>1. Backed(o) /\ o \notin SpentOnChain
      BY <1>1, <1>t, <2>2 DEF EntriesInv, Contested
    <3>2. o \in Coins \/ \E p \in pool' \cup lost' \cup Returning' : o \in Outs[p]
      BY <1>4, <1>a, <3>1 DEF Backed
    <3>3. QED
      BY <1>c, <3>1, <3>2 DEF Backed
  <2>3. QED
    BY <1>a, <2>1, <2>2
<1> QED
  BY <1>3, <1>5, <1>6, <1>7, <1>a, <1>c DEF EntriesInv

(* A transaction that does not get in changes no entry.                    *)
LEMMA OtherInsertEntries ==
  ASSUME IInv, chain' = chain, NEW t \in Txs, NEW from \in Callers, Now(Insert(t, from)),
         \/ from = "block" /\ t \in pool /\ agenda' = Tail(agenda)
              /\ UNCHANGED <<entries, orphans, waiting, rejects, lost, failed>>
         \/ Refuse(t, from) \/ StoreOrphan(t, from)
  PROVE  EntriesInv'
<1>t. agenda \in Seq(Item) /\ EntriesInv /\ TypeOK
  BY DEF IInv, TypeOK
<1>1. /\ pool' = pool /\ lost \subseteq lost' /\ failed \subseteq failed'
      /\ agenda' = Tail(agenda) \/ agenda' = Unwound(Tail(agenda))
      /\ from = "block" => t \in pool \cup lost'
  BY <1>t, NotAccepted
<1>2. /\ ItemsOf(agenda') \subseteq ItemsOf(agenda)
      /\ \A y \in ItemsOf(agenda) :
           y # Insert(t, from) /\ y.from = "block" /\ y.do # "trim" => y \in ItemsOf(agenda')
  BY <1>1, <1>t, FailedAgenda
<1>3. Insert(t, from) \in ItemsOf(agenda) /\ Insert(t, from).do = "insert"
  BY <1>t, Popped, ItemFields
<1>4. CASE "block" \in failed
  BY <1>1, <1>4 DEF EntriesInv
<1>5. CASE "block" \notin failed
  <2>1. Confirming = {}
    BY <1>3, <1>5, <1>t DEF EntriesInv
  <2>2. ASSUME NEW r \in Txs, Insert(r, "block") \in ItemsOf(agenda)
        PROVE  r \in pool \cup lost' \/ Insert(r, "block") \in ItemsOf(agenda')
    <3>1. CASE Insert(r, "block") = Insert(t, from)
      <4>1. r = t /\ from = "block"
        BY <3>1, ItemFields DEF Callers
      <4>2. QED
        BY <1>1, <4>1
    <3>2. CASE Insert(r, "block") # Insert(t, from)
      <4>1. Insert(r, "block").from = "block" /\ Insert(r, "block").do # "trim"
        BY ItemFields DEF Callers
      <4>2. QED
        BY <1>2, <2>2, <3>2, <4>1
    <3>3. QED
      BY <3>1, <3>2
  <2>3. Returning \subseteq pool \cup lost' \cup Returning'
    BY <2>2, AgendaMeans
  <2>4. QED
    BY <1>1, <1>2, <1>t, <2>1, <2>3, SameEntries
<1> QED
  BY <1>4, <1>5

(* Looking at a transaction of a connected block leaves no entry that      *)
(* conflicts with it or spends what went.                                  *)
LEMMA ConfirmEntries ==
  ASSUME IInv, chain' = chain, lost' = lost, NEW t \in Txs, Now(Confirm(t)),
         ConfirmEntry(t) \/ ConfirmOther(t) \/ ConfirmFails(t)
  PROVE  EntriesInv'
<1>t. agenda \in Seq(Item) /\ EntriesInv /\ SpentsExact /\ pool \subseteq Txs
  BY DEF IInv, TypeOK
<1>p. /\ Confirm(t) \in ItemsOf(agenda) /\ Confirm(t).do # "insert"
      /\ ItemsOf(agenda) = ItemsOf(Tail(agenda)) \cup {Confirm(t)}
  BY <1>t, Popped, ItemFields
<1>1. CASE ConfirmFails(t)
  BY <1>1 DEF ConfirmFails, EntriesInv
<1>2. CASE "block" \in failed
  BY <1>2 DEF ConfirmEntry, ConfirmOther, ConfirmFails, EntriesInv
<1>s. \A e \in pool : \A o \in In(e) : o \in Outputs /\ spents[o] = e /\ e # None
  <2>1. ASSUME NEW e \in pool, NEW o \in In(e) PROVE o \in Outputs
    <3>1. e \in Txs
      BY <1>t
    <3>2. Inputs[e] \in Seq(Outputs)
      BY <3>1, MempoolAssumption
    <3>3. QED
      BY <3>2, ElementOfSeq, LenProperties DEF In
  <2>2. QED
    BY <1>t, <2>1, MempoolAssumption DEF SpentsExact, All
<1>3. ASSUME agenda' = Tail(agenda)
      PROVE  \A r \in Confirming \ Confirming' : r = t
  <2>1. \A r \in Txs : Confirm(r) = Confirm(t) => r = t
    BY ItemFields
  <2>2. QED
    BY <1>3, <1>p, <2>1, AgendaMeans
<1>4. CASE ConfirmEntry(t) /\ "block" \notin failed
  <2>1. /\ pool' = pool \ {t} /\ t \in pool /\ agenda' = Tail(agenda) /\ failed' = failed
    BY <1>4 DEF ConfirmEntry, Untrack
  <2>2. t \in Confirmed
    BY <1>4, <1>p, <1>t, AgendaMeans DEF EntriesInv
  <2>3. \A e \in pool' : \A o \in In(e) : \A p \in pool \ pool' : o \in Outs[p] => p \in Confirmed
    BY <2>1, <2>2
  <2>4. t \notin pool' /\ \A e \in pool' : \A o \in In(e) : o \notin In(t)
    BY <1>s, <2>1
  <2>5. \A r \in Confirming \ Confirming' :
           r \notin pool' /\ \A e \in pool' : \A o \in In(e) : o \notin In(r)
    BY <1>3, <2>1, <2>4
  <2>6. /\ pool' \subseteq pool /\ failed \subseteq failed'
        /\ ItemsOf(agenda) = ItemsOf(agenda') \cup {Confirm(t)}
    BY <1>p, <2>1
  <2>7. QED
    BY <1>p, <1>t, <2>3, <2>5, <2>6, FewerEntries
<1>5. CASE ConfirmOther(t)
  <2>1. /\ pool' = pool \ DoubleSpenders(t) /\ t \notin pool
        /\ agenda' = Tail(agenda) /\ failed' = failed
    BY <1>5 DEF ConfirmOther, Untrack
  <2>2. \A e \in pool' : \A o \in In(e) : \A p \in pool \ pool' : o \in Outs[p] => p \in Confirmed
    <3>1. ASSUME NEW e \in pool', NEW o \in In(e), NEW p \in pool \ pool', o \in Outs[p]
          PROVE  FALSE
      <4>1. Owner[o] = p
        BY <1>t, <3>1, MempoolAssumption DEF All
      <4>2. p \in DoubleSpenders(t) /\ e \in pool /\ e \notin DoubleSpenders(t)
        BY <2>1
      <4>3. QED
        BY <1>t, <4>1, <4>2, PackageClosed DEF DoubleSpenders
    <3>2. QED
      BY <3>1
  <2>3. \A e \in pool' : \A o \in In(e) : o \notin In(t)
    <3>1. ASSUME NEW e \in pool', NEW o \in In(e), o \in In(t)
          PROVE  FALSE
      <4>1. e \in pool /\ e \notin DoubleSpenders(t)
        BY <2>1
      <4>2. e \in {spents[q] : q \in In(t)} \ {None}
        BY <1>s, <3>1, <4>1
      <4>3. QED
        BY <4>1, <4>2, PackageContains DEF DoubleSpenders
    <3>2. QED
      BY <3>1
  <2>4. \A r \in Confirming \ Confirming' :
           r \notin pool' /\ \A e \in pool' : \A o \in In(e) : o \notin In(r)
    BY <1>3, <2>1, <2>3
  <2>5. /\ pool' \subseteq pool /\ failed \subseteq failed'
        /\ ItemsOf(agenda) = ItemsOf(agenda') \cup {Confirm(t)}
    BY <1>p, <2>1
  <2>6. QED
    BY <1>p, <1>t, <2>2, <2>4, <2>5, FewerEntries
<1> QED
  BY <1>1, <1>2, <1>4, <1>5

(* The step that trims the pool leaves no entry that spends what went.     *)
LEMMA TrimEntries ==
  ASSUME IInv, LimitSize
  PROVE  EntriesInv'
<1>t. agenda \in Seq(Item) /\ EntriesInv /\ SpentsExact /\ pool \subseteq Txs
  BY DEF IInv, TypeOK
<1>1. PICK t \in Txs, from \in Callers :
         /\ Now(Trim(t, from))
         /\ UNCHANGED entries \/ \E X : Untrack(Package(X))
  BY DEF LimitSize
<1>2. agenda' = Tail(agenda) /\ chain' = chain /\ lost' = lost /\ failed' = failed
  BY DEF LimitSize
<1>3. /\ ItemsOf(agenda) = ItemsOf(agenda') \cup {Trim(t, from)}
      /\ Trim(t, from).do = "trim"
  BY <1>1, <1>2, <1>t, Popped, ItemFields
<1>4. \A r \in Confirming \ Confirming' : FALSE
  <2>1. \A r \in Txs : Confirm(r) # Trim(t, from)
    BY ItemFields
  <2>2. QED
    BY <1>3, <2>1, AgendaMeans
<1>5. pool' \subseteq pool
  BY <1>1 DEF entries, Untrack
<1>6. ASSUME NEW e \in pool', NEW o \in In(e), NEW p \in pool \ pool', o \in Outs[p]
      PROVE  FALSE
  <2>1. PICK X : pool' = pool \ Package(X)
    BY <1>1, <1>6 DEF entries, Untrack
  <2>2. Owner[o] = p
    BY <1>6, <1>t, MempoolAssumption DEF All
  <2>3. p \in Package(X) /\ e \in pool /\ e \notin Package(X)
    BY <2>1
  <2>4. QED
    BY <1>t, <2>2, <2>3, PackageClosed
<1>7. \A e \in pool' : \A o \in In(e) : \A p \in pool \ pool' : o \in Outs[p] => p \in Confirmed
  BY <1>6
<1>8. \A r \in Confirming \ Confirming' :
         r \notin pool' /\ \A e \in pool' : \A o \in In(e) : o \notin In(r)
  BY <1>4
<1>9. Trim(t, from).do # "insert" /\ failed \subseteq failed'
  BY <1>2, <1>3
<1> QED
  BY <1>2, <1>3, <1>5, <1>7, <1>8, <1>9, <1>t, FewerEntries

(* Every step keeps what the entries spend backed by the chain, the pool   *)
(* or the block under way.                                                 *)
LEMMA NextEntries ==
  ASSUME IInv, [Next]_vars
  PROVE  EntriesInv'
<1>t. agenda \in Seq(Item) /\ EntriesInv
  BY DEF IInv, TypeOK
<1>1. ASSUME NEW t \in Txs, AddTX(t) PROVE EntriesInv'
  <2>1. /\ agenda = <<>> /\ agenda' = <<Insert(t, "peer")>> /\ chain' = chain
        /\ pool' = pool /\ failed' = failed /\ lost' = lost
    BY <1>1 DEF AddTX, entries
  <2>2. Len(agenda') = 1 /\ agenda'[1] = Insert(t, "peer")
    BY <2>1
  <2>3. ItemsOf(agenda') = {Insert(t, "peer")} /\ Insert(t, "peer").do = "insert"
    BY <2>2, ItemFields DEF ItemsOf, Callers
  <2>4. Returning = {} /\ Confirming = {}
    BY <2>1, NothingToDo
  <2>5. /\ failed \subseteq failed' /\ lost \subseteq lost'
        /\ \A x \in ItemsOf(agenda') : x.do = "insert" /\ agenda = <<>>
        /\ Returning \subseteq pool \cup lost' \cup Returning'
    BY <2>1, <2>3, <2>4
  <2>6. QED
    BY <1>t, <2>1, <2>4, <2>5, SameEntries
<1>2. ASSUME NEW b \in Templates, AddBlock(b) PROVE EntriesInv'
  BY <1>2, AddBlockEntries
<1>3. CASE RemoveBlock
  BY <1>3, RemoveBlockEntries
<1>4. CASE Reset
  <2>1. agenda' = <<>> /\ pool' = {}
    BY <1>4 DEF Reset
  <2>2. Confirming' = {}
    BY <2>1 DEF Confirming, ItemsOf
  <2>3. QED
    BY <2>1, <2>2 DEF EntriesInv
<1>5. CASE InsertTX
  <2>1. PICK t \in Txs, from \in Callers :
           /\ Now(Insert(t, from))
           /\ \/ from = "block" /\ t \in pool /\ agenda' = Tail(agenda)
                   /\ UNCHANGED <<entries, orphans, waiting, rejects, lost, failed>>
              \/ Refuse(t, from) \/ Accept(t, from) \/ StoreOrphan(t, from)
    BY <1>5 DEF InsertTX
  <2>2. chain' = chain
    BY <1>5 DEF InsertTX
  <2>3. CASE Accept(t, from)
    BY <2>1, <2>2, <2>3, AcceptEntries
  <2>4. CASE ~Accept(t, from)
    BY <2>1, <2>2, <2>4, OtherInsertEntries
  <2>5. QED
    BY <2>3, <2>4
<1>6. CASE LimitSize
  BY <1>6, TrimEntries
<1>7. CASE ConfirmTX
  <2>1. PICK t \in Txs :
           Now(Confirm(t)) /\ (ConfirmEntry(t) \/ ConfirmOther(t) \/ ConfirmFails(t))
    BY <1>7 DEF ConfirmTX
  <2>2. chain' = chain /\ lost' = lost
    BY <1>7 DEF ConfirmTX
  <2>3. QED
    BY <2>1, <2>2, ConfirmEntries
<1>8. CASE BlockDone
  <2>1. /\ Now(Done) /\ agenda' = Tail(agenda) /\ chain' = chain
        /\ pool' = pool /\ lost' = lost /\ failed' = failed
    BY <1>8 DEF BlockDone, entries
  <2>2. ItemsOf(agenda) = ItemsOf(agenda') \cup {Done} /\ Done.do = "done"
    BY <1>t, <2>1, Popped, ItemFields
  <2>3. \A r \in Confirming \ Confirming' : FALSE
    <3>1. \A r \in Txs : Confirm(r) # Done
      BY ItemFields
    <3>2. QED
      BY <2>2, <3>1, AgendaMeans
  <2>4. /\ Done.do # "insert" /\ failed \subseteq failed' /\ pool' \subseteq pool
        /\ \A e \in pool' : \A o \in In(e) : \A p \in pool \ pool' : o \in Outs[p] => p \in Confirmed
        /\ \A r \in Confirming \ Confirming' :
             r \notin pool' /\ \A e \in pool' : \A o \in In(e) : o \notin In(r)
    BY <2>1, <2>2, <2>3
  <2>5. QED
    BY <1>t, <2>1, <2>2, <2>4, FewerEntries
<1>9. CASE UNCHANGED vars
  <2>1. /\ agenda' = agenda /\ chain' = chain /\ pool' = pool /\ failed' = failed /\ lost' = lost
    BY <1>9 DEF vars, entries
  <2>2. Confirming' = Confirming /\ Returning' = Returning
    BY <2>1 DEF Confirming, Returning
  <2>3. QED
    BY <1>t, <2>1, <2>2, SameEntries
<1> QED
  BY <1>1, <1>2, <1>3, <1>4, <1>5, <1>6, <1>7, <1>8, <1>9 DEF Next

-----------------------------------------------------------------------------
(* The invariant holds from the start and every step keeps it.             *)
LEMMA InitIInv ==
  ASSUME Init
  PROVE  IInv
<1>e. <<>> \in Seq(Txs) /\ <<>> \in Seq(Seq(Txs)) /\ <<>> \in Seq(Item) /\ DOMAIN <<>> = {}
  BY EmptySeq
<1>1. TypeOK
  BY <1>e DEF Init, TypeOK
<1>2. SpentsExact
  BY DEF Init, SpentsExact
<1>3. OrphansInv
  <2>1. /\ orphans = [t \in Txs |-> 0] /\ waiting = [h \in All |-> <<>>]
    BY DEF Init
  <2>2. OrphanTxs = {} /\ \A o \in Txs : ~(orphans[o] > 0)
    BY <2>1 DEF OrphanTxs, IsOrphan
  <2>3. Faithful(waiting, orphans)
    BY <1>e, <2>1, <2>2 DEF Faithful, InQueue
  <2>4. IsFiniteSet({}) /\ Cardinality({}) = 0 /\ 0 <= MaxOrphans
    BY FS_EmptySet, MempoolAssumption
  <2>5. QED
    BY <2>2, <2>3, <2>4 DEF OrphansInv
<1>4. PoolInv
  <2>1. IsFiniteSet({}) /\ Cardinality({}) = 0 /\ ~(0 > MaxSize)
    BY FS_EmptySet, MempoolAssumption
  <2>2. QED
    BY <2>1 DEF Init, PoolInv
<1>5. ChainLinked
  BY <1>e DEF Init, ChainLinked
<1>6. EntriesInv
  <2>1. Confirming = {}
    BY NothingToDo DEF Init
  <2>2. QED
    BY <2>1 DEF Init, EntriesInv
<1>7. DoneEnds(agenda)
  BY DEF Init, DoneEnds
<1> QED
  BY <1>1, <1>2, <1>3, <1>4, <1>5, <1>6, <1>7 DEF IInv

(* What the invariant says of the pool in every state and between calls.   *)
LEMMA Consequences ==
  ASSUME IInv
  PROVE  SpentsExact /\ WaitingFaithful /\ SizesLimited /\ EntriesConnect
<1>1. SpentsExact
  BY DEF IInv
<1>2. WaitingFaithful
  BY FaithfulMeans DEF IInv, OrphansInv
<1>3. SizesLimited
  <2>1. agenda = <<>> => ItemsOf(agenda) = {}
    BY NothingToDo
  <2>2. IsFiniteSet(pool) /\ Cardinality(pool) \in Nat /\ MaxSize \in Nat
    BY FS_CardinalityType, MempoolAssumption DEF IInv, PoolInv
  <2>3. agenda = <<>> /\ failed = {} => Cardinality(pool) <= MaxSize
    BY <2>1, <2>2 DEF IInv, PoolInv
  <2>4. QED
    BY <2>3 DEF IInv, OrphansInv, SizesLimited
<1>4. EntriesConnect
  <2>1. SUFFICES ASSUME agenda = <<>>, "block" \notin failed
                 PROVE  /\ pool \cap Confirmed = {}
                        /\ \A t \in pool : In(t) \subseteq
                             Coins \cup UNION {Outs[p] : p \in pool \cup lost}
    BY DEF EntriesConnect
  <2>2. Returning = {} /\ Confirming = {}
    BY <2>1, NothingToDo
  <2>3. \A t \in pool : \A o \in In(t) : Backed(o)
    BY <2>1, <2>2 DEF IInv, EntriesInv, Contested
  <2>4. \A t \in pool : \A o \in In(t) :
           o \in Coins \/ \E p \in pool \cup lost : o \in Outs[p]
    BY <2>2, <2>3 DEF Backed
  <2>5. pool \cap Confirmed = {}
    BY <2>1, <2>2 DEF IInv, EntriesInv
  <2>6. QED
    BY <2>4, <2>5
<1> QED
  BY <1>1, <1>2, <1>3, <1>4

(* IInv is an invariant.                                                   *)
LEMMA Invariance == Spec => []IInv
<1>1. IInv /\ [Next]_vars => IInv'
  BY NextType, NextExact, NextOrphans, NextPool, NextChain, NextEntries, NextEnds DEF IInv
<1> QED
  BY <1>1, InitIInv, PTL DEF Spec

(* The index of spent outputs is exact, even in the middle of a cascade of *)
(* insertions, evictions and conflicts: isDoubleSpend and the removal of   *)
(* spenders go by it.                                                      *)
THEOREM SpentsCorrect == Spec => []SpentsExact
<1>1. IInv => SpentsExact
  BY Consequences
<1> QED
  BY <1>1, Invariance, PTL

(* Whoever waits in the index of orphans is an orphan, waits once and for  *)
(* a parent of its own, and is not resolved before the last parent that it *)
(* waits for has come: the assertion of resolveOrphans holds.              *)
THEOREM WaitingCorrect == Spec => []WaitingFaithful
<1>1. IInv => WaitingFaithful
  BY Consequences
<1> QED
  BY <1>1, Invariance, PTL

(* Between calls the pool is within options.maxSize, unless an assertion   *)
(* cut a cascade short, and the orphans are within options.maxOrphans in   *)
(* every state.                                                            *)
THEOREM SizesCorrect == Spec => []SizesLimited
<1>1. IInv => SizesLimited
  BY Consequences
<1> QED
  BY <1>1, Invariance, PTL

(* Between calls the pool can be mined on top of the chain: no entry is    *)
(* confirmed, and each spends outputs of other entries or unspent coins,   *)
(* but for the children of what a disconnected block could not bring back  *)
(* and a block cut short by an assertion.                                  *)
THEOREM EntriesCorrect == Spec => []EntriesConnect
<1>1. IInv => EntriesConnect
  BY Consequences
<1> QED
  BY <1>1, Invariance, PTL

-----------------------------------------------------------------------------
(* The mempool of a node that stops and starts.  The chain below a root.   *)
ConfirmedBelow(c) == Base \cup UNION {BlockTxs(c[h]) : h \in DOMAIN c}

SpentBelow(c) == UNION {In(t) : t \in ConfirmedBelow(c) \ Base}

CoinsBelow(c) == (UNION {Outs[t] : t \in ConfirmedBelow(c)}) \ SpentBelow(c)

(* What is saved is a pool that fits the chain below its root, unless it   *)
(* missed a block.                                                         *)
Fits(d) ==
  /\ d.entries \cap ConfirmedBelow(d.root) = {}
  /\ \A e \in d.entries : \A o \in In(e) :
       /\ o \in CoinsBelow(d.root) \/ \E p \in d.entries \cup d.lost : o \in Outs[p]
       /\ o \notin SpentBelow(d.root)

SavedInv(d) ==
  /\ d.entries \subseteq Txs /\ IsFiniteSet(d.entries)
  /\ d.lost \subseteq Txs /\ d.failed \subseteq {"insertion", "block"}
  /\ \A s, t \in d.entries : s # t => In(s) \cap In(t) = {}
  /\ d.failed = {} => Cardinality(d.entries) <= MaxSize
  /\ "block" \notin d.failed => Fits(d)

CacheInv ==
  /\ persistent \in BOOLEAN
  /\ ~persistent => astray /\ disk = Saved({}, disk.root, {}, {}) /\ batch = disk
  /\ persistent => batch.entries = pool
  /\ batch.root = disk.root
  /\ ~astray /\ Done \notin ItemsOf(agenda) => disk.root = chain
  /\ SavedInv(disk)

LEMMA SavedFields ==
  ASSUME NEW S, NEW root, NEW gone, NEW broken
  PROVE  /\ Saved(S, root, gone, broken).entries = S
         /\ Saved(S, root, gone, broken).root = root
         /\ Saved(S, root, gone, broken).lost = gone
         /\ Saved(S, root, gone, broken).failed = broken
BY DEF Saved

(* An empty pool fits any chain.                                           *)
LEMMA EmptyFits ==
  ASSUME NEW root
  PROVE  SavedInv(Saved({}, root, {}, {}))
<1>1. IsFiniteSet({}) /\ Cardinality({}) = 0 /\ 0 <= MaxSize
  BY FS_EmptySet, MempoolAssumption
<1>2. Fits(Saved({}, root, {}, {}))
  BY SavedFields DEF Fits
<1> QED
  BY <1>1, <1>2, SavedFields DEF SavedInv

(* Between calls the pool fits the chain.                                  *)
LEMMA PoolFits ==
  ASSUME IInv', agenda' = <<>>, NEW d, d.entries = pool', d.lost = lost',
         \/ d.failed = failed' /\ d.root = chain'
         \/ d.failed = failed' \cup {"block"}
  PROVE  SavedInv(d)
<1>1. Confirmed' = ConfirmedBelow(chain') /\ SpentOnChain' = SpentBelow(chain')
      /\ Coins' = CoinsBelow(chain')
  BY DEF Confirmed, SpentOnChain, Coins, ConfirmedBelow, SpentBelow, CoinsBelow
<1>2. ItemsOf(agenda') = {} /\ Returning' = {} /\ Confirming' = {}
  BY DEF ItemsOf, Returning, Confirming
<1>3. /\ pool' \subseteq Txs /\ lost' \subseteq Txs /\ failed' \subseteq {"insertion", "block"}
      /\ IsFiniteSet(pool') /\ SpentsExact'
  BY DEF IInv, TypeOK, PoolInv
<1>4. failed' = {} => Cardinality(pool') <= MaxSize
  <2>1. failed' = {} => ~(Cardinality(pool') > MaxSize)
    BY <1>2 DEF IInv, PoolInv
  <2>2. Cardinality(pool') \in Nat /\ MaxSize \in Nat
    BY <1>3, FS_CardinalityType, MempoolAssumption
  <2>3. QED
    BY <2>1, <2>2
<1>5. ASSUME NEW s \in pool', NEW t \in pool', s # t PROVE In(s) \cap In(t) = {}
  <2>1. ASSUME NEW o \in In(s) \cap In(t) PROVE FALSE
    <3>1. o \in Outputs
      <4>1. Inputs[s] \in Seq(Outputs)
        BY <1>3, MempoolAssumption
      <4>2. QED
        BY <4>1, ElementOfSeq, LenProperties DEF In
    <3>2. spents'[o] = s /\ spents'[o] = t
      BY <1>3, <3>1 DEF SpentsExact
    <3>3. QED
      BY <1>5, <3>2
  <2>2. QED
    BY <2>1
<1>6. ASSUME "block" \notin d.failed PROVE Fits(d)
  <2>1. "block" \notin failed' /\ d.root = chain'
    BY <1>6
  <2>2. /\ pool' \cap Confirmed' \subseteq Confirming'
        /\ \A e \in pool' : \A o \in In(e) :
             /\ Backed(o)' \/ Contested(o)'
             /\ o \in SpentOnChain' => Contested(o)'
    BY <2>1 DEF IInv, EntriesInv
  <2>3. \A o : ~Contested(o)'
    BY <1>2 DEF Contested
  <2>4. \A o : Backed(o)' => o \in Coins' \/ \E p \in pool' \cup lost' : o \in Outs[p]
    BY <1>2 DEF Backed
  <2>5. QED
    BY <1>1, <1>2, <2>1, <2>2, <2>3, <2>4 DEF Fits
<1> QED
  BY <1>3, <1>4, <1>5, <1>6 DEF SavedInv

(* A step that is no restart and keeps the chain leaves word of the block  *)
(* under way, but for an assertion that cuts it short.                     *)
LEMMA BlockStays ==
  ASSUME IInv, InsertTX \/ LimitSize \/ ConfirmTX, Done \in ItemsOf(agenda)
  PROVE  \/ Done \in ItemsOf(agenda')
         \/ \E t \in Txs : Now(Confirm(t)) /\ ConfirmFails(t)
<1>t. agenda \in Seq(Item)
  BY DEF IInv, TypeOK
<1>d. Done \in Item /\ Done.from = "block" /\ Done.do # "trim"
  BY ItemFields
<1>1. CASE InsertTX
  <2>1. PICK t \in Txs, from \in Callers :
           /\ Now(Insert(t, from))
           /\ \/ from = "block" /\ t \in pool /\ agenda' = Tail(agenda)
                   /\ UNCHANGED <<entries, orphans, waiting, rejects, lost, failed>>
              \/ Refuse(t, from) \/ Accept(t, from) \/ StoreOrphan(t, from)
    BY <1>1 DEF InsertTX
  <2>2. Done # Insert(t, from)
    BY DEF Done, Insert
  <2>3. CASE Accept(t, from)
    <3>1. ItemsOf(Tail(agenda)) \subseteq ItemsOf(agenda')
      BY <1>t, <2>1, <2>3, AcceptAgenda DEF IInv, OrphansInv
    <3>2. QED
      BY <1>t, <2>1, <2>2, <3>1, Popped
  <2>4. CASE ~Accept(t, from)
    <3>1. agenda' = Tail(agenda) \/ agenda' = Unwound(Tail(agenda))
      BY <2>1, <2>4, NotAccepted DEF IInv
    <3>2. QED
      BY <1>t, <1>d, <2>1, <2>2, <3>1, FailedAgenda
  <2>5. QED
    BY <2>3, <2>4
<1>2. CASE LimitSize
  <2>1. PICK t \in Txs, from \in Callers : Now(Trim(t, from)) /\ agenda' = Tail(agenda)
    BY <1>2 DEF LimitSize
  <2>2. Done # Trim(t, from)
    BY DEF Done, Trim
  <2>3. QED
    BY <1>t, <2>1, <2>2, Popped
<1>3. CASE ConfirmTX
  <2>1. PICK t \in Txs :
           Now(Confirm(t)) /\ (ConfirmEntry(t) \/ ConfirmOther(t) \/ ConfirmFails(t))
    BY <1>3 DEF ConfirmTX
  <2>2. CASE ConfirmEntry(t) \/ ConfirmOther(t)
    <3>1. agenda' = Tail(agenda) /\ Done # Confirm(t)
      BY <2>2 DEF ConfirmEntry, ConfirmOther, Done, Confirm
    <3>2. QED
      BY <1>t, <2>1, <3>1, Popped
  <2>3. QED
    BY <2>1, <2>2
<1> QED
  BY <1>1, <1>2, <1>3

(* A restart: what the disk has is a mempool for the chain that is left.   *)
LEMMA RestartKeeps ==
  ASSUME IInv, CacheInv, Restart
  PROVE  IInv' /\ CacheInv'
<1>c. /\ chain' \in Seq(Seq(Txs)) /\ ChainLinked'
  <2>1. chain \in Seq(Seq(Txs)) /\ ChainLinked
    BY DEF IInv, TypeOK
  <2>2. PICK h \in 0..Len(chain) : chain' = SubSeq(chain, 1, h)
    BY DEF Restart
  <2>3. QED
    BY <2>1, <2>2, Shortened
<1>e. <<>> \in Seq(Txs) /\ <<>> \in Seq(Item) /\ DOMAIN <<>> = {}
  BY EmptySeq
<1>a. agenda' = <<>> /\ ItemsOf(agenda') = {} /\ DoneEnds(agenda')
  BY DEF Restart, ItemsOf, DoneEnds
<1>d. /\ SavedInv(disk')
      /\ disk'.root = chain' \/ disk'.entries = {}
      /\ persistent => disk'.root = chain'
      /\ ~persistent => disk' = Saved({}, disk'.root, {}, {})
  <2>1. CASE disk.root = chain'
    <3>1. disk' = disk
      BY <2>1 DEF Restart
    <3>2. QED
      BY <2>1, <3>1 DEF CacheInv
  <2>2. CASE disk.root # chain' /\ persistent
    <3>1. disk' = Saved({}, chain', {}, {})
      BY <2>2 DEF Restart, Wiped
    <3>2. QED
      BY <2>2, <3>1, EmptyFits, SavedFields
  <2>3. CASE disk.root # chain' /\ ~persistent
    <3>1. disk' = disk
      BY <2>3 DEF Restart, Wiped
    <3>2. disk.entries = {}
      BY <2>3, SavedFields DEF CacheInv
    <3>3. QED
      BY <2>3, <3>1, <3>2 DEF CacheInv
  <2>4. QED
    BY <2>1, <2>2, <2>3
<1>p. pool' = disk'.entries /\ lost' = disk'.lost /\ failed' = disk'.failed
  BY DEF Restart
<1>s. /\ pool' \subseteq Txs /\ IsFiniteSet(pool') /\ lost' \subseteq Txs
      /\ failed' \subseteq {"insertion", "block"}
      /\ \A s, t \in pool' : s # t => In(s) \cap In(t) = {}
      /\ failed' = {} => Cardinality(pool') <= MaxSize
  BY <1>d, <1>p DEF SavedInv
<1>n. spents' = [o \in Outputs |->
        IF \E t \in pool' : o \in In(t) THEN CHOOSE t \in pool' : o \in In(t) ELSE None]
  BY DEF Restart
<1>1. ASSUME NEW o \in Outputs
      PROVE  /\ spents'[o] \in pool' \cup {None}
             /\ spents'[o] # None => spents'[o] \in pool' /\ o \in In(spents'[o])
             /\ \A t \in pool' : o \in In(t) => spents'[o] = t
  <2> DEFINE u == CHOOSE t \in pool' : o \in In(t)
  <2>1. CASE \E t \in pool' : o \in In(t)
    <3>1. spents'[o] = u
      BY <1>n, <2>1
    <3>2. u \in pool' /\ o \in In(u)
      BY <2>1
    <3> HIDE DEF u
    <3>3. \A t \in pool' : o \in In(t) => u = t
      BY <1>s, <3>2
    <3>4. QED
      BY <3>1, <3>2, <3>3
  <2>2. CASE ~\E t \in pool' : o \in In(t)
    BY <1>n, <2>2
  <2>3. QED
    BY <2>1, <2>2
<1>2. SpentsExact'
  BY <1>1 DEF SpentsExact
<1>3. OrphansInv'
  <2>1. orphans' = [t \in Txs |-> 0] /\ waiting' = [h \in All |-> <<>>]
    BY DEF Restart
  <2>2. OrphanTxs' = {} /\ \A o \in Txs : ~(orphans'[o] > 0)
    BY <2>1 DEF OrphanTxs, IsOrphan
  <2>3. Faithful(waiting', orphans')
    BY <1>e, <2>1, <2>2 DEF Faithful, InQueue
  <2>4. IsFiniteSet({}) /\ Cardinality({}) = 0 /\ 0 <= MaxOrphans
    BY FS_EmptySet, MempoolAssumption
  <2>5. QED
    BY <2>2, <2>3, <2>4 DEF OrphansInv
<1>4. TypeOK'
  <2>1. spents' \in [Outputs -> Txs \cup {None}]
    BY <1>1, <1>n, <1>s
  <2>2. orphans' \in [Txs -> Nat] /\ waiting' \in [All -> Seq(Txs)]
    BY <1>e DEF Restart
  <2>3. rejects' \subseteq Txs /\ agenda' \in Seq(Item)
    BY <1>e DEF Restart
  <2>4. QED
    BY <1>c, <1>s, <2>1, <2>2, <2>3 DEF TypeOK
<1>5. PoolInv'
  <2>1. Cardinality(pool') \in Nat /\ MaxSize \in Nat
    BY <1>s, FS_CardinalityType, MempoolAssumption
  <2>2. QED
    BY <1>s, <2>1 DEF PoolInv
<1>6. EntriesInv'
  <2>1. Returning' = {} /\ Confirming' = {}
    BY <1>a DEF Returning, Confirming
  <2>2. SUFFICES ASSUME "block" \notin failed'
                 PROVE  /\ pool' \cap Confirmed' = {}
                        /\ \A e \in pool' : \A o \in In(e) :
                             Backed(o)' /\ o \notin SpentOnChain'
    BY <2>1 DEF EntriesInv
  <2>3. CASE pool' = {}
    BY <2>3
  <2>4. CASE disk'.root = chain'
    <3>1. Fits(disk')
      BY <1>d, <1>p, <2>2 DEF SavedInv
    <3>2. /\ Confirmed' = ConfirmedBelow(chain') /\ SpentOnChain' = SpentBelow(chain')
          /\ Coins' = CoinsBelow(chain')
      BY DEF Confirmed, SpentOnChain, Coins, ConfirmedBelow, SpentBelow, CoinsBelow
    <3>3. QED
      BY <1>p, <2>4, <3>1, <3>2 DEF Fits, Backed
  <2>5. QED
    BY <1>d, <1>p, <2>3, <2>4
<1>7. IInv'
  BY <1>2, <1>3, <1>4, <1>5, <1>6, <1>a, <1>c DEF IInv
<1>8. /\ persistent' = persistent /\ persistent \in BOOLEAN
      /\ batch' = disk' /\ astray' = ~persistent
  BY DEF Restart, CacheInv
<1>9. CacheInv'
  BY <1>8, <1>d, <1>p DEF CacheInv
<1> QED
  BY <1>7, <1>9

(* Every other step is one of the mempool, and what it writes is a pool    *)
(* that fits the chain.                                                    *)
LEMMA StepLogs ==
  ASSUME IInv, CacheInv, IInv', TransactionStep
  PROVE  CacheInv'
<1>1. /\ persistent' = persistent /\ persistent \in BOOLEAN /\ chain' = chain
      /\ batch' = Logged(batch.root, astray)
      /\ disk' = disk \/ (Returns /\ disk' = batch')
      /\ astray => astray'
  BY DEF TransactionStep, CacheInv, InsertTX, LimitSize, ConfirmTX
<1>2. ASSUME persistent PROVE batch'.entries = pool'
  <2>1. batch'.entries = (batch.entries \ (pool \ pool')) \cup (pool' \ pool)
    BY <1>1, <1>2, SavedFields DEF Logged
  <2>2. batch.entries = pool
    BY <1>2 DEF CacheInv
  <2>3. QED
    BY <2>1, <2>2
<1>3. batch'.root = disk.root
  BY <1>1, SavedFields DEF Logged, CacheInv
<1>4. disk'.root = disk.root
  BY <1>1, <1>3
<1>5. ~persistent => astray' /\ batch' = batch /\ disk' = disk
  BY <1>1 DEF Logged, CacheInv
<1>6. ASSUME ~astray', Done \notin ItemsOf(agenda') PROVE disk'.root = chain'
  <2>1. InsertTX \/ LimitSize \/ ConfirmTX
    BY DEF TransactionStep
  <2>2. ~astray /\ ~\E t \in Txs : Now(Confirm(t)) /\ ConfirmFails(t)
    BY <1>6 DEF TransactionStep
  <2>3. Done \notin ItemsOf(agenda)
    BY <1>6, <2>1, <2>2, BlockStays
  <2>4. QED
    BY <1>1, <1>4, <2>2, <2>3 DEF CacheInv
<1>7. ASSUME persistent, Returns, disk' = batch' PROVE SavedInv(disk')
  <2>1. agenda' = <<>>
    BY <1>7 DEF Returns
  <2>2. ItemsOf(agenda') = {}
    BY <2>1 DEF ItemsOf
  <2>3. /\ disk'.lost = lost' /\ disk'.entries = pool'
        /\ disk'.failed = IF astray THEN failed' \cup {"block"} ELSE failed'
    BY <1>1, <1>2, <1>7, SavedFields DEF Logged
  <2>4. ~astray => ~astray'
    <3>1. \A s, t : ~(Now(Confirm(s)) /\ (Now(Trim(t, "peer")) \/ Now(Insert(t, "peer"))))
      BY DEF Now, Confirm, Trim, Insert
    <3>2. QED
      BY <1>7, <3>1 DEF Returns, TransactionStep
  <2>5. astray \/ disk'.root = chain'
    BY <1>6, <2>2, <2>4
  <2>6. QED
    BY <2>1, <2>3, <2>5, PoolFits
<1>8. SavedInv(disk')
  BY <1>1, <1>5, <1>7 DEF CacheInv
<1> QED
  BY <1>1, <1>2, <1>3, <1>4, <1>5, <1>6, <1>8 DEF CacheInv

(* A call handed in, a block and its end, and a reset.                     *)
LEMMA MoveLogs ==
  ASSUME IInv, CacheInv, IInv',
         (\E t \in Txs : Submit(t)) \/ MoveChain \/ SyncCache \/ ResetCache
  PROVE  CacheInv'
<1>t. agenda \in Seq(Item) /\ persistent \in BOOLEAN /\ chain \in Seq(Seq(Txs)) /\ DoneEnds(agenda)
  BY DEF IInv, TypeOK, CacheInv
<1>n. agenda = <<>> => Done \notin ItemsOf(agenda)
  BY NothingToDo
<1>1. ASSUME NEW t \in Txs, Submit(t) PROVE CacheInv'
  <2>1. /\ persistent' = persistent /\ disk' = disk /\ batch' = batch /\ astray' = astray
        /\ chain' = chain /\ pool' = pool /\ agenda = <<>>
    BY <1>1 DEF Submit, AddTX, cacheVars, entries
  <2>2. QED
    BY <1>n, <2>1 DEF CacheInv
<1>2. CASE MoveChain
  <2>1. /\ persistent' = persistent /\ disk' = disk /\ batch' = batch
        /\ astray' = (astray \/ pool = {}) /\ pool' = pool
    BY <1>2 DEF MoveChain, AddBlock, RemoveBlock, entries
  <2>2. pool = {} \/ Done \in ItemsOf(agenda')
    <3>1. ASSUME NEW b \in Templates, AddBlock(b), pool # {} PROVE Done \in ItemsOf(agenda')
      <4> DEFINE s == [i \in DOMAIN b |-> Confirm(b[Len(b) + 1 - i])]
      <4>1. s \in Seq(Item)
        BY MempoolAssumption, ConfirmList
      <4>2. agenda' = s \o <<Done>>
        BY <3>1 DEF AddBlock
      <4> HIDE DEF s
      <4>3. QED
        BY <4>1, <4>2, BlockAgenda
    <3>2. ASSUME RemoveBlock, pool # {} PROVE Done \in ItemsOf(agenda')
      <4> DEFINE b == chain[Len(chain)]
                 s == [i \in DOMAIN b |-> Insert(b[i], "block")]
      <4>1. b \in Seq(Txs)
        <5>1. chain # <<>>
          BY <3>2 DEF RemoveBlock
        <5>2. Len(chain) \in 1..Len(chain)
          BY <1>t, <5>1, EmptySeq, LenProperties
        <5>3. QED
          BY <1>t, <5>2, ElementOfSeq
      <4>2. agenda' = s \o <<Done>>
        BY <3>2 DEF RemoveBlock
      <4> HIDE DEF b
      <4>3. s \in Seq(Item)
        BY <4>1, InsertList DEF Callers
      <4> HIDE DEF s
      <4>4. QED
        BY <4>2, <4>3, BlockAgenda
    <3>3. QED
      BY <1>2, <3>1, <3>2 DEF MoveChain
  <2>3. QED
    BY <2>1, <2>2 DEF CacheInv
<1>3. CASE SyncCache
  <2>1. /\ persistent' = persistent /\ batch' = Logged(chain, FALSE) /\ disk' = batch'
        /\ astray' = ~persistent
        /\ chain' = chain /\ pool' = pool /\ Now(Done) /\ agenda' = Tail(agenda)
    BY <1>3 DEF SyncCache, BlockDone, entries
  <2>2. CASE ~persistent
    <3>1. disk' = disk /\ batch' = disk'
      BY <2>1, <2>2 DEF Logged, CacheInv
    <3>2. QED
      BY <2>1, <2>2, <3>1 DEF CacheInv
  <2>3. CASE persistent
    <3>1. /\ disk'.entries = (batch.entries \ (pool \ pool')) \cup (pool' \ pool)
          /\ disk'.root = chain /\ disk'.lost = lost' /\ disk'.failed = failed'
      BY <2>1, <2>3, SavedFields DEF Logged
    <3>2. disk'.entries = pool'
      BY <2>1, <2>3, <3>1 DEF CacheInv
    <3>3. agenda' = <<>>
      <4>1. /\ Len(agenda) \in Nat \ {0} /\ agenda[1] = Done
            /\ Tail(agenda) \in Seq(Item) /\ Len(Tail(agenda)) = Len(agenda) - 1
        BY <1>t, <2>1, EmptySeq, HeadTailProperties DEF Now
      <4>2. 1 \in 1..Len(agenda)
        BY <4>1
      <4>3. Len(agenda) = 1
        BY <1>t, <4>1, <4>2 DEF DoneEnds
      <4>4. QED
        BY <2>1, <4>1, <4>3, EmptySeq
    <3>4. SavedInv(disk')
      BY <2>1, <3>1, <3>2, <3>3, PoolFits
    <3>5. QED
      BY <2>1, <2>3, <3>1, <3>2, <3>4 DEF CacheInv
  <2>4. QED
    BY <1>t, <2>2, <2>3
<1>4. CASE ResetCache
  <2>1. /\ persistent' = persistent /\ disk' = Wiped(chain') /\ batch' = disk'
        /\ astray' = ~persistent /\ pool' = {}
    BY <1>4 DEF ResetCache, Reset
  <2>2. CASE persistent
    <3>1. disk' = Saved({}, chain', {}, {})
      BY <2>1, <2>2 DEF Wiped
    <3>2. SavedInv(disk') /\ disk'.root = chain' /\ disk'.entries = {}
      BY <3>1, EmptyFits, SavedFields
    <3>3. QED
      BY <2>1, <2>2, <3>2 DEF CacheInv
  <2>3. CASE ~persistent
    <3>1. disk' = disk
      BY <2>1, <2>3 DEF Wiped
    <3>2. QED
      BY <2>1, <2>3, <3>1 DEF CacheInv
  <2>4. QED
    BY <1>t, <2>2, <2>3
<1> QED
  BY <1>1, <1>2, <1>3, <1>4

(* Both invariants, step by step.                                          *)
LEMMA CacheStep ==
  ASSUME IInv, CacheInv, [CacheNext]_<<vars, cacheVars>>
  PROVE  IInv' /\ CacheInv'
<1>1. CASE Restart
  BY <1>1, RestartKeeps
<1>2. ASSUME [Next]_vars PROVE IInv'
  BY <1>2, NextType, NextExact, NextOrphans, NextPool, NextChain, NextEntries, NextEnds DEF IInv
<1>3. CASE TransactionStep
  <2>1. [Next]_vars
    BY <1>3 DEF TransactionStep, Next
  <2>2. QED
    BY <1>2, <1>3, <2>1, StepLogs
<1>4. CASE (\E t \in Txs : Submit(t)) \/ MoveChain \/ SyncCache \/ ResetCache
  <2>1. [Next]_vars
    BY <1>4 DEF Submit, MoveChain, SyncCache, ResetCache, Next
  <2>2. QED
    BY <1>2, <1>4, <2>1, MoveLogs
<1>5. CASE UNCHANGED <<vars, cacheVars>>
  <2>1. IInv'
    BY <1>2, <1>5
  <2>2. /\ persistent' = persistent /\ disk' = disk /\ batch' = batch /\ astray' = astray
        /\ chain' = chain /\ pool' = pool /\ agenda' = agenda
    BY <1>5 DEF vars, cacheVars, entries
  <2>3. QED
    BY <2>1, <2>2 DEF CacheInv
<1> QED
  BY <1>1, <1>3, <1>4, <1>5 DEF CacheNext

LEMMA CacheInvariance == CacheSpec => [](IInv /\ CacheInv)
<1>1. ASSUME Init, CacheInit PROVE CacheInv
  <2>1. /\ persistent \in BOOLEAN /\ disk = Saved({}, chain, {}, {}) /\ batch = disk
        /\ astray = ~persistent /\ pool = {}
    BY <1>1 DEF Init, CacheInit
  <2>2. SavedInv(disk) /\ disk.entries = {} /\ disk.root = chain
    BY <2>1, EmptyFits, SavedFields
  <2>3. QED
    BY <2>1, <2>2 DEF CacheInv
<1>2. Init /\ CacheInit => IInv /\ CacheInv
  BY <1>1, InitIInv
<1>3. (IInv /\ CacheInv) /\ [CacheNext]_<<vars, cacheVars>> => (IInv /\ CacheInv)'
  BY CacheStep
<1> QED
  BY <1>2, <1>3, PTL DEF CacheSpec

(* What a node that keeps its pool reads from the disk after a crash can be*)
(* mined on top of the chain, whenever the process died: a pool is saved   *)
(* with the block it is on top of, and taken back only there.              *)
THEOREM ReloadCorrect == CacheSpec => []ReloadConnects
<1>1. ASSUME IInv, CacheInv PROVE ReloadConnects
  <2>1. persistent => batch.entries = pool
    BY <1>1 DEF CacheInv
  <2>2. ~astray /\ agenda = <<>> => disk.root = chain
    BY <1>1, NothingToDo DEF CacheInv, ItemsOf
  <2>3. ASSUME "block" \notin disk.failed, disk.root = chain
        PROVE  /\ disk.entries \cap Confirmed = {}
               /\ \A t \in disk.entries :
                    In(t) \subseteq Coins \cup UNION {Outs[p] : p \in disk.entries \cup disk.lost}
    <3>1. Confirmed = ConfirmedBelow(chain) /\ Coins = CoinsBelow(chain)
      BY DEF Confirmed, SpentOnChain, Coins, ConfirmedBelow, SpentBelow, CoinsBelow
    <3>2. Fits(disk)
      BY <1>1, <2>3 DEF CacheInv, SavedInv
    <3>3. QED
      BY <2>3, <3>1, <3>2 DEF Fits
  <2>4. \A s, t \in disk.entries : s # t => In(s) \cap In(t) = {}
    BY <1>1 DEF CacheInv, SavedInv
  <2>5. QED
    BY <2>1, <2>2, <2>3, <2>4 DEF ReloadConnects
<1>2. IInv /\ CacheInv => ReloadConnects
  BY <1>1
<1> QED
  BY <1>2, CacheInvariance, PTL

(* Whatever the disk holds, a pool read from it after a crash is as good   *)
(* as one that was never written: its index of spent outputs is exact, it  *)
(* is within its limit and fits the chain, then and ever after.            *)
THEOREM RestartsCorrect ==
  CacheSpec => [](SpentsExact /\ WaitingFaithful /\ SizesLimited /\ EntriesConnect)
<1>1. IInv => SpentsExact /\ WaitingFaithful /\ SizesLimited /\ EntriesConnect
  BY Consequences
<1> QED
  BY <1>1, CacheInvariance, PTL

=============================================================================
