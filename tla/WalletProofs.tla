---------------------------- MODULE WalletProofs ----------------------------
(***************************************************************************)
(* Proofs about modules TXDB and WalletDB, for any transactions, blocks    *)
(* and values: the records of a wallet agree with one another through      *)
(* conflicts, reorganisations, rescans, crashes and batches that fail, and *)
(* the balance that is kept beside them by additions and subtractions is   *)
(* the sum over the coins on record.                                       *)
(***************************************************************************)
EXTENDS WalletDB, FiniteSetTheorems, SequenceTheorems, WellFoundedInduction, TLAPS

-----------------------------------------------------------------------------
(* Numbers and finite sets.                                                *)

(* A set of numbers that is not empty has a least one.                     *)
LEMMA LeastNumber ==
  ASSUME NEW S, S \subseteq Nat, S # {}
  PROVE  \E m \in S : \A n \in S : m <= n
<1> DEFINE Below == OpToRel(<, Nat)
<1>1. IsWellFoundedOn(Below, Nat)
  BY NatLessThanWellFounded
<1>2. \A x, y \in Nat : <<y, x>> \in Below <=> y < x
  BY DEF OpToRel
<1> HIDE DEF Below
<1>3. PICK m \in S : \A n \in S : ~(<<n, m>> \in Below)
  BY <1>1, WFMin
<1>4. \A n \in S : ~(n < m)
  BY <1>2, <1>3
<1> QED
  BY <1>4

(* Of some finite sets one has no other of them below it.                  *)
LEMMA SmallestSet ==
  ASSUME NEW S, IsFiniteSet(S), NEW Bad \in SUBSET SUBSET S, Bad # {}
  PROVE  \E V \in Bad : IsFiniteSet(V) /\ \A W \in SUBSET V : W # V => W \notin Bad
<1>1. \A V \in Bad : IsFiniteSet(V) /\ Cardinality(V) \in Nat
  BY FS_Subset, FS_CardinalityType
<1> DEFINE Sizes == {Cardinality(V) : V \in Bad}
<1>2. PICK m \in Sizes : \A n \in Sizes : m <= n
  <2>1. Sizes \subseteq Nat /\ Sizes # {}
    BY <1>1
  <2> HIDE DEF Sizes
  <2> QED
    BY <2>1, LeastNumber
<1>3. PICK V \in Bad : m = Cardinality(V)
  OBVIOUS
<1>4. ASSUME NEW W \in SUBSET V, W # V, W \in Bad PROVE FALSE
  <2>1. Cardinality(W) <= Cardinality(V) /\ Cardinality(W) # Cardinality(V)
    BY <1>1, <1>3, <1>4, FS_Subset
  <2>2. Cardinality(V) <= Cardinality(W)
    BY <1>2, <1>3, <1>4
  <2>3. Cardinality(V) \in Nat /\ Cardinality(W) \in Nat
    BY <1>1, <1>3, <1>4
  <2> QED
    BY <2>1, <2>2, <2>3
<1> QED
  BY <1>1, <1>3, <1>4

-----------------------------------------------------------------------------
(* Sums of values.  Total is a fold: a function on the subsets of a set    *)
(* that takes off one element after another.                               *)
Summed(f, s) ==
  IF s = {} THEN 0 ELSE LET x == CHOOSE x \in s : TRUE IN Value[x] + f[s \ {x}]

Sums(f, S) == f = [s \in SUBSET S |-> Summed(f, s)]

(* Total is such a function's value, if there is one.                      *)
LEMMA TotalIsFold ==
  ASSUME NEW S
  PROVE  Total(S) = (CHOOSE f : Sums(f, S))[S]
BY Zenon DEF Total, MapThenSumSet, MapThenFoldSet, Sums, Summed

(* Two of them agree where both are defined.                               *)
LEMMA SumsAgree ==
  ASSUME NEW U, IsFiniteSet(U), NEW S, NEW T, U \subseteq S, U \subseteq T,
         NEW f, NEW g, Sums(f, S), Sums(g, T)
  PROVE  f[U] = g[U]
<1> DEFINE Bad == {V \in SUBSET U : f[V] # g[V]}
<1>1. SUFFICES ASSUME Bad # {} PROVE FALSE
  OBVIOUS
<1>2. PICK V \in Bad : \A W \in SUBSET V : W # V => W \notin Bad
  <2>1. Bad \in SUBSET SUBSET U
    OBVIOUS
  <2> HIDE DEF Bad
  <2> QED
    BY <1>1, <2>1, SmallestSet
<1>3. f[V] = Summed(f, V) /\ g[V] = Summed(g, V) /\ f[V] # g[V]
  BY DEF Sums
<1>4. V # {}
  BY <1>3 DEF Summed
<1> DEFINE x == CHOOSE x \in V : TRUE
<1>5. x \in V
  BY <1>4
<1>6. f[V] = Value[x] + f[V \ {x}] /\ g[V] = Value[x] + g[V \ {x}]
  BY <1>3, <1>4 DEF Summed
<1>7. f[V \ {x}] = g[V \ {x}]
  BY <1>2, <1>5
<1> QED
  BY <1>3, <1>6, <1>7

(* A finite set has one.                                                   *)
LEMMA SumsExist ==
  ASSUME NEW S, IsFiniteSet(S)
  PROVE  \E f : Sums(f, S)
<1> DEFINE Bad == {V \in SUBSET S : ~\E f : Sums(f, V)}
<1>1. SUFFICES ASSUME Bad # {} PROVE FALSE
  OBVIOUS
<1>2. PICK V \in Bad : IsFiniteSet(V) /\ \A W \in SUBSET V : W # V => W \notin Bad
  <2>1. Bad \in SUBSET SUBSET S
    OBVIOUS
  <2> HIDE DEF Bad
  <2> QED
    BY <1>1, <2>1, SmallestSet
<1> DEFINE part(W) == CHOOSE f : Sums(f, W)
<1>3. ASSUME NEW W \in SUBSET V, W # V PROVE Sums(part(W), W) /\ IsFiniteSet(W)
  <2>1. \E f : Sums(f, W)
    BY <1>2, <1>3
  <2>2. IsFiniteSet(W)
    BY <1>2, FS_Subset
  <2> QED
    BY <2>1, <2>2
<1> DEFINE g == [W \in SUBSET V |->
                   IF W = {} THEN 0
                   ELSE LET x == CHOOSE x \in W : TRUE IN Value[x] + part(W \ {x})[W \ {x}]]
<1>4. ASSUME NEW W \in SUBSET V PROVE g[W] = Summed(g, W)
  <2>1. CASE W = {}
    BY <2>1 DEF Summed
  <2>2. CASE W # {}
    <3> DEFINE x == CHOOSE x \in W : TRUE
               X == W \ {x}
    <3>1. x \in W /\ X \in SUBSET V /\ X # V
      BY <2>2
    <3>2. g[W] = Value[x] + part(X)[X]
      BY <2>2
    <3>3. Sums(part(X), X) /\ IsFiniteSet(X)
      <4> HIDE DEF part, X, x
      <4> QED
        BY <1>3, <3>1
    <3>4. g[X] = part(X)[X]
      <4>1. part(X)[X] = Summed(part(X), X)
        BY <3>3 DEF Sums
      <4>2. CASE X = {}
        BY <3>1, <4>1, <4>2 DEF Summed
      <4>3. CASE X # {}
        <5> DEFINE y == CHOOSE y \in X : TRUE
                   Y == X \ {y}
        <5>1. y \in X /\ Y \in SUBSET V /\ Y # V /\ Y \subseteq X
          BY <3>1, <4>3
        <5>2. g[X] = Value[y] + part(Y)[Y]
          BY <3>1, <4>3
        <5>3. part(X)[X] = Value[y] + part(X)[Y]
          BY <4>1, <4>3 DEF Summed
        <5>4. Sums(part(Y), Y) /\ IsFiniteSet(Y)
          <6> HIDE DEF part, Y, y, X, x
          <6> QED
            BY <1>3, <5>1
        <5>5. part(Y)[Y] = part(X)[Y]
          <6> HIDE DEF part, Y, y, X, x
          <6> QED
            BY <3>3, <5>1, <5>4, SumsAgree
        <5> HIDE DEF g
        <5> QED
          BY <5>2, <5>3, <5>5
      <4> QED
        BY <4>2, <4>3
    <3>5. Summed(g, W) = Value[x] + g[X]
      <4> HIDE DEF g
      <4> QED
        BY <2>2 DEF Summed
    <3> HIDE DEF g
    <3> QED
      BY <3>2, <3>4, <3>5
  <2> QED
    BY <2>1, <2>2
<1>5. Sums(g, V)
  <2>1. g = [W \in SUBSET V |-> g[W]]
    OBVIOUS
  <2>2. \A W \in SUBSET V : g[W] = Summed(g, W)
    BY <1>4
  <2> HIDE DEF g
  <2> QED
    BY <2>1, <2>2 DEF Sums
<1> QED
  BY <1>2, <1>5

(* Nothing sums to zero; and an element may be taken off, first the one    *)
(* that the fold takes ...                                                 *)
LEMMA TotalStep ==
  ASSUME NEW S, IsFiniteSet(S)
  PROVE  IF S = {} THEN Total(S) = 0
         ELSE \E x \in S : Total(S) = Value[x] + Total(S \ {x})
<1> DEFINE f == CHOOSE f : Sums(f, S)
<1>1. Sums(f, S) /\ Total(S) = f[S]
  <2>1. \E g : Sums(g, S)
    BY SumsExist
  <2>2. Sums(f, S)
    BY <2>1
  <2> QED
    BY <2>2, TotalIsFold
<1> HIDE DEF f
<1>2. f[S] = Summed(f, S)
  BY <1>1 DEF Sums
<1>3. CASE S = {}
  BY <1>1, <1>2, <1>3 DEF Summed
<1>4. CASE S # {}
  <2> DEFINE x == CHOOSE x \in S : TRUE
             X == S \ {x}
             g == CHOOSE g : Sums(g, X)
  <2>1. x \in S /\ X \subseteq S /\ IsFiniteSet(X)
    BY <1>4, FS_RemoveElement
  <2>2. f[S] = Value[x] + f[X]
    BY <1>2, <1>4 DEF Summed
  <2>3. Sums(g, X) /\ Total(X) = g[X]
    <3> HIDE DEF X, x
    <3>1. \E h : Sums(h, X)
      BY <2>1, SumsExist
    <3>2. Sums(g, X)
      BY <3>1
    <3> QED
      BY <3>2, TotalIsFold
  <2>4. f[X] = g[X]
    <3> HIDE DEF g, X, x
    <3> QED
      BY <1>1, <2>1, <2>3, SumsAgree
  <2>5. Total(S) = Value[x] + Total(S \ {x})
    BY <1>1, <2>2, <2>3, <2>4
  <2> HIDE DEF x, X, g
  <2> QED
    BY <1>4, <2>1, <2>5
<1> QED
  BY <1>3, <1>4

LEMMA TotalNat ==
  ASSUME NEW S \in SUBSET Outs, IsFiniteSet(S)
  PROVE  Total(S) \in Nat
<1> DEFINE Bad == {V \in SUBSET S : Total(V) \notin Nat}
<1>1. SUFFICES ASSUME Bad # {} PROVE FALSE
  OBVIOUS
<1>2. PICK V \in Bad : IsFiniteSet(V) /\ \A W \in SUBSET V : W # V => W \notin Bad
  <2>1. Bad \in SUBSET SUBSET S
    OBVIOUS
  <2> HIDE DEF Bad
  <2> QED
    BY <1>1, <2>1, SmallestSet
<1>3. V # {}
  <2>1. ASSUME V = {} PROVE FALSE
    <3>1. Total(V) = 0
      BY <1>2, <2>1, TotalStep
    <3> QED
      BY <1>2, <3>1
  <2> QED
    BY <2>1
<1>4. PICK x \in V : Total(V) = Value[x] + Total(V \ {x})
  BY <1>2, <1>3, TotalStep
<1>5. Value[x] \in Nat /\ Total(V \ {x}) \in Nat
  BY <1>2, TXAssumption
<1> QED
  BY <1>2, <1>4, <1>5

(* ... then any.                                                           *)
LEMMA TotalRemove ==
  ASSUME NEW S \in SUBSET Outs, IsFiniteSet(S), NEW x \in S
  PROVE  Total(S) = Value[x] + Total(S \ {x})
<1> DEFINE Bad == {V \in SUBSET S : \E z \in V : Total(V) # Value[z] + Total(V \ {z})}
<1>1. SUFFICES ASSUME Bad # {} PROVE FALSE
  OBVIOUS
<1>2. PICK V \in Bad : IsFiniteSet(V) /\ \A W \in SUBSET V : W # V => W \notin Bad
  <2>1. Bad \in SUBSET SUBSET S
    OBVIOUS
  <2> HIDE DEF Bad
  <2> QED
    BY <1>1, <2>1, SmallestSet
<1>3. PICK z \in V : Total(V) # Value[z] + Total(V \ {z})
  BY <1>2
<1>4. PICK y \in V : Total(V) = Value[y] + Total(V \ {y})
  BY <1>2, <1>3, TotalStep
<1>5. y # z
  BY <1>3, <1>4
<1> DEFINE Y == V \ {y}
           Z == V \ {z}
           X == V \ {y, z}
<1>6. Total(Y) = Value[z] + Total(X) /\ Total(Z) = Value[y] + Total(X)
  <2>1. Y \in SUBSET V /\ Z \in SUBSET V /\ Y # V /\ Z # V /\ z \in Y /\ y \in Z
    BY <1>5
  <2>2. Y \notin Bad /\ Z \notin Bad /\ Y \subseteq S /\ Z \subseteq S
    BY <1>2, <2>1
  <2>3. Y \ {z} = X /\ Z \ {y} = X
    OBVIOUS
  <2>4. Total(Y) = Value[z] + Total(Y \ {z}) /\ Total(Z) = Value[y] + Total(Z \ {y})
    BY <2>1, <2>2
  <2> QED
    BY <2>3, <2>4
<1>7. Total(X) \in Nat /\ Value[y] \in Nat /\ Value[z] \in Nat
  <2>1. X \in SUBSET Outs /\ IsFiniteSet(X) /\ y \in Outs /\ z \in Outs
    BY <1>2, FS_Subset
  <2> HIDE DEF X
  <2> QED
    BY <2>1, TotalNat, TXAssumption
<1> HIDE DEF X, Y, Z
<1>8. Total(V) = Value[y] + (Value[z] + Total(X))
  BY <1>4, <1>6 DEF Y
<1>9. Total(V) # Value[z] + (Value[y] + Total(X))
  BY <1>3, <1>6 DEF Z
<1> QED
  BY <1>7, <1>8, <1>9

(* What is apart is summed apart.                                          *)
LEMMA TotalUnion ==
  ASSUME NEW A \in SUBSET Outs, NEW B \in SUBSET Outs,
         IsFiniteSet(A), IsFiniteSet(B), A \cap B = {}
  PROVE  Total(A \cup B) = Total(A) + Total(B)
<1> DEFINE Bad == {V \in SUBSET B : Total(A \cup V) # Total(A) + Total(V)}
<1>1. SUFFICES ASSUME Bad # {} PROVE FALSE
  OBVIOUS
<1>2. PICK V \in Bad : IsFiniteSet(V) /\ \A W \in SUBSET V : W # V => W \notin Bad
  <2>1. Bad \in SUBSET SUBSET B
    OBVIOUS
  <2> HIDE DEF Bad
  <2> QED
    BY <1>1, <2>1, SmallestSet
<1>n. Total(A) \in Nat /\ V \subseteq B
  BY TotalNat
<1>3. ASSUME V = {} PROVE FALSE
  <2>1. Total(V) = 0
    BY <1>2, <1>3, TotalStep
  <2>2. A \cup V = A
    BY <1>3
  <2>3. Total(A \cup V) # Total(A) + Total(V)
    BY <1>2
  <2>4. Total(A \cup V) = Total(A)
    BY <2>2
  <2> QED
    BY <1>n, <2>1, <2>3, <2>4
<1>4. PICK x \in V : TRUE
  BY <1>3
<1> DEFINE X == V \ {x}
<1>5. Total(V) = Value[x] + Total(X)
  BY <1>2, <1>n, <1>4, TotalRemove
<1>6. Total(A \cup V) = Value[x] + Total(A \cup X)
  <2>1. (A \cup V) \in SUBSET Outs /\ IsFiniteSet(A \cup V) /\ x \in A \cup V
    BY <1>2, <1>4, <1>n, FS_Union
  <2>2. (A \cup V) \ {x} = A \cup X
    BY <1>n, <1>4
  <2> QED
    BY <2>1, <2>2, TotalRemove
<1>7. Total(A \cup X) = Total(A) + Total(X)
  BY <1>2, <1>4
<1>8. Total(X) \in Nat /\ Value[x] \in Nat
  <2>1. X \in SUBSET Outs /\ IsFiniteSet(X) /\ x \in Outs
    BY <1>2, <1>n, FS_Subset
  <2> HIDE DEF X
  <2> QED
    BY <2>1, TotalNat, TXAssumption
<1>9. Total(A \cup V) # Total(A) + Total(V)
  BY <1>2
<1> HIDE DEF X
<1> QED
  BY <1>5, <1>6, <1>7, <1>8, <1>9, <1>n

(* A set some elements of which go, while others come.                     *)
LEMMA TotalChange ==
  ASSUME NEW S \in SUBSET Outs, NEW Put \in SUBSET Outs, NEW Del \in SUBSET S,
         IsFiniteSet(S), IsFiniteSet(Put), S \cap Put = {}
  PROVE  LET T == (S \ Del) \cup Put
         IN  /\ IsFiniteSet(T)
             /\ Total(T) = Total(S) + Total(Put) - Total(Del)
             /\ Cardinality(T) = Cardinality(S) + Cardinality(Put) - Cardinality(Del)
<1> DEFINE Kept == S \ Del
           T == Kept \cup Put
<1>1. IsFiniteSet(Kept) /\ IsFiniteSet(Del) /\ Kept \in SUBSET Outs /\ Del \in SUBSET Outs
  BY FS_Subset
<1>2. Total(T) = Total(Kept) + Total(Put)
  BY <1>1, TotalUnion
<1>3. Total(S) = Total(Kept) + Total(Del)
  <2>1. S = Kept \cup Del /\ Kept \cap Del = {}
    OBVIOUS
  <2> HIDE DEF Kept
  <2> QED
    BY <1>1, <2>1, TotalUnion
<1>4. Cardinality(T) = Cardinality(Kept) + Cardinality(Put) /\ IsFiniteSet(T)
  <2>1. Kept \cap Put = {} /\ Cardinality(Kept \cap Put) = 0
    BY FS_EmptySet
  <2>2. /\ IsFiniteSet(Kept \cup Put)
        /\ Cardinality(Kept \cup Put) = Cardinality(Kept) + Cardinality(Put) - Cardinality(Kept \cap Put)
    BY <1>1, FS_Union
  <2>3. Cardinality(Kept) \in Nat /\ Cardinality(Put) \in Nat
    BY <1>1, FS_CardinalityType
  <2> QED
    BY <2>1, <2>2, <2>3
<1>5. Cardinality(S) = Cardinality(Kept) + Cardinality(Del)
  <2>1. S = Kept \cup Del /\ Kept \cap Del = {} /\ Cardinality(Kept \cap Del) = 0
    BY FS_EmptySet
  <2>2. Cardinality(Kept \cup Del) = Cardinality(Kept) + Cardinality(Del) - Cardinality(Kept \cap Del)
    BY <1>1, FS_Union
  <2>3. Cardinality(Kept) \in Nat /\ Cardinality(Del) \in Nat
    BY <1>1, FS_CardinalityType
  <2> HIDE DEF Kept
  <2> QED
    BY <2>1, <2>2, <2>3
<1>6. /\ Total(Kept) \in Nat /\ Total(Put) \in Nat /\ Total(Del) \in Nat
      /\ Cardinality(Kept) \in Nat /\ Cardinality(Put) \in Nat /\ Cardinality(Del) \in Nat
  BY <1>1, TotalNat, FS_CardinalityType
<1>7. /\ Total(T) = Total(S) + Total(Put) - Total(Del)
      /\ Cardinality(T) = Cardinality(S) + Cardinality(Put) - Cardinality(Del)
  <2> HIDE DEF Kept, T
  <2> QED
    BY <1>2, <1>3, <1>4, <1>5, <1>6
<1> QED
  BY <1>4, <1>7

-----------------------------------------------------------------------------
(* Sequences without repetition: what a block record goes through.         *)
LEMMA AppendOnce ==
  ASSUME NEW S, NEW s \in Seq(S), NEW t \in S
  PROVE  /\ Append(s, t) \in Seq(S) /\ Range(Append(s, t)) = Range(s) \cup {t}
         /\ IsInjective(s) /\ t \notin Range(s) => IsInjective(Append(s, t))
<1> DEFINE a == Append(s, t)
           n == Len(s)
<1>1. n \in Nat /\ DOMAIN s = 1..n
  BY LenProperties
<1>2. a \in Seq(S) /\ Len(a) = n + 1 /\ (\A i \in 1..n : a[i] = s[i]) /\ a[n + 1] = t
  BY AppendProperties
<1>3. DOMAIN a = 1..(n + 1)
  BY <1>2, LenProperties
<1> HIDE DEF a, n
<1>4. \A i \in 1..(n + 1) : i \in 1..n \/ i = n + 1
  BY <1>1
<1>5. \A i \in 1..n : i \in 1..(n + 1) /\ i # n + 1
  BY <1>1
<1>6. n + 1 \in 1..(n + 1)
  BY <1>1
<1>7. Range(a) = Range(s) \cup {t}
  BY <1>1, <1>2, <1>3, <1>4, <1>5, <1>6 DEF Range
<1>8. IsInjective(s) /\ t \notin Range(s) => IsInjective(a)
  BY <1>1, <1>2, <1>3, <1>4 DEF Range, IsInjective
<1> QED
  BY <1>2, <1>7, <1>8 DEF a

LEMMA FrontOnce ==
  ASSUME NEW S, NEW s \in Seq(S), s # <<>>
  PROVE  /\ Front(s) \in Seq(S) /\ Len(Front(s)) = Len(s) - 1
         /\ \A i \in 1..(Len(s) - 1) : Front(s)[i] = s[i]
         /\ Last(s) \in Range(s) /\ Range(s) = Range(Front(s)) \cup {Last(s)}
         /\ IsInjective(s) =>
              IsInjective(Front(s)) /\ Range(Front(s)) = Range(s) \ {Last(s)}
<1> DEFINE f == Front(s)
           n == Len(s)
<1>1. n \in Nat \ {0} /\ DOMAIN s = 1..n /\ \A i \in 1..n : s[i] \in S
  BY LenProperties, EmptySeq, ElementOfSeq
<1>2. f \in Seq(S) /\ Len(f) = n - 1 /\ \A i \in 1..(n - 1) : f[i] = s[i]
  <2>1. \A i \in 1..(n - 1) : s[i] \in S
    BY <1>1
  <2>2. /\ SubSeq(s, 1, n - 1) \in Seq(S)
        /\ Len(SubSeq(s, 1, n - 1)) = IF 1 <= n - 1 THEN n - 1 - 1 + 1 ELSE 0
        /\ \A i \in 1..(n - 1 - 1 + 1) : SubSeq(s, 1, n - 1)[i] = s[1 + i - 1]
    BY <1>1, <2>1, SubSeqProperties
  <2>3. f = SubSeq(s, 1, n - 1)
    BY DEF Front
  <2> HIDE DEF f, n
  <2> QED
    BY <1>1, <2>2, <2>3
<1>3. DOMAIN f = 1..(n - 1)
  BY <1>2, LenProperties
<1>4. Last(s) = s[n]
  BY DEF Last
<1> HIDE DEF f, n
<1>5. \A i \in 1..n : i \in 1..(n - 1) \/ i = n
  BY <1>1
<1>6. \A i \in 1..(n - 1) : i \in 1..n /\ i # n
  BY <1>1
<1>7. n \in 1..n
  BY <1>1
<1>8. Last(s) \in Range(s) /\ Range(s) = Range(f) \cup {Last(s)}
  BY <1>1, <1>2, <1>3, <1>4, <1>5, <1>6, <1>7 DEF Range
<1>9. ASSUME IsInjective(s) PROVE IsInjective(f) /\ Last(s) \notin Range(f)
  BY <1>1, <1>2, <1>3, <1>4, <1>6, <1>7, <1>9 DEF Range, IsInjective
<1> QED
  BY <1>2, <1>8, <1>9 DEF f, n

LEMMA WithoutOnce ==
  ASSUME NEW S, NEW s \in Seq(S), NEW t, IsInjective(s)
  PROVE  /\ Without(s, t) \in Seq(S) /\ IsInjective(Without(s, t))
         /\ Range(Without(s, t)) = Range(s) \ {t}
<1>1. CASE t \notin Range(s)
  BY <1>1 DEF Without
<1>2. CASE t \in Range(s)
  <2> DEFINE n == Len(s)
             k == CHOOSE i \in DOMAIN s : s[i] = t
             a == SubSeq(s, 1, k - 1)
             b == SubSeq(s, k + 1, n)
             w == a \o b
  <2>1. n \in Nat /\ DOMAIN s = 1..n /\ \A i \in 1..n : s[i] \in S
    BY LenProperties, ElementOfSeq
  <2>2. k \in 1..n /\ s[k] = t
    BY <1>2, <2>1 DEF Range
  <2>3. Without(s, t) = w
    BY <1>2 DEF Without, RemoveAt
  <2> HIDE DEF n, k
  <2>4. a \in Seq(S) /\ Len(a) = k - 1 /\ \A i \in 1..(k - 1) : a[i] = s[i]
    <3>1. \A i \in 1..(k - 1) : s[i] \in S
      BY <2>1, <2>2
    <3>2. /\ a \in Seq(S) /\ Len(a) = IF 1 <= k - 1 THEN k - 1 - 1 + 1 ELSE 0
          /\ \A i \in 1..(k - 1 - 1 + 1) : a[i] = s[1 + i - 1]
      BY <2>1, <2>2, <3>1, SubSeqProperties
    <3> HIDE DEF a
    <3> QED
      BY <2>1, <2>2, <3>2
  <2>5. b \in Seq(S) /\ Len(b) = n - k /\ \A i \in 1..(n - k) : b[i] = s[k + i]
    <3>1. \A i \in (k + 1)..n : s[i] \in S
      BY <2>1, <2>2
    <3>2. /\ b \in Seq(S) /\ Len(b) = IF k + 1 <= n THEN n - (k + 1) + 1 ELSE 0
          /\ \A i \in 1..(n - (k + 1) + 1) : b[i] = s[k + 1 + i - 1]
      BY <2>1, <2>2, <3>1, SubSeqProperties
    <3>3. \A i \in 1..(n - k) : i \in 1..(n - (k + 1) + 1) /\ k + 1 + i - 1 = k + i
      BY <2>1, <2>2
    <3> HIDE DEF b
    <3> QED
      BY <2>1, <2>2, <3>2, <3>3
  <2> HIDE DEF a, b
  <2>6. /\ w \in Seq(S) /\ Len(w) = n - 1
        /\ \A i \in 1..(n - 1) : w[i] = IF i < k THEN s[i] ELSE s[i + 1]
    <3>1. /\ w \in Seq(S) /\ Len(w) = Len(a) + Len(b)
          /\ \A i \in 1..(Len(a) + Len(b)) : w[i] = IF i <= Len(a) THEN a[i] ELSE b[i - Len(a)]
      BY <2>4, <2>5, ConcatProperties
    <3> HIDE DEF w
    <3>2. ASSUME NEW i \in 1..(n - 1) PROVE w[i] = IF i < k THEN s[i] ELSE s[i + 1]
      <4>1. i \in 1..(Len(a) + Len(b))
        BY <2>1, <2>2, <2>4, <2>5
      <4>2. CASE i < k
        <5>1. i <= Len(a) /\ i \in 1..(k - 1)
          BY <2>1, <2>2, <2>4, <4>2
        <5> QED
          BY <2>4, <3>1, <4>1, <4>2, <5>1
      <4>3. CASE ~(i < k)
        <5>1. ~(i <= Len(a)) /\ i - Len(a) \in 1..(n - k) /\ k + (i - Len(a)) = i + 1
          BY <2>1, <2>2, <2>4, <4>3
        <5> QED
          BY <2>5, <3>1, <4>1, <4>3, <5>1
      <4> QED
        BY <4>2, <4>3
    <3> QED
      BY <2>1, <2>2, <2>4, <2>5, <3>1, <3>2
  <2>7. DOMAIN w = 1..(n - 1)
    BY <2>6, LenProperties
  <2> HIDE DEF w
  <2> DEFINE at(i) == IF i < k THEN i ELSE i + 1
  <2>8. \A i \in 1..(n - 1) : at(i) \in 1..n /\ at(i) # k /\ w[i] = s[at(i)]
    BY <2>1, <2>2, <2>6
  <2>9. \A i, j \in 1..(n - 1) : at(i) = at(j) => i = j
    BY <2>1, <2>2
  <2>10. \A j \in 1..n : j # k => \E i \in 1..(n - 1) : at(i) = j
    <3>1. SUFFICES ASSUME NEW j \in 1..n, j # k PROVE \E i \in 1..(n - 1) : at(i) = j
      OBVIOUS
    <3>2. CASE j < k
      <4>1. j \in 1..(n - 1) /\ at(j) = j
        BY <2>1, <2>2, <3>2
      <4> HIDE DEF at
      <4> QED
        BY <4>1
    <3>3. CASE ~(j < k)
      <4>1. j - 1 \in 1..(n - 1) /\ at(j - 1) = j
        BY <2>1, <2>2, <3>1, <3>3
      <4> HIDE DEF at
      <4> QED
        BY <4>1
    <3> QED
      BY <3>2, <3>3
  <2> HIDE DEF at
  <2>11. \A i, j \in 1..n : s[i] = s[j] => i = j
    BY <2>1 DEF IsInjective
  <2>12. IsInjective(w)
    BY <2>7, <2>8, <2>9, <2>11 DEF IsInjective
  <2>13. Range(w) = Range(s) \ {t}
    <3>1. Range(w) = {w[i] : i \in 1..(n - 1)} /\ Range(s) = {s[i] : i \in 1..n}
      BY <2>1, <2>7 DEF Range
    <3>2. \A x \in Range(w) : x \in Range(s) /\ x # t
      BY <2>2, <2>8, <2>11, <3>1
    <3>3. \A x \in Range(s) : x # t => x \in Range(w)
      BY <2>2, <2>8, <2>10, <3>1
    <3> QED
      BY <3>2, <3>3
  <2> QED
    BY <2>3, <2>6, <2>12, <2>13
<1> QED
  BY <1>1, <1>2

(* What is left of a sequence, and a sequence read backwards.              *)
LEMMA TailIsSeq ==
  ASSUME NEW S, NEW s \in Seq(S), s # <<>>
  PROVE  Head(s) \in S /\ Tail(s) \in Seq(S)
BY HeadTailProperties

LEMMA BackwardsIsSeq ==
  ASSUME NEW S, NEW s \in Seq(S)
  PROVE  Backwards(s) \in Seq(S)
<1>1. Len(s) \in Nat /\ \A i \in 1..Len(s) : s[i] \in S
  BY LenProperties, ElementOfSeq
<1>2. \A i \in 1..Len(s) : Len(s) - i + 1 \in 1..Len(s)
  BY <1>1
<1>3. [i \in 1..Len(s) |-> s[Len(s) - i + 1]] \in Seq(S)
  BY <1>1, <1>2
<1> QED
  BY <1>3 DEF Backwards, Reverse

(* So is what the block records hold above a height: the recursion ends,   *)
(* and each of its values is a sequence of transactions.                   *)
Upto(f, bl, n) ==
  f = [h \in (MaxHeight + 1 - n)..(MaxHeight + 1) |->
         IF h = MaxHeight + 1 THEN <<>> ELSE f[h + 1] \o Backwards(bl[h])]

LEMMA UptoExists ==
  ASSUME NEW bl, NEW n \in 0..(MaxHeight + 1)
  PROVE  \E f : Upto(f, bl, n)
<1> DEFINE Bad == {k \in 0..(MaxHeight + 1) : ~\E f : Upto(f, bl, k)}
<1>m. MaxHeight \in Nat
  BY TXAssumption
<1>1. SUFFICES ASSUME Bad # {} PROVE FALSE
  OBVIOUS
<1>2. PICK k \in Bad : \A j \in Bad : k <= j
  <2>1. Bad \subseteq Nat
    BY <1>m
  <2> HIDE DEF Bad
  <2> QED
    BY <1>1, <2>1, LeastNumber
<1>3. k \in 0..(MaxHeight + 1) /\ ~\E f : Upto(f, bl, k)
  OBVIOUS
<1>4. CASE k = 0
  <2> DEFINE f == [h \in (MaxHeight + 1)..(MaxHeight + 1) |-> <<>>]
  <2>1. f = [h \in (MaxHeight + 1 - 0)..(MaxHeight + 1) |->
               IF h = MaxHeight + 1 THEN <<>> ELSE f[h + 1] \o Backwards(bl[h])]
    BY <1>m
  <2> HIDE DEF f
  <2>2. Upto(f, bl, 0)
    BY <2>1 DEF Upto
  <2> QED
    BY <1>3, <1>4, <2>2
<1>5. CASE k # 0
  <2>1. k - 1 \in 0..(MaxHeight + 1) /\ ~(k <= k - 1)
    BY <1>m, <1>3, <1>5
  <2>2. k - 1 \notin Bad
    <3> HIDE DEF Bad
    <3> QED
      BY <1>2, <2>1
  <2>3. PICK f : Upto(f, bl, k - 1)
    BY <2>1, <2>2
  <2> DEFINE low == MaxHeight + 1 - k
             top == MaxHeight + 1
             g == [h \in low..top |->
                     IF h = low THEN f[h + 1] \o Backwards(bl[h]) ELSE f[h]]
             value(h) == IF h = top THEN <<>> ELSE g[h + 1] \o Backwards(bl[h])
  <2>4. \A h \in (low + 1)..top :
          f[h] = IF h = top THEN <<>> ELSE f[h + 1] \o Backwards(bl[h])
    <3>1. MaxHeight + 1 - (k - 1) = low + 1
      BY <1>m, <1>3
    <3> QED
      BY <2>3, <3>1 DEF Upto
  <2>5. ASSUME NEW h \in low..top PROVE g[h] = value(h)
    <3>1. CASE h = low
      <4>1. h # top /\ h + 1 \in low..top /\ h + 1 # low
        BY <1>m, <1>3, <1>5, <3>1
      <4>2. g[h + 1] = f[h + 1] /\ g[h] = f[h + 1] \o Backwards(bl[h])
        BY <3>1, <4>1
      <4> HIDE DEF g
      <4> QED
        BY <4>1, <4>2
    <3>2. CASE h # low /\ h = top
      <4>1. h \in (low + 1)..top
        BY <1>m, <1>3, <3>2
      <4>2. g[h] = f[h] /\ f[h] = <<>>
        BY <2>4, <3>2, <4>1
      <4> HIDE DEF g
      <4> QED
        BY <3>2, <4>2
    <3>3. CASE h # low /\ h # top
      <4>1. h \in (low + 1)..top /\ h + 1 \in low..top /\ h + 1 # low
        BY <1>m, <1>3, <3>3
      <4>2. g[h] = f[h] /\ f[h] = f[h + 1] \o Backwards(bl[h]) /\ g[h + 1] = f[h + 1]
        BY <2>4, <3>3, <4>1
      <4> HIDE DEF g
      <4> QED
        BY <3>3, <4>2
    <3> QED
      BY <3>1, <3>2, <3>3
  <2>6. g = [h \in low..top |-> g[h]]
    OBVIOUS
  <2>7. g = [h \in low..top |-> value(h)]
    <3> HIDE DEF g
    <3> QED
      BY <2>5, <2>6
  <2>8. Upto(g, bl, k)
    <3> HIDE DEF g
    <3> QED
      BY <2>7 DEF Upto
  <2> QED
    BY <1>3, <2>8
<1> QED
  BY <1>4, <1>5

(* For any block records: module WalletDB has it for those on disk.        *)
Stacked(bl) ==
  CHOOSE f : f = [h \in 0..(MaxHeight + 1) |->
                    IF h = MaxHeight + 1 THEN <<>> ELSE f[h + 1] \o Backwards(bl[h])]

LEMMA StackedIs ==
  ASSUME NEW bl, bl \in [Heights -> Seq(Txs)]
  PROVE  /\ Stacked(bl)[MaxHeight + 1] = <<>>
         /\ \A h \in Heights : Stacked(bl)[h] = Stacked(bl)[h + 1] \o Backwards(bl[h])
         /\ \A h \in 0..(MaxHeight + 1) : Stacked(bl)[h] \in Seq(Txs)
<1>m. MaxHeight \in Nat
  BY TXAssumption
<1> DEFINE A == Stacked(bl)
           top == MaxHeight + 1
<1>1. A = [k \in 0..top |-> IF k = top THEN <<>> ELSE A[k + 1] \o Backwards(bl[k])]
  <2>1. top \in 0..(MaxHeight + 1) /\ MaxHeight + 1 - top = 0
    BY <1>m
  <2>2. PICK f : Upto(f, bl, top)
    BY <2>1, UptoExists
  <2>3. f = [k \in 0..top |-> IF k = top THEN <<>> ELSE f[k + 1] \o Backwards(bl[k])]
    BY <2>1, <2>2 DEF Upto
  <2> QED
    BY <2>3, Zenon DEF Stacked
<1> HIDE DEF A
<1> DEFINE Bad == {n \in 0..top : A[top - n] \notin Seq(Txs)}
<1>2. ASSUME Bad # {} PROVE FALSE
  <2>1. PICK n \in Bad : \A j \in Bad : n <= j
    <3>1. Bad \subseteq Nat
      BY <1>m
    <3> HIDE DEF Bad
    <3> QED
      BY <1>2, <3>1, LeastNumber
  <2>2. n \in 0..top /\ A[top - n] \notin Seq(Txs)
    OBVIOUS
  <2>3. CASE n = 0
    <3>1. top - n = top /\ top \in 0..top
      BY <1>m, <2>3
    <3>2. A[top] = <<>>
      <4> DEFINE value(k) == IF k = top THEN <<>> ELSE A[k + 1] \o Backwards(bl[k])
      <4>1. value(top) = <<>>
        OBVIOUS
      <4>2. A = [k \in 0..top |-> value(k)]
        BY <1>1
      <4> HIDE DEF value
      <4> QED
        BY <3>1, <4>1, <4>2
    <3> QED
      BY <2>2, <3>1, <3>2, EmptySeq
  <2>4. CASE n # 0
    <3> DEFINE k == top - n
    <3>1. k \in 0..top /\ k # top /\ k \in Heights /\ n - 1 \in 0..top
          /\ top - (n - 1) = k + 1 /\ ~(n <= n - 1)
      BY <1>m, <2>2, <2>4 DEF Heights
    <3>2. n - 1 \notin Bad
      <4> HIDE DEF Bad
      <4> QED
        BY <2>1, <3>1
    <3>3. A[k + 1] \in Seq(Txs)
      <4>1. A[top - (n - 1)] \in Seq(Txs)
        BY <3>1, <3>2
      <4> QED
        BY <3>1, <4>1
    <3>4. Backwards(bl[k]) \in Seq(Txs)
      BY <3>1, BackwardsIsSeq
    <3>5. A[k] = A[k + 1] \o Backwards(bl[k])
      <4> HIDE DEF k
      <4> QED
        BY <1>1, <3>1
    <3>6. A[k] \in Seq(Txs)
      <4> HIDE DEF k
      <4> QED
        BY <3>3, <3>4, <3>5, ConcatProperties
    <3> QED
      BY <2>2, <3>6
  <2> QED
    BY <2>3, <2>4
<1>3. ASSUME NEW h \in 0..top PROVE A[h] \in Seq(Txs)
  <2>1. top - h \in 0..top /\ top - (top - h) = h
    BY <1>m
  <2>2. top - h \notin Bad
    BY <1>2
  <2>3. A[top - (top - h)] \in Seq(Txs)
    BY <2>1, <2>2
  <2> QED
    BY <2>1, <2>3
<1>4. A[top] = <<>>
  <2> DEFINE value(k) == IF k = top THEN <<>> ELSE A[k + 1] \o Backwards(bl[k])
  <2>1. value(top) = <<>> /\ top \in 0..top
    BY <1>m
  <2>2. A = [k \in 0..top |-> value(k)]
    BY <1>1
  <2> HIDE DEF value
  <2> QED
    BY <2>1, <2>2
<1>5. ASSUME NEW h \in Heights PROVE A[h] = A[h + 1] \o Backwards(bl[h])
  <2>1. h \in 0..top /\ h # top
    BY <1>m DEF Heights
  <2> QED
    BY <1>1, <2>1
<1> QED
  BY <1>3, <1>4, <1>5 DEF A

LEMMA AboveTodo ==
  ASSUME blocks \in [Heights -> Seq(Txs)], NEW h \in 0..(MaxHeight + 1)
  PROVE  Above[h] \in Seq(Txs)
<1>1. Above = Stacked(blocks)
  BY DEF Above, Stacked
<1> QED
  BY <1>1, StackedIs

(* The greatest of some numbers below a bound is one of them.              *)
LEMMA MaxIsIn ==
  ASSUME NEW n \in Nat, NEW S \in SUBSET (0..n), S # {}
  PROVE  Max(S) \in S
<1> DEFINE D == {n - x : x \in S}
<1>1. D \subseteq Nat /\ D # {}
  <2>1. \A x \in S : x \in 0..n /\ n - x \in Nat
    OBVIOUS
  <2> QED
    BY <2>1
<1>2. PICK d \in D : \A e \in D : d <= e
  <2> HIDE DEF D
  <2> QED
    BY <1>1, LeastNumber
<1>3. PICK x \in S : d = n - x
  OBVIOUS
<1>4. \A y \in S : x >= y
  BY <1>2, <1>3
<1> QED
  BY <1>3, <1>4 DEF Max

-----------------------------------------------------------------------------
(* Facts about the constants.                                              *)
LEMMA Sentinels ==
  /\ None \notin Txs /\ None \notin Heights /\ None # Unconfirmed /\ Unconfirmed \notin Heights
  /\ None \notin Credit
<1>1. MaxHeight \in Nat /\ None \notin -1..MaxHeight
      /\ None \notin [height : -1..MaxHeight, spent : BOOLEAN]
  BY TXAssumption
<1>2. Heights \cup {Unconfirmed} = -1..MaxHeight /\ Unconfirmed \notin Heights
  BY <1>1 DEF Heights, Unconfirmed
<1>3. None \notin Txs
  BY TXAssumption
<1> QED
  BY <1>1, <1>2, <1>3 DEF Credit

(* No transaction spends its own outputs.                                  *)
LEMMA NotOwn ==
  ASSUME NEW t \in Txs
  PROVE  /\ \A o \in In(t) : o \in Outs /\ Creator[o] # t /\ o \notin OutsOf(t) /\ o \notin MyOuts(t)
         /\ \A o \in OutsOf(t) : o \in Outs /\ Creator[o] = t
         /\ \A o \in MyOuts(t) : o \in Outs /\ Creator[o] = t /\ o \in Mine
         /\ \A o \in Mine : o \notin MyOuts(t) => Creator[o] # t
<1>1. Inputs[t] \in Seq(Outs) /\ In(t) \cap OutsOf(t) = {} /\ Mine \subseteq Outs
  BY TXAssumption
<1>2. \A i \in DOMAIN Inputs[t] : Inputs[t][i] \in Outs
  BY <1>1, ElementOfSeq, LenProperties
<1>3. In(t) \subseteq Outs
  BY <1>2 DEF In, Range
<1> QED
  BY <1>1, <1>3 DEF OutsOf, MyOuts

LEMMA FiniteParts ==
  ASSUME NEW t \in Txs
  PROVE  /\ IsFiniteSet(In(t)) /\ In(t) \in SUBSET Outs
         /\ IsFiniteSet(MyOuts(t)) /\ MyOuts(t) \in SUBSET Outs
<1>1. Inputs[t] \in Seq(Outs) /\ IsFiniteSet(OutsOf(t))
  BY TXAssumption
<1>2. In(t) = {Inputs[t][i] : i \in 1..Len(Inputs[t])} /\ Len(Inputs[t]) \in Nat
  BY <1>1, LenProperties DEF In, Range
<1>3. IsFiniteSet(1..Len(Inputs[t]))
  BY <1>2, FS_Interval
<1>4. IsFiniteSet(In(t))
  <2> DEFINE f == [i \in 1..Len(Inputs[t]) |-> Inputs[t][i]]
  <2>1. f \in Surjection(1..Len(Inputs[t]), In(t))
    BY <1>2 DEF Surjection
  <2> HIDE DEF f
  <2> QED
    BY <1>3, <2>1, FS_Surjection
<1>5. MyOuts(t) \subseteq OutsOf(t) /\ OutsOf(t) \subseteq Outs
  BY DEF MyOuts, OutsOf
<1>6. IsFiniteSet(MyOuts(t))
  BY <1>1, <1>5, FS_Subset
<1>7. In(t) \in SUBSET Outs
  BY NotOwn
<1> QED
  BY <1>4, <1>5, <1>6, <1>7

(* What an edit leaves of a credit.                                        *)
LEMMA CreditEdits ==
  ASSUME NEW c \in Credit, NEW h \in Heights \cup {Unconfirmed}
  PROVE  /\ [c EXCEPT !.height = h] \in Credit /\ [c EXCEPT !.height = h].spent = c.spent
         /\ [c EXCEPT !.spent = TRUE] \in Credit /\ [c EXCEPT !.spent = TRUE].spent = TRUE
         /\ c.height \in Heights \cup {Unconfirmed} /\ c.height # None
BY Sentinels DEF Credit

(* A balance stays one.                                                    *)
LEMMA BalanceEdits ==
  ASSUME NEW b \in Balance, NEW Put \in SUBSET Outs, NEW Del \in SUBSET Outs,
         IsFiniteSet(Put), IsFiniteSet(Del)
  PROVE  Coins(b, Put, Del) \in Balance /\ Mined(b, Put, Del) \in Balance
<1>1. Total(Put) \in Nat /\ Total(Del) \in Nat /\ Cardinality(Put) \in Nat /\ Cardinality(Del) \in Nat
  BY TotalNat, FS_CardinalityType
<1>2. /\ b.coin \in Int /\ b.unconfirmed \in Int /\ b.confirmed \in Int
      /\ \A c, u \in Int : [b EXCEPT !.coin = c, !.unconfirmed = u] \in Balance
      /\ \A c \in Int : [b EXCEPT !.confirmed = c] \in Balance
  BY DEF Balance
<1> DEFINE c == b.coin + Cardinality(Put) - Cardinality(Del)
           u == b.unconfirmed + Total(Put) - Total(Del)
           v == b.confirmed + Total(Put) - Total(Del)
<1>3. c \in Int /\ u \in Int /\ v \in Int
  <2>1. \A x \in Int, y, z \in Nat : x + y - z \in Int
    OBVIOUS
  <2> QED
    BY <1>1, <1>2, <2>1
<1>4. Coins(b, Put, Del) = [b EXCEPT !.coin = c, !.unconfirmed = u]
  BY DEF Coins
<1>5. Mined(b, Put, Del) = [b EXCEPT !.confirmed = v]
  BY DEF Mined
<1> HIDE DEF c, u, v
<1> QED
  BY <1>2, <1>3, <1>4, <1>5

LEMMA CountEdits ==
  ASSUME NEW b \in Balance
  PROVE  /\ [b EXCEPT !.tx = b.tx + 1] \in Balance /\ [b EXCEPT !.tx = b.tx - 1] \in Balance
         /\ [b EXCEPT !.tx = @ + 1] = [b EXCEPT !.tx = b.tx + 1]
         /\ [b EXCEPT !.tx = @ - 1] = [b EXCEPT !.tx = b.tx - 1]
BY DEF Balance

-----------------------------------------------------------------------------
(* The invariant.  The records: their types, who spends what, when there   *)
(* is a coin, and which block holds which transaction, once.               *)
RecordTypes ==
  /\ rec \in [Txs -> Heights \cup {Unconfirmed, None}]
  /\ credit \in [Outs -> Credit \cup {None}]
  /\ spender \in [Outs -> Txs \cup {None}]
  /\ undo \in [Txs -> [Outs -> Heights \cup {Unconfirmed, None}]]
  /\ rbf \subseteq Replaceable \cup {t \in Txs : \E o \in In(t) : Creator[o] # None}
  /\ blocks \in [Heights -> Seq(Txs)]

Spends ==
  \A o \in Outs :
    /\ spender[o] # None => o \in In(spender[o]) /\ rec[spender[o]] # None
    /\ \A t \in Txs : rec[t] # None /\ o \in In(t) => spender[o] = t
    /\ \A t \in Txs : undo[t][o] # None => spender[o] = t /\ o \in Mine
    /\ credit[o] # None => o \in Mine

KnownOut(o) == Creator[o] # None /\ rec[Creator[o]] # None

CoinAgrees(o) ==
  /\ credit[o] # None <=> KnownOut(o) /\ (spender[o] # None => rec[spender[o]] = Unconfirmed)
  /\ credit[o] # None => (credit[o].spent <=> spender[o] # None)
  /\ spender[o] # None => (undo[spender[o]][o] # None <=> KnownOut(o))

InBlocks ==
  \A h \in Heights :
    IsInjective(blocks[h]) /\ \A t \in Txs : rec[t] = h <=> t \in Range(blocks[h])

Records == RecordTypes /\ Spends /\ (\A o \in Mine : CoinAgrees(o)) /\ InBlocks

recordVars == <<rec, credit, spender, undo, rbf, blocks>>

LEMMA RecordsStay ==
  ASSUME Records, UNCHANGED recordVars
  PROVE  Records'
BY DEF Records, RecordTypes, Spends, CoinAgrees, KnownOut, InBlocks, recordVars

(* What erase does to the records, once nothing spends the transaction.    *)
(* When it is gone already nothing is left to erase.                       *)
LEMMA EraseRecords ==
  ASSUME Records, NEW t \in Txs, NEW h \in Heights \cup {Unconfirmed},
         rec[t] \in {h, None}, rec[t] = None => \A o \in In(t) : spender[o] = None,
         \A o \in OutsOf(t) : spender[o] = None,
         credit' = Restored(t),
         spender' = [o \in Outs |-> IF o \in In(t) THEN None ELSE spender[o]],
         undo' = [undo EXCEPT ![t] = [o \in Outs |-> None]],
         rbf' = rbf \ {t},
         rec' = [rec EXCEPT ![t] = None],
         RemoveBlockSlow(t, h)
  PROVE  Records'
<1> USE Sentinels
<1>1. RecordTypes /\ Spends /\ (\A o \in Mine : CoinAgrees(o)) /\ InBlocks
  BY DEF Records
<1>2. Mine \subseteq Outs
  BY TXAssumption
<1>3. /\ \A u \in Txs : u # t => rec'[u] = rec[u]
      /\ rec'[t] = None
      /\ rec' \in [Txs -> Heights \cup {Unconfirmed, None}]
  BY <1>1 DEF RecordTypes
<1>4. /\ \A o \in In(t) : o \in Outs => spender'[o] = None
      /\ \A o \in Outs : o \notin In(t) => spender'[o] = spender[o]
      /\ spender' \in [Outs -> Txs \cup {None}]
  BY <1>1 DEF RecordTypes
<1>5. /\ \A u \in Txs, o \in Outs : u # t => undo'[u][o] = undo[u][o]
      /\ \A o \in Outs : undo'[t][o] = None
      /\ undo' \in [Txs -> [Outs -> Heights \cup {Unconfirmed, None}]]
  BY <1>1 DEF RecordTypes
<1>6. \A o \in HasUndo(t) : o \in In(t) /\ undo[t][o] \in Heights \cup {Unconfirmed}
                            /\ o \in Mine /\ spender[o] = t
  BY <1>1, NotOwn DEF HasUndo, RecordTypes, Spends
<1>7. /\ \A o \in HasUndo(t) : o \in Outs =>
           credit'[o] = [height |-> undo[t][o], spent |-> FALSE]
      /\ \A o \in MyOuts(t) : o \in Outs /\ o \notin HasUndo(t) => credit'[o] = None
      /\ \A o \in Outs : o \notin HasUndo(t) /\ o \notin MyOuts(t) => credit'[o] = credit[o]
      /\ credit' \in [Outs -> Credit \cup {None}]
  <2>1. \A o \in HasUndo(t) : [height |-> undo[t][o], spent |-> FALSE] \in Credit
    BY <1>6 DEF Credit
  <2> QED
    BY <1>1, <2>1 DEF Restored, RecordTypes
<1>8. blocks' \in [Heights -> Seq(Txs)] /\ InBlocks'
  <2>1. CASE h = Unconfirmed
    <3>1. blocks' = blocks
      BY <2>1 DEF RemoveBlockSlow
    <3>2. \A k \in Heights : rec'[t] # k /\ rec[t] # k
      BY <1>3, <2>1
    <3> QED
      BY <1>1, <1>3, <3>1, <3>2 DEF InBlocks, RecordTypes
  <2>2. CASE h # Unconfirmed
    <3>1. h \in Heights /\ blocks \in [Heights -> Seq(Txs)]
      BY <1>1, <2>2 DEF RecordTypes
    <3>2. blocks' = [blocks EXCEPT ![h] = Without(@, t)]
      BY <2>2 DEF RemoveBlockSlow
    <3>3. blocks[h] \in Seq(Txs) /\ IsInjective(blocks[h])
      BY <1>1, <3>1 DEF InBlocks
    <3>4. /\ Without(blocks[h], t) \in Seq(Txs) /\ IsInjective(Without(blocks[h], t))
          /\ Range(Without(blocks[h], t)) = Range(blocks[h]) \ {t}
      BY <3>3, WithoutOnce
    <3>5. /\ blocks' \in [Heights -> Seq(Txs)] /\ blocks'[h] = Without(blocks[h], t)
          /\ \A k \in Heights : k # h => blocks'[k] = blocks[k]
      BY <3>1, <3>2, <3>4
    <3>6. \A k \in Heights, u \in Txs : rec'[u] = k <=> u \in Range(blocks'[k])
      BY <1>1, <1>3, <3>4, <3>5 DEF InBlocks
    <3>7. \A k \in Heights : IsInjective(blocks'[k])
      BY <1>1, <3>4, <3>5 DEF InBlocks
    <3> QED
      BY <3>5, <3>6, <3>7 DEF InBlocks
  <2> QED
    BY <2>1, <2>2
<1>9. RecordTypes'
  <2>1. rbf' \subseteq Replaceable \cup {u \in Txs : \E o \in In(u) : Creator[o] # None}
    BY <1>1 DEF RecordTypes
  <2> QED
    BY <1>3, <1>4, <1>5, <1>7, <1>8, <2>1 DEF RecordTypes
<1>10. ASSUME NEW o \in Outs
       PROVE  /\ spender'[o] # None => o \in In(spender'[o]) /\ rec'[spender'[o]] # None
              /\ \A u \in Txs : rec'[u] # None /\ o \in In(u) => spender'[o] = u
              /\ \A u \in Txs : undo'[u][o] # None => spender'[o] = u /\ o \in Mine
              /\ credit'[o] # None => o \in Mine
  <2>1. spender[o] # None => o \in In(spender[o]) /\ rec[spender[o]] # None /\ spender[o] \in Txs
    BY <1>1 DEF Spends, RecordTypes
  <2>2. \A u \in Txs : rec[u] # None /\ o \in In(u) => spender[o] = u
    BY <1>1 DEF Spends
  <2>3. \A u \in Txs : undo[u][o] # None => spender[o] = u /\ o \in Mine
    BY <1>1 DEF Spends
  <2>4. credit'[o] # None => o \in Mine
    BY <1>1, <1>6, <1>7 DEF Spends
  <2>5. CASE o \in In(t)
    <3>1. spender'[o] = None /\ (rec[t] = None => spender[o] = None) /\ (rec[t] # None => spender[o] = t)
      BY <1>4, <2>2, <2>5
    <3>2. \A u \in Txs : u # t => ~(rec[u] # None /\ o \in In(u)) /\ undo[u][o] = None
      BY <2>2, <2>3, <3>1
    <3> QED
      BY <1>3, <1>5, <2>4, <3>1, <3>2
  <2>6. CASE o \notin In(t)
    <3>1. spender'[o] = spender[o] /\ spender[o] # t
      BY <1>4, <2>1, <2>6
    <3> QED
      BY <1>3, <1>5, <2>1, <2>2, <2>3, <2>4, <2>6, <3>1
  <2> QED
    BY <2>5, <2>6
<1>11. ASSUME NEW o \in Mine PROVE CoinAgrees(o)'
  <2>1. o \in Outs /\ CoinAgrees(o) /\ Creator[o] \in Txs \cup {None}
    BY <1>1, <1>2, TXAssumption
  <2>2. spender[o] # None => o \in In(spender[o]) /\ rec[spender[o]] # None /\ spender[o] \in Txs
    BY <1>1, <2>1 DEF Spends, RecordTypes
  <2>3. CASE o \in In(t)
    <3>1. spender'[o] = None /\ Creator[o] # t /\ o \notin MyOuts(t)
      BY <1>4, <2>1, <2>3, NotOwn
    <3>2. KnownOut(o)' <=> KnownOut(o)
      BY <1>3, <2>1, <3>1 DEF KnownOut
    <3>3. credit'[o] # None <=> KnownOut(o)
      <4>1. CASE o \in HasUndo(t)
        <5>1. KnownOut(o)
          <6>1. spender[o] = t /\ undo[t][o] # None /\ t # None
            BY <1>6, <4>1
          <6> QED
            BY <2>1, <6>1 DEF CoinAgrees
        <5>2. credit'[o] # None
          <6>1. credit'[o] = [height |-> undo[t][o], spent |-> FALSE]
                /\ undo[t][o] \in Heights \cup {Unconfirmed}
            BY <1>6, <1>7, <2>1, <4>1
          <6>2. credit'[o] \in Credit
            BY <6>1 DEF Credit
          <6> QED
            BY <6>2
        <5> QED
          BY <5>1, <5>2
      <4>2. CASE o \notin HasUndo(t)
        <5>1. credit'[o] = credit[o] /\ undo[t][o] = None
          BY <1>7, <2>1, <2>3, <3>1, <4>2 DEF HasUndo
        <5>2. rec[t] = None => spender[o] = None
          BY <2>3
        <5>3. rec[t] # None => spender[o] = t
          BY <1>1, <2>1, <2>3 DEF Spends
        <5> QED
          BY <2>1, <5>1, <5>2, <5>3 DEF CoinAgrees
      <4> QED
        BY <4>1, <4>2
    <3>4. credit'[o] # None => credit'[o].spent = FALSE
      <4>1. CASE o \in HasUndo(t)
        BY <1>7, <2>1, <4>1
      <4>2. CASE o \notin HasUndo(t)
        <5>1. credit'[o] = credit[o] /\ undo[t][o] = None
          BY <1>7, <2>1, <2>3, <3>1, <4>2 DEF HasUndo
        <5>2. credit[o] # None => spender[o] = None
          BY <1>1, <2>1, <2>3, <5>1 DEF Spends, CoinAgrees
        <5>3. credit[o] # None => credit[o] \in Credit
          BY <1>1, <2>1 DEF RecordTypes
        <5> QED
          BY <2>1, <5>1, <5>2, <5>3 DEF CoinAgrees, Credit
      <4> QED
        BY <4>1, <4>2
    <3> QED
      BY <3>1, <3>2, <3>3, <3>4 DEF CoinAgrees
  <2>4. CASE o \in MyOuts(t)
    <3>1. o \notin In(t) /\ Creator[o] = t /\ spender[o] = None /\ o \notin HasUndo(t)
      BY <2>4, NotOwn DEF MyOuts, HasUndo
    <3>2. spender'[o] = None /\ credit'[o] = None /\ ~KnownOut(o)'
      BY <1>3, <1>4, <1>7, <2>1, <2>4, <3>1 DEF KnownOut
    <3> QED
      BY <3>2 DEF CoinAgrees
  <2>5. CASE o \notin In(t) /\ o \notin MyOuts(t)
    <3>1. spender'[o] = spender[o] /\ spender[o] # t /\ Creator[o] # t /\ credit'[o] = credit[o]
      BY <1>4, <1>6, <1>7, <2>1, <2>2, <2>5, NotOwn
    <3>2. KnownOut(o)' <=> KnownOut(o)
      BY <1>3, <2>1, <3>1 DEF KnownOut
    <3>3. spender[o] # None =>
            rec'[spender[o]] = rec[spender[o]] /\ undo'[spender[o]][o] = undo[spender[o]][o]
      BY <1>3, <1>5, <2>1, <2>2, <3>1
    <3> QED
      BY <2>1, <3>1, <3>2, <3>3 DEF CoinAgrees
  <2> QED
    BY <2>3, <2>4, <2>5
<1>12. Spends'
  BY <1>10 DEF Spends
<1> QED
  BY <1>8, <1>9, <1>11, <1>12 DEF Records

(* What an insertion writes, when no other transaction spends its inputs.  *)
LEMMA InsertRecords ==
  ASSUME Records, InsertTX, job.tx \in Txs, job.height \in Heights \cup {Unconfirmed},
         \A o \in In(job.tx) : spender[o] \in {None, job.tx}
  PROVE  Records'
<1> USE Sentinels
<1> DEFINE t == job.tx
           h == job.height
           spent == Spendable(t)
           resolved == Resolved(t)
           new == MyOuts(t) \ resolved
           pending == {o \in resolved : rec[spender[o]] = Unconfirmed}
<1>1. RecordTypes /\ Spends /\ (\A o \in Mine : CoinAgrees(o)) /\ InBlocks
  BY DEF Records
<1>2. Mine \subseteq Outs /\ t \in Txs /\ h \in Heights \cup {Unconfirmed} /\ rec[t] = None /\ h # None
  BY TXAssumption DEF InsertTX, Inserting
<1>3. /\ rec' = [rec EXCEPT ![t] = h]
      /\ credit' = [o \in Outs |->
           IF o \in spent
           THEN IF h = Unconfirmed THEN [credit[o] EXCEPT !.spent = TRUE] ELSE None
           ELSE IF o \in new THEN [height |-> h, spent |-> FALSE]
           ELSE IF o \in pending THEN [height |-> h, spent |-> TRUE]
           ELSE credit[o]]
      /\ spender' = [o \in Outs |-> IF o \in In(t) THEN t ELSE spender[o]]
      /\ undo' = [u \in Txs |-> [o \in Outs |->
           IF u = t /\ o \in spent THEN credit[o].height
           ELSE IF o \in resolved /\ spender[o] = u THEN h
           ELSE undo[u][o]]]
      /\ h = Unconfirmed => rbf' = rbf /\ blocks' = blocks
      /\ h # Unconfirmed => rbf' = rbf \ {t} /\ AddBlock(t, h)
  BY DEF InsertTX
<1>4. \A o \in In(t) : o \in Outs /\ spender[o] = None /\ Creator[o] # t /\ o \notin MyOuts(t)
  BY <1>1, <1>2, NotOwn DEF Spends
<1>5. \A o \in MyOuts(t) : o \in Outs /\ o \in Mine /\ Creator[o] = t /\ o \notin In(t)
  BY <1>2, <1>4, NotOwn
<1>6. \A o \in MyOuts(t) :
        /\ credit[o] = None
        /\ spender[o] # None => undo[spender[o]][o] = None /\ spender[o] \in Txs /\ spender[o] # t
        /\ o \in resolved <=> spender[o] # None
  <2>1. SUFFICES ASSUME NEW o \in MyOuts(t)
                 PROVE  /\ credit[o] = None
                        /\ spender[o] # None =>
                             undo[spender[o]][o] = None /\ spender[o] \in Txs /\ spender[o] # t
                        /\ o \in resolved <=> spender[o] # None
    OBVIOUS
  <2>2. o \in Outs /\ o \in Mine /\ Creator[o] = t /\ o \notin In(t) /\ ~KnownOut(o)
    BY <1>2, <1>5 DEF KnownOut
  <2>3. credit[o] = None /\ (spender[o] # None => undo[spender[o]][o] = None)
    BY <1>1, <2>2 DEF CoinAgrees
  <2>4. spender[o] # None => spender[o] \in Txs /\ spender[o] # t
    BY <1>1, <2>2 DEF Spends, RecordTypes
  <2> QED
    BY <2>3, <2>4 DEF Resolved
<1>7. \A o \in spent : o \in In(t) /\ o \in Outs /\ credit[o] \in Credit /\ o \in Mine
  BY <1>1, <1>4 DEF Spendable, Credits, RecordTypes, Spends
<1>8. \A o \in resolved : o \in MyOuts(t) /\ o \notin In(t)
  BY <1>5 DEF Resolved
<1>9. \A o \in Outs : o \in In(t) /\ o \notin spent => credit[o] = None
  BY DEF Spendable, Credits
<1> HIDE DEF t, h, spent, resolved
<1>10. /\ \A u \in Txs : u # t => rec'[u] = rec[u]
       /\ rec'[t] = h
       /\ rec' \in [Txs -> Heights \cup {Unconfirmed, None}]
  BY <1>1, <1>2, <1>3 DEF RecordTypes
<1>11. /\ \A o \in In(t) : o \in Outs => spender'[o] = t
       /\ \A o \in Outs : o \notin In(t) => spender'[o] = spender[o]
       /\ spender' \in [Outs -> Txs \cup {None}]
  BY <1>1, <1>2, <1>3 DEF RecordTypes
<1>12. \A o \in spent : credit[o].height \in Heights \cup {Unconfirmed}
                        /\ [credit[o] EXCEPT !.spent = TRUE] \in Credit
                        /\ [credit[o] EXCEPT !.spent = TRUE].spent = TRUE
  BY <1>2, <1>7, CreditEdits
<1>13. undo' \in [Txs -> [Outs -> Heights \cup {Unconfirmed, None}]]
  <2> DEFINE value(u, o) == IF u = t /\ o \in spent THEN credit[o].height
                            ELSE IF o \in resolved /\ spender[o] = u THEN h
                            ELSE undo[u][o]
  <2>1. ASSUME NEW u \in Txs, NEW o \in Outs
        PROVE  value(u, o) \in Heights \cup {Unconfirmed, None}
    <3>1. undo[u][o] \in Heights \cup {Unconfirmed, None}
      BY <1>1 DEF RecordTypes
    <3> QED
      BY <1>2, <1>12, <3>1
  <2>2. undo' = [u \in Txs |-> [o \in Outs |-> value(u, o)]]
    BY <1>3
  <2> HIDE DEF value
  <2> QED
    BY <2>1, <2>2
<1>14. /\ \A o \in spent : undo'[t][o] # None
       /\ \A o \in resolved : spender[o] \in Txs /\ spender[o] # t => undo'[spender[o]][o] # None
       /\ \A u \in Txs, o \in Outs :
            (u = t => o \notin spent) /\ (spender[o] = u => o \notin resolved) =>
               undo'[u][o] = undo[u][o]
  <2>1. \A o \in spent : undo'[t][o] = credit[o].height
    BY <1>2, <1>3, <1>7
  <2>2. \A o \in resolved : spender[o] \in Txs /\ spender[o] # t => undo'[spender[o]][o] = h
    <3>1. SUFFICES ASSUME NEW o \in resolved, NEW u \in Txs, u = spender[o], u # t
                   PROVE  undo'[u][o] = h
      OBVIOUS
    <3>2. o \in Outs
      BY <1>5, <1>8
    <3> QED
      BY <1>3, <3>1, <3>2
  <2>3. \A u \in Txs, o \in Outs :
            (u = t => o \notin spent) /\ (spender[o] = u => o \notin resolved) =>
               undo'[u][o] = undo[u][o]
    BY <1>3
  <2>4. \A o \in spent : undo'[t][o] # None
    BY <1>12, <2>1
  <2>5. \A o \in resolved : spender[o] \in Txs /\ spender[o] # t => undo'[spender[o]][o] # None
    BY <1>2, <2>2
  <2> QED
    BY <2>3, <2>4, <2>5
<1>15. credit' \in [Outs -> Credit \cup {None}]
  <2>1. [height |-> h, spent |-> FALSE] \in Credit /\ [height |-> h, spent |-> TRUE] \in Credit
    BY <1>2 DEF Credit
  <2> HIDE DEF new, pending
  <2> QED
    BY <1>1, <1>3, <1>12, <2>1 DEF RecordTypes
<1>16. /\ \A o \in spent : h = Unconfirmed => credit'[o] # None /\ credit'[o].spent = TRUE
       /\ \A o \in spent : h # Unconfirmed => credit'[o] = None
       /\ \A o \in MyOuts(t) : o \notin resolved => credit'[o] # None /\ credit'[o].spent = FALSE
       /\ \A o \in resolved : rec[spender[o]] = Unconfirmed =>
                                credit'[o] # None /\ credit'[o].spent = TRUE
       /\ \A o \in resolved : rec[spender[o]] # Unconfirmed => credit'[o] = credit[o]
       /\ \A o \in Outs : o \notin spent /\ o \notin MyOuts(t) => credit'[o] = credit[o]
  <2>0. [height |-> h, spent |-> FALSE] # None /\ [height |-> h, spent |-> TRUE] # None
    <3>1. [height |-> h, spent |-> FALSE] \in Credit /\ [height |-> h, spent |-> TRUE] \in Credit
      BY <1>2 DEF Credit
    <3> QED
      BY <3>1
  <2>1. \A o \in spent : h = Unconfirmed => credit'[o] = [credit[o] EXCEPT !.spent = TRUE]
    BY <1>3, <1>7
  <2>2. \A o \in spent : h # Unconfirmed => credit'[o] = None
    BY <1>3, <1>7
  <2>3. \A o \in MyOuts(t) : o \in Outs /\ o \notin spent
    BY <1>5, <1>7
  <2>4. \A o \in MyOuts(t) : o \notin resolved => credit'[o] = [height |-> h, spent |-> FALSE]
    BY <1>3, <2>3
  <2>5. \A o \in resolved : rec[spender[o]] = Unconfirmed => credit'[o] = [height |-> h, spent |-> TRUE]
    BY <1>3, <1>8, <2>3
  <2>6. \A o \in resolved : rec[spender[o]] # Unconfirmed => credit'[o] = credit[o]
    BY <1>3, <1>8, <2>3
  <2>7. \A o \in Outs : o \notin spent /\ o \notin MyOuts(t) => credit'[o] = credit[o]
    BY <1>3, <1>8
  <2>8. \A o \in spent : h = Unconfirmed => credit'[o] # None /\ credit'[o].spent = TRUE
    <3>1. SUFFICES ASSUME NEW o \in spent, h = Unconfirmed
                   PROVE  credit'[o] # None /\ credit'[o].spent = TRUE
      OBVIOUS
    <3>2. /\ credit'[o] = [credit[o] EXCEPT !.spent = TRUE]
          /\ [credit[o] EXCEPT !.spent = TRUE] \in Credit
          /\ [credit[o] EXCEPT !.spent = TRUE].spent = TRUE
      BY <1>12, <2>1, <3>1
    <3>3. credit'[o] \in Credit /\ credit'[o].spent = TRUE
      BY <3>2
    <3> QED
      BY <3>3
  <2>9. \A o \in MyOuts(t) : o \notin resolved => credit'[o] # None /\ credit'[o].spent = FALSE
    BY <2>0, <2>4
  <2>10. \A o \in resolved : rec[spender[o]] = Unconfirmed =>
                                credit'[o] # None /\ credit'[o].spent = TRUE
    BY <2>0, <2>5
  <2> QED
    BY <2>2, <2>6, <2>7, <2>8, <2>9, <2>10
<1> HIDE DEF new, pending
<1>17. blocks' \in [Heights -> Seq(Txs)] /\ InBlocks'
  <2>1. CASE h = Unconfirmed
    <3>1. \A k \in Heights : rec'[t] # k /\ rec[t] # k
      BY <1>2, <1>10, <2>1
    <3> QED
      BY <1>1, <1>3, <1>10, <2>1, <3>1 DEF InBlocks, RecordTypes
  <2>2. CASE h # Unconfirmed
    <3>1. h \in Heights /\ blocks \in [Heights -> Seq(Txs)] /\ blocks' = [blocks EXCEPT ![h] = Append(@, t)]
      BY <1>1, <1>2, <1>3, <2>2 DEF RecordTypes, AddBlock
    <3>2. blocks[h] \in Seq(Txs) /\ IsInjective(blocks[h]) /\ t \notin Range(blocks[h])
      BY <1>1, <1>2, <3>1 DEF InBlocks
    <3>3. /\ Append(blocks[h], t) \in Seq(Txs) /\ IsInjective(Append(blocks[h], t))
          /\ Range(Append(blocks[h], t)) = Range(blocks[h]) \cup {t}
      BY <1>2, <3>2, AppendOnce
    <3>4. /\ blocks' \in [Heights -> Seq(Txs)] /\ blocks'[h] = Append(blocks[h], t)
          /\ \A k \in Heights : k # h => blocks'[k] = blocks[k]
      BY <3>1, <3>3
    <3>5. \A k \in Heights, u \in Txs : rec'[u] = k <=> u \in Range(blocks'[k])
      <4>1. ASSUME NEW k \in Heights, k # h, NEW u \in Txs
            PROVE  rec'[u] = k <=> u \in Range(blocks'[k])
        <5>1. rec'[t] # k /\ rec[t] # k /\ (rec[u] = k <=> u \in Range(blocks[k])) /\ blocks'[k] = blocks[k]
          BY <1>1, <1>2, <1>10, <3>1, <3>3, <3>4, <4>1 DEF InBlocks
        <5> QED
          BY <1>10, <5>1
      <4>2. ASSUME NEW u \in Txs
            PROVE  rec'[u] = h <=> u \in Range(blocks'[h])
        <5>1. rec[u] = h <=> u \in Range(blocks[h])
          BY <1>1, <1>2, <1>10, <3>1, <3>3, <3>4 DEF InBlocks
        <5> QED
          BY <1>1, <1>2, <1>10, <3>1, <3>3, <3>4, <5>1
      <4> QED
        BY <4>1, <4>2
    <3>6. \A k \in Heights : IsInjective(blocks'[k])
      BY <1>1, <3>3, <3>4 DEF InBlocks
    <3> QED
      BY <3>4, <3>5, <3>6 DEF InBlocks
  <2> QED
    BY <2>1, <2>2
<1>18. RecordTypes'
  <2>1. rbf' \subseteq rbf
    BY <1>3
  <2>2. rbf' \subseteq Replaceable \cup {u \in Txs : \E o \in In(u) : Creator[o] # None}
    BY <1>1, <2>1 DEF RecordTypes
  <2> QED
    BY <1>10, <1>11, <1>13, <1>15, <1>17, <2>2 DEF RecordTypes
<1>19. ASSUME NEW o \in Outs
       PROVE  /\ spender'[o] # None => o \in In(spender'[o]) /\ rec'[spender'[o]] # None
              /\ \A u \in Txs : rec'[u] # None /\ o \in In(u) => spender'[o] = u
              /\ \A u \in Txs : undo'[u][o] # None => spender'[o] = u /\ o \in Mine
              /\ credit'[o] # None => o \in Mine
  <2>1. spender[o] # None => o \in In(spender[o]) /\ rec[spender[o]] # None /\ spender[o] \in Txs
    BY <1>1 DEF Spends, RecordTypes
  <2>2. \A u \in Txs : rec[u] # None /\ o \in In(u) => spender[o] = u
    BY <1>1 DEF Spends
  <2>3. \A u \in Txs : undo[u][o] # None => spender[o] = u /\ o \in Mine
    BY <1>1 DEF Spends
  <2>4. credit'[o] # None => o \in Mine
    <3>1. CASE o \in spent \/ o \in MyOuts(t)
      BY <1>5, <1>7, <3>1
    <3>2. CASE o \notin spent /\ o \notin MyOuts(t)
      BY <1>1, <1>16, <3>2 DEF Spends
    <3> QED
      BY <3>1, <3>2
  <2>5. CASE o \in In(t)
    <3>1. spender'[o] = t /\ spender[o] = None /\ o \notin resolved
      BY <1>4, <1>8, <1>11, <2>5
    <3>2. \A u \in Txs : undo[u][o] = None /\ ~(rec[u] # None /\ o \in In(u))
      BY <1>2, <2>2, <2>3, <3>1
    <3>3. \A u \in Txs : u # t => undo'[u][o] = None
      BY <1>14, <3>1, <3>2
    <3>4. undo'[t][o] # None => o \in Mine
      <4>1. o \notin spent => undo'[t][o] = None
        BY <1>2, <1>14, <3>1, <3>2
      <4> QED
        BY <1>7, <4>1
    <3> QED
      BY <1>2, <1>10, <2>4, <2>5, <3>1, <3>2, <3>3, <3>4
  <2>6. CASE o \notin In(t)
    <3>1. spender'[o] = spender[o] /\ spender[o] # t /\ o \notin spent
      BY <1>2, <1>7, <1>11, <2>1, <2>6
    <3>2. \A u \in Txs : undo'[u][o] # None => spender[o] = u /\ o \in Mine
      <4>1. SUFFICES ASSUME NEW u \in Txs, undo'[u][o] # None PROVE spender[o] = u /\ o \in Mine
        OBVIOUS
      <4>2. CASE spender[o] = u /\ o \in resolved
        BY <1>5, <1>8, <4>2
      <4>3. CASE ~(spender[o] = u /\ o \in resolved)
        BY <1>14, <2>3, <3>1, <4>1, <4>3
      <4> QED
        BY <4>2, <4>3
    <3> QED
      BY <1>10, <2>1, <2>2, <2>4, <2>6, <3>1, <3>2
  <2> QED
    BY <2>5, <2>6
<1>20. ASSUME NEW o \in Mine PROVE CoinAgrees(o)'
  <2>1. o \in Outs /\ CoinAgrees(o) /\ Creator[o] \in Txs \cup {None}
    BY <1>1, <1>2, TXAssumption
  <2>2. spender[o] # None => o \in In(spender[o]) /\ rec[spender[o]] # None /\ spender[o] \in Txs
    BY <1>1, <2>1 DEF Spends, RecordTypes
  <2>3. CASE o \in In(t)
    <3>1. spender'[o] = t /\ spender[o] = None /\ Creator[o] # t /\ o \notin MyOuts(t) /\ o \notin resolved
      BY <1>4, <1>8, <1>11, <2>3
    <3>2. KnownOut(o)' <=> KnownOut(o)
      BY <1>10, <2>1, <3>1 DEF KnownOut
    <3>3. credit[o] # None <=> KnownOut(o)
      BY <2>1, <3>1 DEF CoinAgrees
    <3>4. CASE o \in spent
      <4>1. credit[o] # None /\ undo'[t][o] # None
        BY <1>7, <1>14, <3>4
      <4> QED
        BY <1>2, <1>10, <1>16, <3>1, <3>2, <3>3, <3>4, <4>1 DEF CoinAgrees
    <3>5. CASE o \notin spent
      <4>1. credit[o] = None /\ credit'[o] = None
        BY <1>9, <1>16, <2>1, <2>3, <3>1, <3>5
      <4>2. undo'[t][o] = None
        <5>1. undo'[t][o] = undo[t][o]
          BY <1>2, <1>14, <2>1, <3>1, <3>5
        <5>2. undo[t][o] = None
          BY <1>1, <1>2, <2>1, <3>1 DEF Spends
        <5> QED
          BY <5>1, <5>2
      <4> QED
        BY <1>2, <3>1, <3>2, <3>3, <4>1, <4>2 DEF CoinAgrees
    <3> QED
      BY <3>4, <3>5
  <2>4. CASE o \in MyOuts(t)
    <3>1. o \notin In(t) /\ Creator[o] = t /\ spender'[o] = spender[o] /\ KnownOut(o)' /\ credit[o] = None
      BY <1>2, <1>5, <1>6, <1>10, <1>11, <2>1, <2>4 DEF KnownOut
    <3>2. CASE spender[o] = None
      <4>1. o \notin resolved
        BY <1>6, <2>4, <3>2
      <4>2. credit'[o] # None /\ credit'[o].spent = FALSE
        BY <1>16, <2>4, <4>1
      <4> QED
        BY <3>1, <3>2, <4>2 DEF CoinAgrees
    <3>3. CASE spender[o] # None
      <4>1. o \in resolved /\ spender[o] \in Txs /\ spender[o] # t
        BY <1>6, <2>4, <3>3
      <4>2. rec'[spender[o]] = rec[spender[o]] /\ undo'[spender[o]][o] # None
        BY <1>10, <1>14, <4>1
      <4>3. CASE rec[spender[o]] = Unconfirmed
        <5>1. credit'[o] # None /\ credit'[o].spent = TRUE
          BY <1>16, <4>1, <4>3
        <5> QED
          BY <3>1, <3>3, <4>2, <4>3, <5>1 DEF CoinAgrees
      <4>4. CASE rec[spender[o]] # Unconfirmed
        <5>1. credit'[o] = None
          BY <1>16, <3>1, <4>1, <4>4
        <5> QED
          BY <3>1, <3>3, <4>2, <4>4, <5>1 DEF CoinAgrees
      <4> QED
        BY <4>3, <4>4
    <3> QED
      BY <3>2, <3>3
  <2>5. CASE o \notin In(t) /\ o \notin MyOuts(t)
    <3>1. spender'[o] = spender[o] /\ spender[o] # t /\ Creator[o] # t /\ credit'[o] = credit[o]
          /\ o \notin spent /\ o \notin resolved
      BY <1>2, <1>7, <1>8, <1>11, <1>16, <2>1, <2>2, <2>5, NotOwn
    <3>2. KnownOut(o)' <=> KnownOut(o)
      BY <1>10, <2>1, <3>1 DEF KnownOut
    <3>3. spender[o] # None =>
            rec'[spender[o]] = rec[spender[o]] /\ undo'[spender[o]][o] = undo[spender[o]][o]
      BY <1>10, <1>14, <2>1, <2>2, <3>1
    <3> QED
      BY <2>1, <3>1, <3>2, <3>3 DEF CoinAgrees
  <2> QED
    BY <2>3, <2>4, <2>5
<1>21. Spends'
  BY <1>19 DEF Spends
<1> QED
  BY <1>17, <1>18, <1>20, <1>21 DEF Records

(* No coin of an unconfirmed transaction turns up late: the wallet has the *)
(* undo coin of every coin that is spent in the mempool.                   *)
LEMMA NoneLate ==
  ASSUME Records, NEW t \in Txs, rec[t] = Unconfirmed
  PROVE  Late(t) = {}
<1>1. SUFFICES ASSUME NEW o \in Late(t) PROVE FALSE
  OBVIOUS
<1>2. o \in In(t) /\ o \in Outs /\ credit[o] # None /\ undo[t][o] = None
  BY NotOwn DEF Late, Credits, HasUndo
<1>3. o \in Mine /\ spender[o] = t
  BY <1>2, Sentinels DEF Records, Spends
<1> QED
  BY <1>2, <1>3, Sentinels DEF Records, CoinAgrees

(* What a confirmation writes.                                             *)
LEMMA ConfirmRecords ==
  ASSUME Records, ConfirmTX, job.tx \in Txs, job.height \in Heights \cup {Unconfirmed}
  PROVE  Records'
<1> USE Sentinels
<1> DEFINE t == job.tx
           h == job.height
           gone == HasUndo(t)
           mempool == {o \in MyOuts(t) : credit[o].spent}
<1>1. RecordTypes /\ Spends /\ (\A o \in Mine : CoinAgrees(o)) /\ InBlocks
  BY DEF Records
<1>2. Mine \subseteq Outs /\ t \in Txs /\ h \in Heights /\ rec[t] = Unconfirmed
  BY TXAssumption DEF ConfirmTX, Confirming
<1>3. Late(t) = {}
  BY <1>2, NoneLate
<1>4. MyOuts(t) \cap Credits = MyOuts(t)
  <2>1. ConfirmAssertions(t) = {}
    BY DEF ConfirmTX
  <2> QED
    BY <2>1 DEF ConfirmAssertions
<1>5. /\ rec' = [rec EXCEPT ![t] = h]
      /\ credit' = [o \in Outs |->
           IF o \in gone THEN None
           ELSE IF o \in MyOuts(t) THEN [credit[o] EXCEPT !.height = h]
           ELSE credit[o]]
      /\ spender' = [o \in Outs |-> spender[o]]
      /\ undo' = [UndoOfSpenders(mempool, h) EXCEPT ![t] = [o \in Outs |-> @[o]]]
      /\ rbf' = rbf \ {t} /\ AddBlock(t, h)
  BY <1>3 DEF ConfirmTX
<1>6. \A o \in gone : o \in In(t) /\ o \in Outs /\ o \notin MyOuts(t) /\ undo[t][o] # None
  BY <1>2, NotOwn DEF HasUndo
<1>7. \A o \in MyOuts(t) : o \in Outs /\ o \in Mine /\ Creator[o] = t /\ credit[o] \in Credit
                           /\ o \notin In(t) /\ o \notin gone /\ credit[o] # None
  <2>1. \A o \in MyOuts(t) : o \in Outs /\ o \in Mine /\ Creator[o] = t /\ o \notin In(t) /\ o \notin gone
    BY <1>2, <1>6, NotOwn
  <2>2. \A o \in MyOuts(t) : credit[o] # None
    BY <1>4 DEF Credits
  <2> QED
    BY <1>1, <2>1, <2>2 DEF RecordTypes
<1>8. \A o \in mempool : o \in MyOuts(t)
  OBVIOUS
<1> HIDE DEF t, h, gone, mempool
<1>9. /\ \A u \in Txs : u # t => rec'[u] = rec[u]
      /\ rec'[t] = h
      /\ rec' \in [Txs -> Heights \cup {Unconfirmed, None}]
  BY <1>1, <1>2, <1>5 DEF RecordTypes
<1>10. spender' = spender
  BY <1>1, <1>5 DEF RecordTypes
<1>11. /\ undo' \in [Txs -> [Outs -> Heights \cup {Unconfirmed, None}]]
       /\ \A u \in Txs, o \in Outs : undo'[u][o] # None <=> undo[u][o] # None
  <2> DEFINE over == UndoOfSpenders(mempool, h)
  <2>1. over = [u \in Txs |-> [o \in Outs |->
                  IF o \in mempool /\ spender[o] = u /\ undo[u][o] # None THEN h ELSE undo[u][o]]]
    BY DEF UndoOfSpenders
  <2>2. over \in [Txs -> [Outs -> Heights \cup {Unconfirmed, None}]]
    BY <1>1, <1>2, <2>1 DEF RecordTypes
  <2>3. \A u \in Txs, o \in Outs : over[u][o] # None <=> undo[u][o] # None
    BY <1>2, <2>1
  <2>4. undo' = [over EXCEPT ![t] = [o \in Outs |-> @[o]]]
    BY <1>5
  <2> HIDE DEF over
  <2>5. undo' = over
    BY <1>2, <2>2, <2>4
  <2> QED
    BY <2>2, <2>3, <2>5
<1>12. \A o \in MyOuts(t) : [credit[o] EXCEPT !.height = h] \in Credit
                            /\ [credit[o] EXCEPT !.height = h].spent = credit[o].spent
  BY <1>2, <1>7, CreditEdits
<1>13. credit' \in [Outs -> Credit \cup {None}]
  BY <1>1, <1>5, <1>12 DEF RecordTypes
<1>14. /\ \A o \in gone : credit'[o] = None
       /\ \A o \in MyOuts(t) : credit'[o] # None /\ credit'[o].spent = credit[o].spent
       /\ \A o \in Outs : o \notin gone /\ o \notin MyOuts(t) => credit'[o] = credit[o]
  <2>1. \A o \in gone : credit'[o] = None
    BY <1>5, <1>6
  <2>2. \A o \in MyOuts(t) : credit'[o] = [credit[o] EXCEPT !.height = h]
    BY <1>5, <1>7
  <2>3. \A o \in Outs : o \notin gone /\ o \notin MyOuts(t) => credit'[o] = credit[o]
    BY <1>5
  <2> QED
    BY <1>12, <2>1, <2>2, <2>3
<1>15. blocks' \in [Heights -> Seq(Txs)] /\ InBlocks'
  <2>1. blocks \in [Heights -> Seq(Txs)] /\ blocks' = [blocks EXCEPT ![h] = Append(@, t)]
    BY <1>1, <1>5 DEF RecordTypes, AddBlock
  <2>2. blocks[h] \in Seq(Txs) /\ IsInjective(blocks[h]) /\ t \notin Range(blocks[h])
    BY <1>1, <1>2, <2>1 DEF InBlocks
  <2>3. /\ Append(blocks[h], t) \in Seq(Txs) /\ IsInjective(Append(blocks[h], t))
        /\ Range(Append(blocks[h], t)) = Range(blocks[h]) \cup {t}
    BY <1>2, <2>2, AppendOnce
  <2>4. /\ blocks' \in [Heights -> Seq(Txs)] /\ blocks'[h] = Append(blocks[h], t)
        /\ \A k \in Heights : k # h => blocks'[k] = blocks[k]
    BY <1>2, <2>1, <2>3
  <2>5. \A k \in Heights, u \in Txs : rec'[u] = k <=> u \in Range(blocks'[k])
    <3>1. ASSUME NEW k \in Heights, k # h, NEW u \in Txs
          PROVE  rec'[u] = k <=> u \in Range(blocks'[k])
      <4>1. rec'[t] # k /\ rec[t] # k /\ (rec[u] = k <=> u \in Range(blocks[k])) /\ blocks'[k] = blocks[k]
        BY <1>1, <1>2, <1>9, <2>3, <2>4, <3>1 DEF InBlocks
      <4> QED
        BY <1>9, <4>1
    <3>2. ASSUME NEW u \in Txs
          PROVE  rec'[u] = h <=> u \in Range(blocks'[h])
      <4>1. rec[u] = h <=> u \in Range(blocks[h])
        BY <1>1, <1>2, <1>9, <2>3, <2>4 DEF InBlocks
      <4> QED
        BY <1>1, <1>2, <1>9, <2>3, <2>4, <4>1
    <3> QED
      BY <3>1, <3>2
  <2>6. \A k \in Heights : IsInjective(blocks'[k])
    BY <1>1, <2>3, <2>4 DEF InBlocks
  <2> QED
    BY <2>4, <2>5, <2>6 DEF InBlocks
<1>16. RecordTypes'
  <2>1. rbf' \subseteq Replaceable \cup {u \in Txs : \E o \in In(u) : Creator[o] # None}
    BY <1>1, <1>5 DEF RecordTypes
  <2> QED
    BY <1>1, <1>9, <1>10, <1>11, <1>13, <1>15, <2>1 DEF RecordTypes
<1>17. Spends'
  <2>1. \A u \in Txs : rec'[u] # None <=> rec[u] # None
    BY <1>2, <1>9
  <2>2. \A o \in Outs : spender[o] # None => spender[o] \in Txs
    BY <1>1 DEF RecordTypes
  <2>3. \A o \in Outs : credit'[o] # None => o \in Mine
    <3>1. \A o \in Outs : credit'[o] # None => o \in MyOuts(t) \/ credit[o] # None
      BY <1>14
    <3> QED
      BY <1>1, <1>7, <3>1 DEF Spends
  <2> QED
    BY <1>1, <1>10, <1>11, <2>1, <2>2, <2>3 DEF Spends
<1>18. ASSUME NEW o \in Mine PROVE CoinAgrees(o)'
  <2>1. o \in Outs /\ CoinAgrees(o) /\ Creator[o] \in Txs \cup {None}
    BY <1>1, <1>2, TXAssumption
  <2>2. spender[o] # None => o \in In(spender[o]) /\ rec[spender[o]] # None /\ spender[o] \in Txs
    BY <1>1, <2>1 DEF Spends, RecordTypes
  <2>3. KnownOut(o)' <=> KnownOut(o)
    BY <1>2, <1>9, <2>1 DEF KnownOut
  <2>4. spender[o] # None =>
          (undo'[spender[o]][o] # None <=> undo[spender[o]][o] # None)
    BY <1>11, <2>1, <2>2
  <2>5. CASE spender[o] = t
    <3>1. o \in In(t) /\ o \notin MyOuts(t)
      BY <1>2, <2>2, <2>5, NotOwn
    <3>2. credit'[o] = None
      <4>1. CASE o \in gone
        BY <1>14, <4>1
      <4>2. CASE o \notin gone
        <5>1. undo[t][o] = None
          BY <3>1, <4>2 DEF gone, HasUndo
        <5>2. credit[o] = None
          BY <1>2, <2>1, <2>5, <5>1 DEF CoinAgrees
        <5> QED
          BY <1>14, <2>1, <3>1, <4>2, <5>2
      <4> QED
        BY <4>1, <4>2
    <3>3. rec'[spender[o]] # Unconfirmed
      BY <1>2, <1>9, <2>5
    <3> QED
      BY <1>2, <1>10, <2>1, <2>3, <2>4, <2>5, <3>2, <3>3 DEF CoinAgrees
  <2>6. CASE spender[o] # t
    <3>1. o \notin gone
      BY <1>1, <1>6, <2>1, <2>6, <1>2 DEF Spends
    <3>2. credit'[o] # None <=> credit[o] # None
      BY <1>7, <1>14, <2>1, <3>1
    <3>3. credit[o] # None => credit'[o].spent = credit[o].spent
      BY <1>14, <2>1, <3>1
    <3>4. spender[o] # None => rec'[spender[o]] = rec[spender[o]]
      BY <1>9, <2>2, <2>6
    <3> QED
      BY <1>10, <2>1, <2>3, <2>4, <3>2, <3>3, <3>4 DEF CoinAgrees
  <2> QED
    BY <2>5, <2>6
<1> QED
  BY <1>15, <1>16, <1>17, <1>18 DEF Records

(* What a disconnection writes.                                            *)
LEMMA DisconnectRecords ==
  ASSUME Records, DisconnectTX, job.tx \in Txs
  PROVE  Records'
<1> USE Sentinels
<1> DEFINE t == job.tx
           h == rec[t]
           back == HasUndo(t)
           kept == MyOuts(t) \cap Credits
           reheight == {o \in MyOuts(t) : o \in kept => credit[o].spent}
<1>1. RecordTypes /\ Spends /\ (\A o \in Mine : CoinAgrees(o)) /\ InBlocks
  BY DEF Records
<1>2. Mine \subseteq Outs /\ t \in Txs /\ h \in Heights
  BY TXAssumption DEF DisconnectTX, Disconnecting
<1>3. blocks[h] # <<>> => Last(blocks[h]) = t
  <2>1. DisconnectAssertions(t) = {}
    BY DEF DisconnectTX
  <2> QED
    BY <2>1 DEF DisconnectAssertions
<1>4. /\ rec' = [rec EXCEPT ![t] = Unconfirmed]
      /\ credit' = [o \in Outs |->
           IF o \in back THEN [height |-> undo[t][o], spent |-> TRUE]
           ELSE IF o \in kept THEN [credit[o] EXCEPT !.height = Unconfirmed]
           ELSE credit[o]]
      /\ undo' = UndoOfSpenders(reheight, h)
      /\ blocks' = (IF blocks[h] = <<>> THEN blocks ELSE [blocks EXCEPT ![h] = Front(@)])
      /\ spender' = spender /\ rbf' = rbf
  BY DEF DisconnectTX, OldHeight
<1>5. \A o \in back : o \in In(t) /\ o \in Outs /\ o \notin MyOuts(t) /\ o \in Mine
                      /\ undo[t][o] \in Heights \cup {Unconfirmed} /\ spender[o] = t
  <2>1. \A o \in back : o \in In(t) /\ o \in Outs /\ o \notin MyOuts(t) /\ undo[t][o] # None
    BY <1>2, NotOwn DEF HasUndo
  <2> QED
    BY <1>1, <1>2, <2>1 DEF RecordTypes, Spends
<1>6. \A o \in kept : o \in Outs /\ o \in Mine /\ Creator[o] = t /\ credit[o] \in Credit
                           /\ o \notin In(t) /\ o \notin back /\ credit[o] # None
  <2>1. \A o \in kept : o \in Outs /\ o \in Mine /\ Creator[o] = t /\ o \notin In(t) /\ o \notin back
    BY <1>2, <1>5, NotOwn
  <2>2. \A o \in kept : credit[o] # None
    BY DEF Credits
  <2> QED
    BY <1>1, <2>1, <2>2 DEF RecordTypes
<1> HIDE DEF t, h, back, kept, reheight
<1>7. /\ \A u \in Txs : u # t => rec'[u] = rec[u]
      /\ rec'[t] = Unconfirmed
      /\ rec' \in [Txs -> Heights \cup {Unconfirmed, None}]
  BY <1>1, <1>2, <1>4 DEF RecordTypes
<1>8. /\ undo' \in [Txs -> [Outs -> Heights \cup {Unconfirmed, None}]]
      /\ \A u \in Txs, o \in Outs : undo'[u][o] # None <=> undo[u][o] # None
  <2>1. undo' = [u \in Txs |-> [o \in Outs |->
                  IF o \in reheight /\ spender[o] = u /\ undo[u][o] # None THEN h ELSE undo[u][o]]]
    BY <1>4 DEF UndoOfSpenders
  <2> QED
    BY <1>1, <1>2, <2>1 DEF RecordTypes
<1>9. /\ \A o \in kept : [credit[o] EXCEPT !.height = Unconfirmed] \in Credit
           /\ [credit[o] EXCEPT !.height = Unconfirmed].spent = credit[o].spent
      /\ \A o \in back : [height |-> undo[t][o], spent |-> TRUE] \in Credit
  <2>1. \A o \in back : [height |-> undo[t][o], spent |-> TRUE] \in Credit
    BY <1>5 DEF Credit
  <2> QED
    BY <1>6, <2>1, CreditEdits
<1>10. credit' \in [Outs -> Credit \cup {None}]
  BY <1>1, <1>4, <1>9 DEF RecordTypes
<1>11. /\ \A o \in back : credit'[o] # None /\ credit'[o].spent = TRUE
       /\ \A o \in kept : credit'[o] # None /\ credit'[o].spent = credit[o].spent
       /\ \A o \in Outs : o \notin back /\ o \notin kept => credit'[o] = credit[o]
  <2>1. \A o \in back : credit'[o] = [height |-> undo[t][o], spent |-> TRUE]
    BY <1>4, <1>5
  <2>2. \A o \in kept : credit'[o] = [credit[o] EXCEPT !.height = Unconfirmed]
    BY <1>4, <1>6
  <2>3. \A o \in Outs : o \notin back /\ o \notin kept => credit'[o] = credit[o]
    BY <1>4
  <2>4. ASSUME NEW o \in back PROVE credit'[o] # None /\ credit'[o].spent = TRUE
    <3>1. credit'[o] \in Credit
      BY <1>9, <2>1
    <3>2. credit'[o].spent = TRUE
      <4>1. credit'[o] = [height |-> undo[t][o], spent |-> TRUE]
        BY <2>1
      <4> QED
        BY <4>1
    <3> QED
      BY <3>1, <3>2
  <2>5. ASSUME NEW o \in kept PROVE credit'[o] # None /\ credit'[o].spent = credit[o].spent
    <3>1. credit'[o] \in Credit /\ credit'[o].spent = credit[o].spent
      BY <1>9, <2>2
    <3> QED
      BY <3>1
  <2> QED
    BY <2>3, <2>4, <2>5
<1>12. blocks' \in [Heights -> Seq(Txs)] /\ InBlocks'
  <2>1. blocks \in [Heights -> Seq(Txs)] /\ t \in Range(blocks[h]) /\ rec[t] = h
    BY <1>1, <1>2 DEF RecordTypes, InBlocks, h
  <2>2. blocks[h] \in Seq(Txs) /\ IsInjective(blocks[h])
    BY <1>1, <1>2 DEF InBlocks, RecordTypes
  <2>3. blocks[h] # <<>>
    BY <2>1, <2>2, EmptySeq DEF Range
  <2>4. /\ Front(blocks[h]) \in Seq(Txs) /\ IsInjective(Front(blocks[h]))
        /\ Range(Front(blocks[h])) = Range(blocks[h]) \ {t}
    BY <1>3, <2>2, <2>3, FrontOnce
  <2>5. blocks' = [blocks EXCEPT ![h] = Front(@)]
    BY <1>4, <2>3
  <2>6. /\ blocks' \in [Heights -> Seq(Txs)] /\ blocks'[h] = Front(blocks[h])
        /\ \A k \in Heights : k # h => blocks'[k] = blocks[k]
    BY <1>2, <2>1, <2>4, <2>5
  <2>7. \A k \in Heights, u \in Txs : rec'[u] = k <=> u \in Range(blocks'[k])
    <3>1. ASSUME NEW k \in Heights, k # h, NEW u \in Txs
          PROVE  rec'[u] = k <=> u \in Range(blocks'[k])
      <4>1. rec'[t] # k /\ rec[t] # k /\ (rec[u] = k <=> u \in Range(blocks[k])) /\ blocks'[k] = blocks[k]
        BY <1>1, <1>2, <1>7, <2>1, <2>4, <2>6, <3>1 DEF InBlocks
      <4> QED
        BY <1>7, <4>1
    <3>2. ASSUME NEW u \in Txs
          PROVE  rec'[u] = h <=> u \in Range(blocks'[h])
      <4>1. rec[u] = h <=> u \in Range(blocks[h])
        BY <1>1, <1>2, <1>7, <2>1, <2>4, <2>6 DEF InBlocks
      <4> QED
        BY <1>1, <1>2, <1>7, <2>1, <2>4, <2>6, <4>1
    <3> QED
      BY <3>1, <3>2
  <2>8. \A k \in Heights : IsInjective(blocks'[k])
    BY <1>1, <2>4, <2>6 DEF InBlocks
  <2> QED
    BY <2>6, <2>7, <2>8 DEF InBlocks
<1>13. RecordTypes'
  BY <1>1, <1>4, <1>7, <1>8, <1>10, <1>12 DEF RecordTypes
<1>14. rec[t] # None
  BY <1>2 DEF h
<1>15. Spends'
  <2>1. \A u \in Txs : rec'[u] # None <=> rec[u] # None
    BY <1>2, <1>7, <1>14
  <2>2. \A o \in Outs : spender[o] # None => spender[o] \in Txs
    BY <1>1 DEF RecordTypes
  <2>3. \A o \in Outs : credit'[o] # None => o \in Mine
    <3>1. \A o \in Outs : credit'[o] # None => o \in back \/ credit[o] # None
      BY <1>6, <1>11
    <3> QED
      BY <1>1, <1>5, <3>1 DEF Spends
  <2> QED
    BY <1>1, <1>4, <1>8, <2>1, <2>2, <2>3 DEF Spends
<1>16. ASSUME NEW o \in Mine PROVE CoinAgrees(o)'
  <2>1. o \in Outs /\ CoinAgrees(o) /\ Creator[o] \in Txs \cup {None}
    BY <1>1, <1>2, TXAssumption
  <2>2. spender[o] # None => o \in In(spender[o]) /\ rec[spender[o]] # None /\ spender[o] \in Txs
    BY <1>1, <2>1 DEF Spends, RecordTypes
  <2>3. KnownOut(o)' <=> KnownOut(o)
    BY <1>2, <1>7, <1>14, <2>1 DEF KnownOut
  <2>4. spender[o] # None =>
          (undo'[spender[o]][o] # None <=> undo[spender[o]][o] # None)
    BY <1>8, <2>1, <2>2
  <2>5. CASE spender[o] = t
    <3>1. o \in In(t) /\ o \notin kept
      BY <1>2, <1>6, <2>2, <2>5
    <3>2. rec'[spender[o]] = Unconfirmed /\ spender[o] # None
      BY <1>2, <1>7, <2>5
    <3>3. o \in back <=> KnownOut(o)
      BY <2>1, <2>5, <3>1, <3>2 DEF CoinAgrees, back, HasUndo
    <3>4. CASE o \in back
      <4>1. credit'[o] # None /\ credit'[o].spent = TRUE
        BY <1>11, <3>4
      <4> QED
        BY <1>4, <2>1, <2>3, <2>4, <3>2, <3>3, <3>4, <4>1 DEF CoinAgrees
    <3>5. CASE o \notin back
      <4>1. credit'[o] = credit[o] /\ credit[o] = None
        BY <1>11, <2>1, <3>1, <3>3, <3>5 DEF CoinAgrees
      <4> QED
        BY <1>4, <2>1, <2>3, <2>4, <3>2, <3>3, <3>5, <4>1 DEF CoinAgrees
    <3> QED
      BY <3>4, <3>5
  <2>6. CASE spender[o] # t
    <3>1. o \notin back
      BY <1>5, <2>6
    <3>2. credit'[o] # None <=> credit[o] # None
      BY <1>6, <1>11, <2>1, <3>1
    <3>3. credit[o] # None => credit'[o].spent = credit[o].spent
      BY <1>11, <2>1, <3>1
    <3>4. spender[o] # None => rec'[spender[o]] = rec[spender[o]]
      BY <1>7, <2>2, <2>6
    <3> QED
      BY <1>4, <2>1, <2>3, <2>4, <3>2, <3>3, <3>4 DEF CoinAgrees
  <2> QED
    BY <2>5, <2>6
<1> QED
  BY <1>12, <1>13, <1>15, <1>16 DEF Records

-----------------------------------------------------------------------------
(* The operation under way.  What a removal has on its path, and the       *)
(* conflicts that wait, are transactions with the height they were read    *)
(* with, or gone since.  An addition that will go through has every other  *)
(* spender of its inputs among them.                                       *)
Underway == job.op \in {"add", "unconfirm", "remove"}
Pend(j) == Range(j.path) \cup {r[2] : r \in j.roots}

JobOK ==
  /\ job \in Job
  /\ Underway =>
       /\ job.path = <<>> => job.roots = {}
       /\ job.op = "unconfirm" => job.path = <<>>
       /\ \A w \in Pend(job) :
            /\ rec[w.tx] \in {w.height, None}
            /\ rec[w.tx] = None => \A o \in In(w.tx) : spender[o] = None
       /\ job.op = "add" /\ (job.path # <<>> \/ Removes(job.tx, job.height)) =>
            \A o \in In(job.tx) :
              spender[o] \in {None, job.tx} \/ \E w \in Pend(job) : w.tx = spender[o]

Balances == R \in Balance /\ state \in Balance

LEMMA JobFields ==
  ASSUME NEW j \in Job, j.op \in {"add", "unconfirm", "remove"}
  PROVE  /\ j.tx \in Txs /\ j.height \in Heights \cup {Unconfirmed} /\ j.user \in BOOLEAN
         /\ j.roots \in SUBSET (Nat \X Wtx) /\ j.path \in Seq(Wtx)
BY DEF Job

LEMMA RangeOfOne ==
  ASSUME NEW S, NEW x \in S
  PROVE  <<x>> \in Seq(S) /\ <<x>> # <<>> /\ Range(<<x>>) = {x}
BY DEF Range

(* The next conflict goes on the path, and none is lost.                   *)
LEMMA RemovingKeeps ==
  ASSUME NEW j \in Job, j.op \in {"add", "unconfirm", "remove"}
  PROVE  LET k == Removing(j)
         IN  /\ k \in Job /\ k.op = j.op /\ k.tx = j.tx /\ k.height = j.height
             /\ Pend(k) = Pend(j)
             /\ k.path = <<>> => k.roots = {} /\ j.path = <<>> /\ j.roots = {}
<1> DEFINE first == CHOOSE root \in j.roots : \A r \in j.roots : root[1] <= r[1]
           k == Removing(j)
<1>0. j.roots \in SUBSET (Nat \X Wtx) /\ j.path \in Seq(Wtx)
  BY JobFields
<1>1. CASE j.path = <<>> /\ j.roots # {}
  <2> DEFINE D == {r[1] : r \in j.roots}
  <2>1. D \subseteq Nat /\ D # {}
    BY <1>0, <1>1
  <2>2. PICK d \in D : \A e \in D : d <= e
    <3> HIDE DEF D
    <3> QED
      BY <2>1, LeastNumber
  <2>3. \E root \in j.roots : \A r \in j.roots : root[1] <= r[1]
    BY <2>2
  <2>4. first \in j.roots
    BY <2>3
  <2> HIDE DEF first
  <2>5. first \in Nat \X Wtx /\ first[2] \in Wtx /\ j.roots \ {first} \in SUBSET (Nat \X Wtx)
    BY <1>0, <2>4
  <2>6. <<first[2]>> \in Seq(Wtx) /\ <<first[2]>> # <<>> /\ Range(<<first[2]>>) = {first[2]}
    BY <2>5, RangeOfOne
  <2>7. k = [j EXCEPT !.path = <<first[2]>>, !.roots = j.roots \ {first}]
    BY <1>1 DEF Removing, first
  <2> HIDE DEF k
  <2>8. /\ k \in Job /\ k.op = j.op /\ k.tx = j.tx /\ k.height = j.height
        /\ k.path = <<first[2]>> /\ k.roots = j.roots \ {first}
    <3> DEFINE p == <<first[2]>>
               q == j.roots \ {first}
    <3>1. p \in Seq(Wtx) /\ q \in SUBSET (Nat \X Wtx)
      BY <2>5, <2>6
    <3>2. k = [j EXCEPT !.path = p, !.roots = q]
      BY <2>7
    <3> HIDE DEF p, q
    <3>3. k \in Job /\ k.op = j.op /\ k.tx = j.tx /\ k.height = j.height /\ k.path = p /\ k.roots = q
      BY <3>1, <3>2 DEF Job
    <3> QED
      BY <3>3 DEF p, q
  <2>9. Pend(j) = {r[2] : r \in j.roots}
    BY <1>1 DEF Pend, Range
  <2>10. Pend(k) = {first[2]} \cup {r[2] : r \in j.roots \ {first}}
    BY <2>6, <2>8 DEF Pend
  <2>11. Pend(k) = Pend(j)
    BY <2>4, <2>9, <2>10
  <2> QED
    BY <2>6, <2>8, <2>11 DEF k
<1>2. CASE ~(j.path = <<>> /\ j.roots # {})
  <2>1. k = j
    BY <1>2 DEF Removing
  <2> QED
    BY <1>2, <2>1
<1> QED
  BY <1>1, <1>2

(* An operation that ends leaves nothing to answer for.                    *)
LEMMA JobEnds ==
  ASSUME job' = Idle \/ job' = [op |-> "threw"]
  PROVE  JobOK'
BY DEF JobOK, Job, Underway, Idle

(* No operation is under way: one may start.                               *)
LEMMA AddStarts ==
  ASSUME Records, NEW t \in Txs, NEW h \in Heights \cup {Unconfirmed}, NEW user \in BOOLEAN,
         Add(t, h, user)
  PROVE  JobOK'
<1> USE Sentinels
<1> DEFINE roots == IF Removes(t, h) THEN Conflicts(t) ELSE {}
           j == [op |-> "add", user |-> user, tx |-> t, height |-> h, roots |-> roots, path |-> <<>>]
<1>1. RecordTypes /\ Spends
  BY DEF Records
<1>2. /\ job' = Removing(j)
      /\ rec' = rec /\ spender' = spender /\ rbf' = rbf
  BY DEF Add, NewJob, records
<1>3. Inputs[t] \in Seq(Outs) /\ DOMAIN Inputs[t] \subseteq Nat
  BY TXAssumption, LenProperties
<1>4. \A i \in DOMAIN Inputs[t] : Inputs[t][i] \in Outs /\ Inputs[t][i] \in In(t)
  BY <1>3, ElementOfSeq, LenProperties DEF In, Range
<1>5. \A r \in Conflicts(t) :
        /\ r \in Nat \X Wtx
        /\ rec[r[2].tx] = r[2].height /\ rec[r[2].tx] # None
  <2>1. SUFFICES ASSUME NEW r \in Conflicts(t)
                 PROVE  /\ r \in Nat \X Wtx
                        /\ rec[r[2].tx] = r[2].height /\ rec[r[2].tx] # None
    OBVIOUS
  <2>2. PICK i \in DOMAIN Inputs[t] :
          /\ spender[Inputs[t][i]] \notin {None, t}
          /\ r = <<i, [tx |-> spender[Inputs[t][i]], height |-> rec[spender[Inputs[t][i]]]]>>
    BY <2>1 DEF Conflicts
  <2> DEFINE s == spender[Inputs[t][i]]
  <2>3. s \in Txs /\ rec[s] # None /\ rec[s] \in Heights \cup {Unconfirmed}
    BY <1>1, <1>4, <2>2 DEF RecordTypes, Spends
  <2>4. r = <<i, [tx |-> s, height |-> rec[s]]>> /\ i \in Nat
    BY <1>3, <2>2
  <2> HIDE DEF s
  <2>5. [tx |-> s, height |-> rec[s]] \in Wtx
    BY <2>3 DEF Wtx
  <2> QED
    BY <2>3, <2>4, <2>5
<1>6. roots \in SUBSET (Nat \X Wtx) /\ \A r \in roots : r \in Conflicts(t)
  BY <1>5
<1>7. <<>> \in Seq(Wtx)
  BY EmptySeq
<1>8. j \in Job /\ j.op = "add" /\ j.tx = t /\ j.height = h /\ j.path = <<>> /\ j.roots = roots
  <2> HIDE DEF roots
  <2> QED
    BY <1>6, <1>7 DEF Job
<1>9. Pend(j) = {r[2] : r \in roots}
  BY <1>8 DEF Pend, Range
<1> HIDE DEF j
<1>10. /\ job' \in Job /\ job'.op = "add" /\ job'.tx = t /\ job'.height = h
       /\ Pend(job)' = Pend(j)
       /\ job'.path = <<>> => job'.roots = {} /\ j.roots = {}
  BY <1>2, <1>8, RemovingKeeps DEF Pend
<1>11. \A w \in Pend(j) : rec[w.tx] = w.height /\ rec[w.tx] # None
  <2>1. \A w \in Pend(j) : \E r \in Conflicts(t) : w = r[2]
    BY <1>6, <1>9
  <2> HIDE DEF roots
  <2> QED
    BY <1>5, <2>1
<1>12. Removes(t, h)' <=> Removes(t, h)
  BY <1>2 DEF Removes, IsRBF, ConfirmedConflict, Conflicts
<1>13. ASSUME job'.path # <<>> \/ Removes(t, h)', NEW o \in In(t)
       PROVE  spender[o] \in {None, t} \/ \E w \in Pend(j) : w.tx = spender[o]
  <2>1. Removes(t, h)
    <3>1. CASE job'.path # <<>>
      <4>1. Pend(job)' # {}
        <5>1. job'.path \in Seq(Wtx)
          BY <1>10, JobFields
        <5>2. Head(job'.path) \in Range(job'.path)
          BY <3>1, <5>1, HeadTailProperties, LenProperties, EmptySeq DEF Range
        <5> QED
          BY <5>2 DEF Pend
      <4>2. roots # {}
        BY <1>9, <1>10, <4>1
      <4> QED
        BY <4>2
    <3>2. CASE Removes(t, h)'
      BY <1>12, <3>2
    <3> QED
      BY <1>13, <3>1, <3>2
  <2>2. Pend(j) = {r[2] : r \in Conflicts(t)}
    BY <1>9, <2>1
  <2>3. PICK i \in DOMAIN Inputs[t] : o = Inputs[t][i]
    BY <1>13 DEF In, Range
  <2>4. CASE spender[o] \notin {None, t}
    <3> DEFINE w == [tx |-> spender[o], height |-> rec[spender[o]]]
    <3>1. <<i, w>> \in Conflicts(t)
      BY <2>3, <2>4 DEF Conflicts
    <3>2. w = <<i, w>>[2] /\ w.tx = spender[o]
      OBVIOUS
    <3> HIDE DEF w
    <3>3. w \in Pend(j)
      BY <2>2, <3>1, <3>2
    <3> QED
      BY <3>2, <3>3
  <2> QED
    BY <2>4
<1>14. Underway' /\ job'.op # "unconfirm"
  BY <1>10 DEF Underway
<1> QED
  BY <1>2, <1>10, <1>11, <1>13, <1>14 DEF JobOK

LEMMA UnconfirmStarts ==
  ASSUME NEW t \in Txs, Unconfirm(t)
  PROVE  JobOK'
<1> DEFINE j == [op |-> "unconfirm", user |-> FALSE, tx |-> t, height |-> Unconfirmed,
                 roots |-> {}, path |-> <<>>]
<1>1. job' = Removing(j)
  BY DEF Unconfirm, NewJob
<1>2. job' = j
  BY <1>1 DEF Removing
<1>3. <<>> \in Seq(Wtx)
  BY EmptySeq
<1>4. j \in Job
  BY <1>3 DEF Job
<1>5. Pend(j) = {}
  BY DEF Pend, Range
<1> QED
  BY <1>2, <1>4, <1>5 DEF JobOK, Pend

LEMMA RemoveStarts ==
  ASSUME Records, NEW t \in Txs, RemoveTX(t)
  PROVE  JobOK'
<1> USE Sentinels
<1> DEFINE w == [tx |-> t, height |-> rec[t]]
           j == [op |-> "remove", user |-> TRUE, tx |-> t, height |-> rec[t],
                 roots |-> {<<1, w>>}, path |-> <<>>]
<1>1. job' = Removing(j) /\ rec[t] # None /\ rec' = rec /\ spender' = spender
  BY DEF RemoveTX, NewJob, records
<1>2. <<>> \in Seq(Wtx)
  BY EmptySeq
<1>3. rec[t] \in Heights \cup {Unconfirmed}
  BY <1>1 DEF Records, RecordTypes
<1>4. w \in Wtx
  BY <1>3 DEF Wtx
<1>5. {<<1, w>>} \in SUBSET (Nat \X Wtx)
  <2> HIDE DEF w
  <2> QED
    BY <1>4
<1>6. j \in Job /\ j.op = "remove"
  <2> DEFINE q == {<<1, w>>}
  <2> HIDE DEF q
  <2>1. q \in SUBSET (Nat \X Wtx)
    BY <1>5 DEF q
  <2> QED
    BY <1>2, <1>3, <2>1 DEF Job, q
<1>7. Pend(j) = {w}
  BY DEF Pend, Range
<1> HIDE DEF j
<1>8. /\ job' \in Job /\ job'.op = "remove" /\ Pend(job)' = Pend(j)
      /\ job'.path = <<>> => job'.roots = {}
  BY <1>1, <1>6, RemovingKeeps DEF Pend
<1>9. \A x \in Pend(job)' : rec'[x.tx] = x.height /\ rec'[x.tx] # None
  BY <1>1, <1>7, <1>8
<1> QED
  BY <1>8, <1>9 DEF JobOK, Underway

-----------------------------------------------------------------------------
(* The steps of an operation.                                              *)
LEMMA DescendKeeps ==
  ASSUME Records, JobOK, Descend
  PROVE  JobOK'
<1> USE Sentinels
<1>1. /\ job.op \in {"add", "remove"} /\ job.path # <<>>
      /\ rec' = rec /\ spender' = spender /\ rbf' = rbf
  BY DEF Descend, records
<1>2. PICK o \in OutsOf(Last(job.path).tx) :
        /\ spender[o] # None
        /\ job' = [job EXCEPT !.path =
                     Append(@, [tx |-> spender[o], height |-> rec[spender[o]]])]
  BY DEF Descend
<1> DEFINE w == [tx |-> spender[o], height |-> rec[spender[o]]]
<1>3. spender[o] \in Txs /\ rec[spender[o]] # None /\ rec[spender[o]] \in Heights \cup {Unconfirmed}
  <2>1. o \in Outs
    BY DEF OutsOf
  <2> QED
    BY <1>2, <2>1 DEF Records, RecordTypes, Spends
<1>4. w \in Wtx /\ w.tx = spender[o] /\ w.height = rec[spender[o]]
  BY <1>3 DEF Wtx
<1> HIDE DEF w
<1>5. job \in Job /\ job.op \in {"add", "unconfirm", "remove"} /\ job.path \in Seq(Wtx)
  BY <1>1, JobFields DEF JobOK
<1>6. /\ Append(job.path, w) \in Seq(Wtx) /\ Append(job.path, w) # <<>>
      /\ Range(Append(job.path, w)) = Range(job.path) \cup {w}
  <2>1. Append(job.path, w) \in Seq(Wtx) /\ Range(Append(job.path, w)) = Range(job.path) \cup {w}
    BY <1>4, <1>5, AppendOnce
  <2>2. Append(job.path, w) # <<>>
    <3>1. w \in Range(Append(job.path, w))
      BY <2>1
    <3> QED
      BY <3>1 DEF Range
  <2> QED
    BY <2>1, <2>2
<1>7. /\ job' \in Job /\ job'.op = job.op /\ job'.tx = job.tx /\ job'.height = job.height
      /\ job'.path = Append(job.path, w) /\ job'.roots = job.roots
  <2> DEFINE p == Append(job.path, w)
  <2>1. job' = [job EXCEPT !.path = p] /\ p \in Seq(Wtx)
    BY <1>2, <1>6 DEF w
  <2> HIDE DEF p
  <2>2. job.roots \in SUBSET (Nat \X Wtx)
    BY <1>5, JobFields
  <2>3. /\ job' \in Job /\ job'.op = job.op /\ job'.tx = job.tx /\ job'.height = job.height
        /\ job'.path = p /\ job'.roots = job.roots
    BY <1>5, <2>1, <2>2 DEF Job
  <2> QED
    BY <2>3 DEF p
<1>8. Pend(job)' = Pend(job) \cup {w}
  BY <1>6, <1>7 DEF Pend
<1>9. Underway
  BY <1>1 DEF Underway
<1>10. \A x \in Pend(job)' :
         /\ rec'[x.tx] \in {x.height, None}
         /\ rec'[x.tx] = None => \A u \in In(x.tx) : spender'[u] = None
  BY <1>1, <1>3, <1>4, <1>8, <1>9 DEF JobOK
<1>11. job'.op = "add" => \A u \in In(job'.tx) :
          spender'[u] \in {None, job'.tx} \/ \E x \in Pend(job)' : x.tx = spender'[u]
  BY <1>1, <1>7, <1>8, <1>9 DEF JobOK
<1> QED
  BY <1>1, <1>6, <1>7, <1>10, <1>11 DEF JobOK, Underway

(* What erase finds: the transaction at the end of the path.               *)
Top == Last(job.path)
Shorter == [job EXCEPT !.path = Front(@)]

LEMMA EraseFinds ==
  ASSUME JobOK, job.op \in {"add", "remove"}, job.path # <<>>
  PROVE  /\ job \in Job /\ job.op \in {"add", "unconfirm", "remove"} /\ job.path \in Seq(Wtx) /\ Underway
         /\ Top \in Wtx /\ Top.tx \in Txs /\ Top.height \in Heights \cup {Unconfirmed}
         /\ rec[Top.tx] \in {Top.height, None}
         /\ rec[Top.tx] = None => \A o \in In(Top.tx) : spender[o] = None
         /\ Shorter \in Job /\ Shorter.op = job.op /\ Shorter.tx = job.tx /\ Shorter.height = job.height
         /\ Shorter.path = Front(job.path) /\ Shorter.roots = job.roots
         /\ Pend(job) = Pend(Shorter) \cup {Top}
<1>1. job \in Job /\ job.op \in {"add", "unconfirm", "remove"} /\ job.path \in Seq(Wtx) /\ Underway
      /\ job.roots \in SUBSET (Nat \X Wtx)
  BY JobFields DEF JobOK, Underway
<1>2. /\ Front(job.path) \in Seq(Wtx) /\ Top \in Range(job.path)
      /\ Range(job.path) = Range(Front(job.path)) \cup {Top}
  BY <1>1, FrontOnce DEF Top
<1>3. Top \in Wtx
  BY <1>1, <1>2, LenProperties, ElementOfSeq DEF Range
<1>4. Top.tx \in Txs /\ Top.height \in Heights \cup {Unconfirmed}
  BY <1>3 DEF Wtx
<1>5. rec[Top.tx] \in {Top.height, None} /\ (rec[Top.tx] = None => \A o \in In(Top.tx) : spender[o] = None)
  BY <1>1, <1>2 DEF JobOK, Pend
<1>6. /\ Shorter \in Job /\ Shorter.op = job.op /\ Shorter.tx = job.tx /\ Shorter.height = job.height
      /\ Shorter.path = Front(job.path) /\ Shorter.roots = job.roots
  <2> DEFINE p == Front(job.path)
  <2>1. Shorter = [job EXCEPT !.path = p] /\ p \in Seq(Wtx)
    BY <1>2 DEF Shorter
  <2> HIDE DEF p
  <2>2. /\ Shorter \in Job /\ Shorter.op = job.op /\ Shorter.tx = job.tx /\ Shorter.height = job.height
        /\ Shorter.path = p /\ Shorter.roots = job.roots
    BY <1>1, <2>1 DEF Job
  <2> QED
    BY <2>2 DEF p
<1>7. Pend(job) = Pend(Shorter) \cup {Top}
  BY <1>2, <1>6 DEF Pend
<1> QED
  BY <1>1, <1>3, <1>4, <1>5, <1>6, <1>7

LEMMA EraseKeeps ==
  ASSUME Records, JobOK, Balances, Erase
  PROVE  Records' /\ JobOK' /\ Balances'
<1> USE Sentinels
<1> DEFINE t == Top.tx
           h == Top.height
           k == Removing(Shorter)
<1>1. /\ job.op \in {"add", "remove"} /\ job.path # <<>>
      /\ \A o \in OutsOf(t) : spender[o] = None
      /\ credit' = Restored(t)
      /\ spender' = [o \in Outs |-> IF o \in In(t) THEN None ELSE spender[o]]
      /\ undo' = [undo EXCEPT ![t] = [o \in Outs |-> None]]
      /\ rbf' = rbf \ {t}
      /\ rec' = [rec EXCEPT ![t] = None]
      /\ RemoveBlockSlow(t, h)
      /\ job' = (IF k.op = "remove" /\ k.path = <<>> THEN Idle ELSE k)
  BY DEF Erase, Top, Shorter
<1>2. job \in Job /\ job.op \in {"add", "unconfirm", "remove"} /\ job.path \in Seq(Wtx) /\ Underway
  BY <1>1, EraseFinds
<1>5. t \in Txs /\ h \in Heights \cup {Unconfirmed}
  BY <1>1, EraseFinds
<1>6. rec[t] \in {h, None} /\ (rec[t] = None => \A o \in In(t) : spender[o] = None)
  BY <1>1, EraseFinds
<1>8. /\ k \in Job /\ k.op = job.op /\ k.tx = job.tx /\ k.height = job.height
      /\ Pend(k) = Pend(Shorter)
      /\ k.path = <<>> => k.roots = {}
  <2>1. /\ Shorter \in Job /\ Shorter.op = job.op /\ Shorter.tx = job.tx
        /\ Shorter.height = job.height
    BY <1>1, EraseFinds
  <2> QED
    BY <1>1, <2>1, RemovingKeeps
<1>9. Pend(job) = Pend(Shorter) \cup {Top}
  BY <1>1, EraseFinds
<1> HIDE DEF t, h, k
<1>10. Records'
  BY <1>1, <1>5, <1>6, EraseRecords
<1>11. Balances'
  <2> DEFINE back == HasUndo(t)
             mine == MyOuts(t)
             bal == Coins(state, back, mine)
             bal2 == IF h = Unconfirmed THEN bal ELSE Mined(bal, back, mine)
  <2>1. R' = [bal2 EXCEPT !.tx = @ - 1] /\ state' = R'
    BY DEF Erase, Commit, t, h, Top
  <2>2. back \in SUBSET Outs /\ mine \in SUBSET Outs /\ IsFiniteSet(back) /\ IsFiniteSet(mine)
    <3>1. back \subseteq In(t)
      BY DEF HasUndo
    <3> HIDE DEF back
    <3> QED
      BY <1>5, <3>1, FiniteParts, FS_Subset
  <2>3. state \in Balance
    BY DEF Balances
  <2> HIDE DEF back, mine
  <2>4. bal \in Balance
    BY <2>2, <2>3, BalanceEdits
  <2> HIDE DEF bal
  <2>5. bal2 \in Balance
    BY <2>2, <2>4, BalanceEdits
  <2> HIDE DEF bal2
  <2>8. R' \in Balance
    BY <2>1, <2>5, CountEdits
  <2> QED
    BY <2>1, <2>8 DEF Balances
<1>12. JobOK'
  <2>1. CASE k.op = "remove" /\ k.path = <<>>
    BY <1>1, <2>1, JobEnds
  <2>2. CASE ~(k.op = "remove" /\ k.path = <<>>)
    <3>1. job' = k /\ Pend(job)' = Pend(Shorter)
      BY <1>1, <1>8, <2>2 DEF Pend
    <3>2. /\ \A u \in Txs : u # t => rec'[u] = rec[u]
          /\ rec'[t] = None
          /\ \A o \in Outs : spender'[o] \in {None, spender[o]}
          /\ \A o \in In(t) : o \in Outs /\ spender'[o] = None
          /\ \A o \in Outs : o \notin In(t) => spender'[o] = spender[o]
      BY <1>1, <1>5, NotOwn DEF Records, RecordTypes
    <3>3. \A x \in Pend(job) : x.tx \in Txs
      <4>1. job.roots \in SUBSET (Nat \X Wtx)
        BY <1>2, JobFields
      <4>2. \A x \in Range(job.path) : x \in Wtx
        BY <1>2, LenProperties, ElementOfSeq DEF Range
      <4>3. \A x \in Pend(job) : x \in Wtx
        BY <4>1, <4>2 DEF Pend
      <4> QED
        BY <4>3 DEF Wtx
    <3>4. ASSUME NEW x \in Pend(Shorter)
          PROVE  /\ rec'[x.tx] \in {x.height, None}
                 /\ rec'[x.tx] = None => \A o \in In(x.tx) : spender'[o] = None
      <4>1. /\ x.tx \in Txs
            /\ rec[x.tx] \in {x.height, None}
            /\ rec[x.tx] = None => \A o \in In(x.tx) : spender[o] = None
        BY <1>2, <1>9, <3>3 DEF JobOK
      <4>2. CASE x.tx = t
        BY <3>2, <4>2
      <4>3. CASE x.tx # t
        <5>1. rec'[x.tx] = rec[x.tx] /\ \A o \in In(x.tx) : o \in Outs
          BY <3>2, <4>1, <4>3, NotOwn
        <5> QED
          BY <3>2, <4>1, <5>1
      <4> QED
        BY <4>2, <4>3
    <3>5. ASSUME job.op = "add", NEW o \in In(job.tx)
          PROVE  spender'[o] \in {None, job.tx} \/ \E x \in Pend(Shorter) : x.tx = spender'[o]
      <4>1. job.tx \in Txs /\ o \in Outs
        BY <1>2, <3>5, JobFields, NotOwn
      <4>2. spender[o] \in {None, job.tx} \/ \E x \in Pend(job) : x.tx = spender[o]
        BY <1>1, <1>2, <3>5 DEF JobOK
      <4>3. CASE o \in In(t)
        BY <3>2, <4>3
      <4>4. CASE o \notin In(t)
        <5>1. spender'[o] = spender[o] /\ spender[o] # t
          BY <1>5, <3>2, <4>1, <4>4 DEF Records, Spends
        <5>2. \A x \in Pend(job) : x.tx = spender[o] => x \in Pend(Shorter)
          BY <1>9, <5>1 DEF t
        <5> QED
          BY <4>2, <5>1, <5>2
      <4> QED
        BY <4>3, <4>4
    <3>6. job'.path = <<>> => job'.roots = {}
      BY <1>8, <3>1
    <3>7. job' \in Job /\ job'.op # "unconfirm" /\ job'.op = job.op /\ job'.tx = job.tx
      BY <1>1, <1>8, <3>1
    <3> QED
      BY <3>1, <3>4, <3>5, <3>6, <3>7 DEF JobOK
  <2> QED
    BY <2>1, <2>2
<1> QED
  BY <1>10, <1>11, <1>12

LEMMA InsertKeeps ==
  ASSUME Records, JobOK, Balances, InsertTX
  PROVE  Records' /\ JobOK' /\ Balances'
<1> USE Sentinels
<1>1. /\ job.op = "add" /\ job.path = <<>> /\ rec[job.tx] = None /\ job' = Idle
      /\ Removes(job.tx, job.height)
  BY DEF InsertTX, Inserting, Working, Removes, Done
<1>2. job \in Job /\ job.tx \in Txs /\ job.height \in Heights \cup {Unconfirmed} /\ Underway
  BY <1>1, JobFields DEF JobOK, Underway
<1>3. Pend(job) = {}
  <2>1. job.roots = {}
    BY <1>1, <1>2 DEF JobOK
  <2> QED
    BY <1>1, <2>1 DEF Pend, Range
<1>4. \A o \in In(job.tx) : spender[o] \in {None, job.tx}
  BY <1>1, <1>2, <1>3 DEF JobOK
<1>5. Records'
  BY <1>2, <1>4, InsertRecords
<1>6. Balances'
  <2> DEFINE t == job.tx
             h == job.height
             spent == Spendable(t)
             resolved == Resolved(t)
             new == MyOuts(t) \ resolved
             pending == {o \in resolved : rec[spender[o]] = Unconfirmed}
             bal0 == Coins(state, new, spent)
             bal == [bal0 EXCEPT !.tx = @ + 1]
  <2>1. state' = R' /\ (R' = bal \/ R' = Mined(bal, new \cup pending, spent))
    <3>1. IF h = Unconfirmed THEN Commit(bal) ELSE Commit(Mined(bal, new \cup pending, spent))
      BY DEF InsertTX
    <3> HIDE DEF bal, new, pending, spent
    <3> QED
      BY <3>1 DEF Commit
  <2>2. /\ spent \in SUBSET Outs /\ IsFiniteSet(spent) /\ new \in SUBSET Outs /\ IsFiniteSet(new)
        /\ new \cup pending \in SUBSET Outs /\ IsFiniteSet(new \cup pending)
    <3>1. spent \subseteq In(t)
      BY DEF Spendable
    <3>2. new \subseteq MyOuts(t) /\ new \cup pending \subseteq MyOuts(t)
      BY DEF Resolved
    <3> HIDE DEF spent, new, pending
    <3> QED
      BY <1>2, <3>1, <3>2, FiniteParts, FS_Subset
  <2> DEFINE both == new \cup pending
  <2>3. R' = bal \/ R' = Mined(bal, both, spent)
    BY <2>1
  <2>4. both \in SUBSET Outs /\ IsFiniteSet(both)
    BY <2>2
  <2> HIDE DEF spent, new, both
  <2>5. bal0 \in Balance
    BY <2>2, BalanceEdits DEF Balances
  <2> HIDE DEF bal0
  <2>7. bal \in Balance
    BY <2>5, CountEdits
  <2> HIDE DEF bal
  <2>8. Mined(bal, both, spent) \in Balance
    BY <2>2, <2>4, <2>7, BalanceEdits
  <2> QED
    BY <2>1, <2>3, <2>7, <2>8 DEF Balances
<1> QED
  BY <1>1, <1>5, <1>6, JobEnds

LEMMA ConfirmKeeps ==
  ASSUME Records, JobOK, Balances, ConfirmTX
  PROVE  Records' /\ JobOK' /\ Balances'
<1> USE Sentinels
<1>1. job.op = "add" /\ rec[job.tx] = Unconfirmed /\ job' = Idle
  BY DEF ConfirmTX, Confirming, Working, Done
<1>2. job.tx \in Txs /\ job.height \in Heights \cup {Unconfirmed}
  BY <1>1, JobFields DEF JobOK
<1>3. Records'
  BY <1>2, ConfirmRecords
<1>4. Balances'
  <2> DEFINE t == job.tx
             mine == MyOuts(t)
             late == Late(t)
             gone == HasUndo(t) \cup late
             bal == Coins(state, {}, late)
  <2>1. state' = R' /\ R' = Mined(bal, mine, gone)
    BY DEF ConfirmTX, Commit
  <2>2. /\ late \in SUBSET Outs /\ IsFiniteSet(late) /\ gone \in SUBSET Outs /\ IsFiniteSet(gone)
        /\ mine \in SUBSET Outs /\ IsFiniteSet(mine)
    <3>1. late \subseteq In(t) /\ gone \subseteq In(t)
      BY DEF Late, HasUndo
    <3> HIDE DEF late, gone
    <3> QED
      BY <1>2, <3>1, FiniteParts, FS_Subset
  <2> HIDE DEF late, gone, mine
  <2>3. bal \in Balance
    BY <2>2, BalanceEdits, FS_EmptySet DEF Balances
  <2> HIDE DEF bal
  <2> QED
    BY <2>1, <2>2, <2>3, BalanceEdits DEF Balances
<1> QED
  BY <1>1, <1>3, <1>4, JobEnds

LEMMA DisconnectKeeps ==
  ASSUME Records, JobOK, Balances, DisconnectTX
  PROVE  Records' /\ JobOK' /\ Balances'
<1>1. job.op = "unconfirm" /\ job' = Idle
  BY DEF DisconnectTX, Disconnecting, Working, Done
<1>2. job.tx \in Txs
  BY <1>1, JobFields DEF JobOK
<1>3. Records'
  BY <1>2, DisconnectRecords
<1>4. Balances'
  <2> DEFINE t == job.tx
             back == HasUndo(t)
             kept == MyOuts(t) \cap Credits
  <2>1. state' = R' /\ R' = Mined(state, back, kept)
    BY DEF DisconnectTX, Commit
  <2>2. back \in SUBSET Outs /\ IsFiniteSet(back) /\ kept \in SUBSET Outs /\ IsFiniteSet(kept)
    <3>1. back \subseteq In(t) /\ kept \subseteq MyOuts(t)
      BY DEF HasUndo
    <3> HIDE DEF back, kept
    <3> QED
      BY <1>2, <3>1, FiniteParts, FS_Subset
  <2> HIDE DEF back, kept
  <2> QED
    BY <2>1, <2>2, BalanceEdits DEF Balances
<1> QED
  BY <1>1, <1>3, <1>4, JobEnds

(* The steps that leave a batch unwritten: the records, and the balance,   *)
(* are what they were.                                                     *)
LEMMA QuietKeeps ==
  ASSUME Records, Balances, UNCHANGED <<records, state>>
  PROVE  Records' /\ Balances'
BY RecordsStay DEF records, recordVars, Balances

LEMMA IndexKeeps ==
  ASSUME Records, JobOK, Balances, IndexRBF
  PROVE  Records' /\ JobOK' /\ Balances'
<1>1. /\ job.op = "add" /\ IsRBF(job.tx) /\ job' = Idle /\ rbf' = rbf \cup {job.tx}
      /\ UNCHANGED <<rec, credit, spender, undo, blocks, R, state>>
  BY DEF IndexRBF, Working, Done
<1>2. job.tx \in Txs
  BY <1>1, JobFields DEF JobOK
<1>3. job.tx \in Replaceable \cup {t \in Txs : \E o \in In(t) : Creator[o] # None}
  <2>1. \A u \in rbf : u # None
    BY Sentinels, TXAssumption DEF Records, RecordTypes
  <2> QED
    BY <1>1, <1>2, <2>1 DEF IsRBF
<1>4. RecordTypes'
  BY <1>1, <1>3 DEF Records, RecordTypes
<1>5. Records'
  BY <1>1, <1>4 DEF Records, Spends, CoinAgrees, KnownOut, InBlocks
<1> QED
  BY <1>1, <1>5, JobEnds DEF Balances

LEMMA StepKeeps ==
  ASSUME Records, JobOK, Balances, Step
  PROVE  Records' /\ JobOK' /\ Balances'
<1>1. CASE Descend
  BY <1>1, DescendKeeps, QuietKeeps DEF Descend
<1>2. CASE Erase
  BY <1>2, EraseKeeps
<1>3. CASE Ignore \/ Reject \/ NothingToUnconfirm
  BY <1>3, JobEnds, QuietKeeps DEF Ignore, Reject, NothingToUnconfirm, Done
<1>4. CASE IndexRBF
  BY <1>4, IndexKeeps
<1>5. CASE InsertTX
  BY <1>5, InsertKeeps
<1>6. CASE ConfirmTX
  BY <1>6, ConfirmKeeps
<1>7. CASE ConfirmThrows \/ DisconnectThrows
  <2>1. (job' = Idle \/ job' = [op |-> "threw"]) /\ UNCHANGED <<records, state>>
    BY <1>7 DEF ConfirmThrows, DisconnectThrows, Throws
  <2> QED
    BY <2>1, JobEnds, QuietKeeps
<1>8. CASE DisconnectTX
  BY <1>8, DisconnectKeeps
<1> QED
  BY <1>1, <1>2, <1>3, <1>4, <1>5, <1>6, <1>7, <1>8 DEF Step

-----------------------------------------------------------------------------
(* What the wallet database holds: notifications, its place in the chain,  *)
(* and the work it does.                                                   *)
Note ==
  [type : {"connect", "disconnect", "reset"}, block : Blocks]
  \cup [type : {"tx"}, tx : Relayed] \cup [type : {"rescan"}, height : Heights]

ConnectWork == [op : {"connect"}, block : Blocks \cup {None}, todo : Seq(Txs)]
DisconnectWork == [op : {"disconnect"}, prev : Blocks, todo : Seq(Txs)]
RevertWork == [op : {"revert"}, tip : Blocks, todo : Seq(Txs),
               reset : BOOLEAN, marked : BOOLEAN, scan : BOOLEAN]
ScanWork == [op : {"scan"}, block : Blocks \cup {None}, todo : Seq(Txs), rest : Seq(Blocks)]
Work == [op : {"none", "rescan"}] \cup ConnectWork \cup DisconnectWork \cup RevertWork \cup ScanWork

InChain ==
  /\ sync \in [height : Heights, marked : BOOLEAN, startHeight : Heights, start : Blocks]
  /\ hashes \in [Heights -> Blocks \cup {None}] /\ hashes[sync.height] # None

Queued == queue \in Seq(Note) /\ Len(queue) <= MaxQueue

WalletOK ==
  /\ main \in Seq(Blocks) /\ main # <<>>
  /\ Queued /\ InChain /\ work \in Work

WalletInv == Records /\ JobOK /\ Balances /\ WalletOK

LEMMA WorkFields ==
  ASSUME work \in Work
  PROVE  /\ work.op = "connect" => work \in ConnectWork
         /\ work.op = "disconnect" => work \in DisconnectWork
         /\ work.op = "revert" => work \in RevertWork
         /\ work.op = "scan" => work \in ScanWork
         /\ [op |-> "none"] \in Work /\ [op |-> "rescan"] \in Work
<1> DEFINE T == Seq(Txs)
           S == Seq(Blocks)
<1> HIDE DEF T, S
<1>1. \/ work \in [op : {"none", "rescan"}] \/ work \in [op : {"connect"}, block : Blocks \cup {None}, todo : T]
      \/ work \in [op : {"disconnect"}, prev : Blocks, todo : T]
      \/ work \in [op : {"revert"}, tip : Blocks, todo : T, reset : BOOLEAN, marked : BOOLEAN, scan : BOOLEAN]
      \/ work \in [op : {"scan"}, block : Blocks \cup {None}, todo : T, rest : S]
  BY DEF Work, ConnectWork, DisconnectWork, RevertWork, ScanWork, T, S
<1>2. /\ work.op = "connect" => work \in [op : {"connect"}, block : Blocks \cup {None}, todo : T]
      /\ work.op = "disconnect" => work \in [op : {"disconnect"}, prev : Blocks, todo : T]
      /\ work.op = "revert" =>
           work \in [op : {"revert"}, tip : Blocks, todo : T, reset : BOOLEAN, marked : BOOLEAN, scan : BOOLEAN]
      /\ work.op = "scan" => work \in [op : {"scan"}, block : Blocks \cup {None}, todo : T, rest : S]
  BY <1>1
<1>3. [op |-> "none"] \in [op : {"none", "rescan"}] /\ [op |-> "rescan"] \in [op : {"none", "rescan"}]
  OBVIOUS
<1> QED
  BY <1>2, <1>3 DEF Work, ConnectWork, DisconnectWork, RevertWork, ScanWork, T, S

(* The transactions left to do may be replaced by others.                  *)
LEMMA TodoEdits ==
  ASSUME work \in Work, work.op \in {"connect", "disconnect", "revert", "scan"}
  PROVE  work.todo \in Seq(Txs) /\ \A s \in Seq(Txs) : [work EXCEPT !.todo = s] \in Work
<1> DEFINE T == Seq(Txs)
           S == Seq(Blocks)
           C == [op : {"connect"}, block : Blocks \cup {None}, todo : T]
           D == [op : {"disconnect"}, prev : Blocks, todo : T]
           V == [op : {"revert"}, tip : Blocks, todo : T, reset : BOOLEAN, marked : BOOLEAN, scan : BOOLEAN]
           N == [op : {"scan"}, block : Blocks \cup {None}, todo : T, rest : S]
<1>1. work \in C \/ work \in D \/ work \in V \/ work \in N
  BY WorkFields DEF ConnectWork, DisconnectWork, RevertWork, ScanWork
<1>2. \A x : x \in C \/ x \in D \/ x \in V \/ x \in N => x \in Work
  BY DEF Work, ConnectWork, DisconnectWork, RevertWork, ScanWork
<1> HIDE DEF T, S
<1>3. work.todo \in T
  BY <1>1
<1>4. ASSUME NEW s \in T
      PROVE  \/ [work EXCEPT !.todo = s] \in C \/ [work EXCEPT !.todo = s] \in D
             \/ [work EXCEPT !.todo = s] \in V \/ [work EXCEPT !.todo = s] \in N
  <2>1. CASE work \in C
    BY <2>1
  <2>2. CASE work \in D
    BY <2>2
  <2>3. CASE work \in V
    BY <2>3
  <2>4. CASE work \in N
    BY <2>4
  <2> QED
    BY <1>1, <2>1, <2>2, <2>3, <2>4
<1> HIDE DEF C, D, V, N
<1> QED
  BY <1>2, <1>3, <1>4 DEF T

LEMMA ScanEdits ==
  ASSUME work \in Work, work.op = "scan"
  PROVE  /\ work.rest \in Seq(Blocks)
         /\ \A r \in Seq(Blocks) :
              /\ [work EXCEPT !.rest = r] \in Work
              /\ \A b \in Blocks, s \in Seq(Txs) :
                   [work EXCEPT !.rest = r, !.block = b, !.todo = s] \in Work
<1> DEFINE T == Seq(Txs)
           S == Seq(Blocks)
           N == [op : {"scan"}, block : Blocks \cup {None}, todo : T, rest : S]
<1>1. work \in N
  BY WorkFields DEF ScanWork
<1>2. \A x \in N : x \in Work
  BY DEF Work, ScanWork
<1> HIDE DEF T, S
<1>3. /\ work.rest \in S
      /\ \A r \in S :
           /\ [work EXCEPT !.rest = r] \in N
           /\ \A b \in Blocks, s \in T : [work EXCEPT !.rest = r, !.block = b, !.todo = s] \in N
  BY <1>1
<1> HIDE DEF N
<1> QED
  BY <1>2, <1>3 DEF T, S

(* The wallet moves to another block.                                      *)
LEMMA SyncKeeps ==
  ASSUME InChain, NEW b \in Blocks, SyncState(b)
  PROVE  InChain'
<1>1. Height[b] \in Heights /\ None \notin Blocks
  BY WalletAssumption
<1> DEFINE h == Height[b]
           gone == IF h < sync.height
                   THEN {k \in Heights : k > h /\ k > sync.height - KeepBlocks /\ k <= sync.height}
                   ELSE IF h > sync.height THEN OutOfReach(h) ELSE {}
<1>2. /\ hashes' = [k \in Heights |-> IF k = h THEN b ELSE IF k \in gone THEN None ELSE hashes[k]]
      /\ sync' = [sync EXCEPT !.height = h]
  BY DEF SyncState
<1> HIDE DEF gone
<1> QED
  BY <1>1, <1>2 DEF InChain

LEMMA ResetKeeps ==
  ASSUME NEW b \in Blocks, NEW m \in BOOLEAN, ResetState(b, m)
  PROVE  InChain'
BY WalletAssumption DEF ResetState, InChain

LEMMA RollbackIsWork ==
  ASSUME InChain, blocks \in [Heights -> Seq(Txs)], NEW h \in Heights, NEW after
  PROVE  Rollback(h, after) \in Work
<1> DEFINE to == IF hashes[h] # None THEN hashes[h]
                 ELSE IF h >= sync.startHeight THEN sync.start ELSE Start
           todo == Above[Height[to] + 1]
           reset == hashes[h] = None
           marked == hashes[h] = None /\ h >= sync.startHeight /\ sync.marked
           scan == after = "scan" \/ (after = "scan if lost" /\ hashes[h] = None)
<1>1. to \in Blocks
  BY WalletAssumption DEF InChain
<1>2. Height[to] + 1 \in 0..(MaxHeight + 1)
  <2>1. Height[to] \in 0..MaxHeight /\ MaxHeight \in Nat
    BY <1>1, WalletAssumption, TXAssumption DEF Heights
  <2> HIDE DEF to
  <2> QED
    BY <2>1
<1> HIDE DEF to
<1>3. todo \in Seq(Txs)
  BY <1>2, AboveTodo
<1>4. reset \in BOOLEAN /\ scan \in BOOLEAN /\ marked \in BOOLEAN
  BY DEF InChain
<1>5. Rollback(h, after) = [op |-> "revert", tip |-> to, todo |-> todo, reset |-> reset,
                            marked |-> marked, scan |-> scan]
  BY DEF Rollback, to
<1> HIDE DEF todo, reset, marked, scan
<1>6. Rollback(h, after) \in RevertWork
  <2> DEFINE T == Seq(Txs)
  <2>1. todo \in T
    BY <1>3
  <2>2. RevertWork = [op : {"revert"}, tip : Blocks, todo : T, reset : BOOLEAN,
                      marked : BOOLEAN, scan : BOOLEAN]
    BY DEF RevertWork
  <2> HIDE DEF T
  <2> QED
    BY <1>1, <1>4, <1>5, <2>1, <2>2
<1> QED
  BY <1>6 DEF Work

LEMMA ScanIsWork ==
  ASSUME WalletOK, blocks \in [Heights -> Seq(Txs)], NEW h \in Heights
  PROVE  Scan(h) \in Work
BY RollbackIsWork, WorkFields DEF Scan, WalletOK

(* Where the next start finds the chain again.                             *)
LEMMA CommonIsHeight ==
  ASSUME WalletOK
  PROVE  Common \in Heights
<1> DEFINE stops == {h \in 0..sync.height : hashes[h] = None \/ OnMain(hashes[h])}
           h == IF stops = {} THEN 0 ELSE Max(stops)
<1>1. sync.height \in 0..MaxHeight /\ sync.height \in Nat
      /\ sync.startHeight \in Heights /\ MaxHeight \in Nat
  BY TXAssumption DEF WalletOK, InChain, Heights
<1>2. stops \in SUBSET (0..sync.height)
  OBVIOUS
<1>3. Common \in {h, sync.startHeight, 0}
  BY DEF Common
<1> HIDE DEF stops
<1>4. h \in 0..sync.height
  <2>1. CASE stops = {}
    BY <1>1, <2>1
  <2>2. CASE stops # {}
    <3>1. Max(stops) \in stops
      BY <1>1, <1>2, <2>2, MaxIsIn
    <3> QED
      BY <1>2, <2>2, <3>1
  <2> QED
    BY <2>1, <2>2
<1> HIDE DEF h
<1> QED
  BY <1>1, <1>3, <1>4 DEF Heights

-----------------------------------------------------------------------------
(* The steps of the wallet database and of the node.                       *)
LEMMA InitOK ==
  ASSUME Init
  PROVE  WalletInv
<1> USE Sentinels
<1> DEFINE txs == IF Marked THEN BlockTxs[Start] ELSE <<>>
           confirmed == Range(txs)
<1>1. txs \in Seq(Txs) /\ IsInjective(txs) /\ \A t \in confirmed : t \in Txs /\ In(t) = {}
  <2>1. CASE Marked
    <3>1. BlockTxs[Start] \in Seq(Txs) /\ IsInjective(BlockTxs[Start])
          /\ \A t \in Range(BlockTxs[Start]) : In(t) = {}
      BY WalletAssumption
    <3>2. \A t \in Range(BlockTxs[Start]) : t \in Txs
      BY <3>1, ElementOfSeq, LenProperties DEF Range
    <3> QED
      BY <2>1, <3>1, <3>2
  <2>2. CASE ~Marked
    BY <2>2, EmptySeq DEF Range, IsInjective
  <2> QED
    BY <2>1, <2>2
<1>2. InitWith(txs)
  BY DEF Init
<1> HIDE DEF txs
<1>3. 0 \in Heights /\ MaxHeight \in Nat /\ Mine \subseteq Outs /\ Creator \in [Outs -> Txs \cup {None}]
  BY TXAssumption DEF Heights
<1>4. /\ rec = [t \in Txs |-> IF t \in confirmed THEN 0 ELSE None]
      /\ credit = [o \in Outs |-> IF o \in Mine /\ Creator[o] \in confirmed
                                  THEN [height |-> 0, spent |-> FALSE] ELSE None]
      /\ spender = [o \in Outs |-> None]
      /\ undo = [t \in Txs |-> [o \in Outs |-> None]]
      /\ rbf = {}
      /\ blocks = [h \in Heights |-> IF h = 0 THEN txs ELSE <<>>]
      /\ state = [tx |-> Cardinality(confirmed), coin |-> Cardinality(Credits),
                  unconfirmed |-> Total(Credits), confirmed |-> Total(Credits)]
      /\ R = state /\ job = Idle
  BY <1>2 DEF InitWith
<1>5. RecordTypes
  <2>1. <<>> \in Seq(Txs) /\ [height |-> 0, spent |-> FALSE] \in Credit
    BY <1>3, EmptySeq DEF Credit
  <2> HIDE DEF confirmed
  <2> QED
    BY <1>1, <1>3, <1>4, <2>1 DEF RecordTypes
<1>6. Spends
  <2> HIDE DEF confirmed
  <2> QED
    BY <1>1, <1>4 DEF Spends
<1>7. ASSUME NEW o \in Mine PROVE CoinAgrees(o)
  <2>0. [height |-> 0, spent |-> FALSE] \in Credit
    BY <1>3 DEF Credit
  <2>1. o \in Outs /\ Creator[o] \in Txs \cup {None} /\ [height |-> 0, spent |-> FALSE] # None
    BY <1>3, <2>0
  <2>2. None \notin confirmed
    BY <1>1
  <2> HIDE DEF confirmed
  <2> QED
    BY <1>1, <1>3, <1>4, <2>1, <2>2 DEF CoinAgrees, KnownOut
<1>8. InBlocks
  <2>1. IsInjective(<<>>) /\ Range(<<>>) = {}
    BY DEF IsInjective, Range
  <2>2. \A h \in Heights : (h = 0 => blocks[h] = txs) /\ (h # 0 => blocks[h] = <<>>)
    BY <1>4
  <2>3. blocks[0] = txs
    BY <1>3, <1>4
  <2> HIDE DEF confirmed
  <2>4. \A h \in Heights, t \in Txs : rec[t] = h <=> h = 0 /\ t \in confirmed
    BY <1>3, <1>4
  <2> QED
    BY <1>1, <2>1, <2>2, <2>3, <2>4, <1>4 DEF InBlocks, confirmed
<1>9. IsFiniteSet(confirmed)
  <2>1. Len(txs) \in Nat /\ DOMAIN txs = 1..Len(txs)
    BY <1>1, LenProperties
  <2>2. IsFiniteSet(1..Len(txs))
    BY <2>1, FS_Interval
  <2> DEFINE f == [i \in 1..Len(txs) |-> txs[i]]
  <2>3. f \in Surjection(1..Len(txs), confirmed)
    BY <2>1 DEF Surjection, Range
  <2> HIDE DEF f, confirmed
  <2> QED
    BY <2>2, <2>3, FS_Surjection
<1>10. IsFiniteSet(Credits) /\ Credits \in SUBSET Outs
       /\ Cardinality(Known) = Cardinality(confirmed)
  <2> DEFINE made == {MyOuts(t) : t \in confirmed}
             all == UNION made
             f == [t \in confirmed |-> MyOuts(t)]
  <2>1. f \in Surjection(confirmed, made)
    BY DEF Surjection
  <2>2. \A S \in made : IsFiniteSet(S)
    BY <1>1, FiniteParts
  <2>3. Credits \subseteq all
    BY <1>4 DEF Credits, MyOuts, OutsOf
  <2>4. Known = confirmed
    <3>1. \A t \in confirmed : t \in Txs
      BY <1>1
    <3> HIDE DEF confirmed
    <3> QED
      BY <1>3, <1>4, <3>1 DEF Known
  <2> HIDE DEF f, made
  <2>5. IsFiniteSet(made)
    <3> HIDE DEF confirmed
    <3> QED
      BY <1>9, <2>1, FS_Surjection
  <2>6. IsFiniteSet(all)
    BY <2>2, <2>5, FS_UNION
  <2>7. IsFiniteSet(Credits)
    <3> HIDE DEF all
    <3> QED
      BY <2>3, <2>6, FS_Subset
  <2> QED
    BY <2>4, <2>7 DEF Credits
<1>11. Balances
  <2>1. Cardinality(confirmed) \in Nat /\ Cardinality(Credits) \in Nat /\ Total(Credits) \in Nat
    BY <1>9, <1>10, FS_CardinalityType, TotalNat
  <2> HIDE DEF confirmed
  <2> QED
    BY <1>4, <2>1 DEF Balances, Balance
<1>12. JobOK
  BY <1>4 DEF JobOK, Job, Underway, Idle
<1>13. WalletOK
  <2>1. /\ main = <<Start>> /\ queue = <<>> /\ work = NoWork
        /\ sync = [height |-> 0, marked |-> Marked, startHeight |-> 0, start |-> Start]
        /\ hashes = [h \in Heights |-> IF h = 0 THEN Start ELSE None]
    BY <1>2 DEF InitWith
  <2>2. Start \in Blocks /\ None \notin Blocks /\ Marked \in BOOLEAN /\ MaxQueue \in Nat
    BY WalletAssumption
  <2>3. main \in Seq(Blocks) /\ main # <<>>
    BY <2>1, <2>2, RangeOfOne
  <2>4. Queued
    BY <2>1, <2>2, EmptySeq DEF Queued
  <2>5. InChain
    BY <1>3, <2>1, <2>2 DEF InChain
  <2>6. work \in Work
    BY <2>1 DEF NoWork, Work
  <2> QED
    BY <2>3, <2>4, <2>5, <2>6 DEF WalletOK
<1> QED
  BY <1>5, <1>6, <1>7, <1>8, <1>11, <1>12, <1>13 DEF WalletInv, Records

(* Notifications come to the end of the queue and leave from its front.    *)
LEMMA NotifyKeeps ==
  ASSUME Queued, NEW n \in Note, Notify(n)
  PROVE  Queued'
<1>1. Len(queue) \in Nat /\ MaxQueue \in Nat
  BY WalletAssumption, LenProperties DEF Queued
<1>2. Append(queue, n) \in Seq(Note) /\ Len(Append(queue, n)) = Len(queue) + 1
  BY AppendProperties DEF Queued
<1> QED
  BY <1>1, <1>2 DEF Notify, Queued

LEMMA TakeKeeps ==
  ASSUME Queued, Take
  PROVE  Queued' /\ Taken \in Note
<1>1. queue \in Seq(Note) /\ queue # <<>> /\ queue' = Tail(queue) /\ Len(queue) <= MaxQueue
  BY DEF Queued, Take
<1>2. Head(queue) \in Note /\ Tail(queue) \in Seq(Note) /\ Len(Tail(queue)) = Len(queue) - 1
  BY <1>1, HeadTailProperties
<1>3. Len(queue) \in Nat /\ MaxQueue \in Nat
  BY <1>1, WalletAssumption, LenProperties
<1> QED
  BY <1>1, <1>2, <1>3 DEF Queued, Taken

LEMMA NoteFields ==
  ASSUME NEW n \in Note
  PROVE  /\ n.type \in {"connect", "disconnect", "reset"} => n.block \in Blocks
         /\ n.type = "tx" => n.tx \in Txs
         /\ n.type = "rescan" => n.height \in Heights
BY WalletAssumption DEF Note

(* What does not touch the database of transactions keeps its part.        *)
LEMMA RestStays ==
  ASSUME Records, JobOK, Balances, UNCHANGED vars
  PROVE  Records' /\ JobOK' /\ Balances'
<1>1. Records' /\ Balances'
  BY QuietKeeps DEF vars, records
<1>2. JobOK'
  BY DEF vars, JobOK, Underway, Pend, Removes, IsRBF, ConfirmedConflict, Conflicts
<1> QED
  BY <1>1, <1>2

LEMMA NodeKeeps ==
  ASSUME WalletInv, NodeStep
  PROVE  WalletInv'
<1>0. main \in Seq(Blocks) /\ main # <<>> /\ Queued /\ InChain /\ work \in Work
  BY DEF WalletInv, WalletOK
<1>1. UNCHANGED <<vars, phase, sync, hashes, work>>
  BY DEF NodeStep, Connect, ChainReset, Disconnect, Relay
<1>2. Len(main) \in Nat /\ DOMAIN main = 1..Len(main) /\ \A i \in 1..Len(main) : main[i] \in Blocks
  BY <1>0, LenProperties, ElementOfSeq
<1>3. main' \in Seq(Blocks) /\ main' # <<>> /\ Queued'
  <2>1. ASSUME NEW b \in Blocks, Connect(b) PROVE main' \in Seq(Blocks) /\ main' # <<>> /\ Queued'
    <3>1. main' \in Seq(Blocks) /\ Len(main') = Len(main) + 1
      BY <1>0, <2>1, AppendProperties DEF Connect
    <3>2. main' # <<>>
      BY <1>2, <3>1, EmptySeq
    <3>3. [type |-> "connect", block |-> b] \in Note
      BY DEF Note
    <3>4. Notify([type |-> "connect", block |-> b])
      BY <2>1 DEF Connect
    <3> QED
      BY <1>0, <3>1, <3>2, <3>3, <3>4, NotifyKeeps
  <2>2. ASSUME NEW b \in Blocks, ChainReset(b) PROVE main' \in Seq(Blocks) /\ main' # <<>> /\ Queued'
    <3>1. PICK n \in DOMAIN main : main' = SubSeq(main, 1, n)
      BY <2>2 DEF ChainReset
    <3>2. main' \in Seq(Blocks) /\ Len(main') = n
      <4>1. n \in 1..Len(main) /\ \A i \in 1..n : main[i] \in Blocks
        BY <1>2, <3>1
      <4>2. /\ SubSeq(main, 1, n) \in Seq(Blocks)
            /\ Len(SubSeq(main, 1, n)) = IF 1 <= n THEN n - 1 + 1 ELSE 0
        BY <1>2, <4>1, SubSeqProperties
      <4> QED
        BY <1>2, <3>1, <4>1, <4>2
    <3>3. main' # <<>>
      BY <1>2, <3>2, EmptySeq
    <3>4. [type |-> "reset", block |-> b] \in Note
      BY DEF Note
    <3>5. Notify([type |-> "reset", block |-> b])
      BY <2>2 DEF ChainReset
    <3> QED
      BY <1>0, <3>2, <3>3, <3>4, <3>5, NotifyKeeps
  <2>3. ASSUME Disconnect PROVE main' \in Seq(Blocks) /\ main' # <<>> /\ Queued'
    <3>1. main' = Front(main) /\ Len(main) > 1
      BY <2>3 DEF Disconnect
    <3>2. main' \in Seq(Blocks) /\ Len(main') = Len(main) - 1 /\ Tip \in Blocks
      <4>1. Last(main) \in Range(main) /\ Front(main) \in Seq(Blocks)
            /\ Len(Front(main)) = Len(main) - 1
        BY <1>0, FrontOnce
      <4> QED
        BY <1>2, <3>1, <4>1 DEF Tip, Range
    <3>3. main' # <<>>
      BY <1>2, <3>1, <3>2, EmptySeq
    <3>4. [type |-> "disconnect", block |-> Tip] \in Note
      BY <3>2 DEF Note
    <3>5. Notify([type |-> "disconnect", block |-> Tip])
      BY <2>3 DEF Disconnect
    <3> QED
      BY <1>0, <3>2, <3>3, <3>4, <3>5, NotifyKeeps
  <2>4. ASSUME NEW t \in Relayed, Relay(t) PROVE main' \in Seq(Blocks) /\ main' # <<>> /\ Queued'
    <3>1. main' = main /\ Notify([type |-> "tx", tx |-> t])
      BY <2>4 DEF Relay
    <3>2. [type |-> "tx", tx |-> t] \in Note
      BY DEF Note
    <3> QED
      BY <1>0, <3>1, <3>2, NotifyKeeps
  <2> QED
    BY <2>1, <2>2, <2>3, <2>4 DEF NodeStep
<1>4. WalletOK'
  BY <1>0, <1>1, <1>3 DEF WalletOK, InChain
<1> QED
  BY <1>1, <1>4, RestStays DEF WalletInv

(* A notification is taken.                                                *)
LEMMA TakenKeeps ==
  ASSUME WalletInv, ConnectBlock \/ AddTX \/ RemoveBlock \/ RollBack \/ StartRescan \/ Drop
  PROVE  WalletInv'
<1>0. main \in Seq(Blocks) /\ main # <<>> /\ Queued /\ InChain /\ work \in Work
      /\ blocks \in [Heights -> Seq(Txs)] /\ WalletOK
  BY DEF WalletInv, WalletOK, Records, RecordTypes
<1>1. Take /\ UNCHANGED <<vars, main, phase>>
  BY DEF ConnectBlock, AddTX, RemoveBlock, RollBack, StartRescan, Drop
<1>2. Queued' /\ Taken \in Note
  BY <1>0, <1>1, TakeKeeps
<1>3. InChain' /\ work' \in Work
  <2>1. CASE ConnectBlock
    <3>1. /\ SyncState(Taken.block) /\ Taken.type = "connect"
          /\ work' = [op |-> "connect", block |-> Taken.block, todo |-> BlockTxs[Taken.block]]
      BY <2>1 DEF ConnectBlock
    <3>2. Taken.block \in Blocks /\ BlockTxs[Taken.block] \in Seq(Txs)
      BY <1>2, <3>1, NoteFields, WalletAssumption
    <3>3. work' \in ConnectWork
      BY <3>1, <3>2 DEF ConnectWork
    <3> QED
      BY <1>0, <3>1, <3>2, <3>3, SyncKeeps DEF Work
  <2>2. CASE AddTX
    <3>1. /\ Taken.type = "tx" /\ work' = [op |-> "connect", block |-> None, todo |-> <<Taken.tx>>]
          /\ UNCHANGED <<sync, hashes>>
      BY <2>2 DEF AddTX
    <3>2. <<Taken.tx>> \in Seq(Txs)
      BY <1>2, <3>1, NoteFields, RangeOfOne
    <3>3. work' \in ConnectWork
      BY <3>1, <3>2 DEF ConnectWork
    <3> QED
      BY <1>0, <3>1, <3>3 DEF Work, InChain
  <2>3. CASE RemoveBlock
    <3>1. /\ Taken.type = "disconnect" /\ Removable(Taken.block)
          /\ work' = [op |-> "disconnect", prev |-> hashes[Height[Taken.block] - 1],
                      todo |-> Backwards(blocks[Height[Taken.block]])]
          /\ UNCHANGED <<sync, hashes>>
      BY <2>3 DEF RemoveBlock
    <3> DEFINE h == Height[Taken.block]
               back == Backwards(blocks[h])
    <3>2. h \in Heights /\ h - 1 \in Heights /\ hashes[h - 1] # None
      <4>1. Taken.block \in Blocks
        BY <1>2, <3>1, NoteFields
      <4>2. h \in 0..MaxHeight /\ MaxHeight \in Nat /\ h > 0 /\ hashes[h - 1] # None
        BY <3>1, <4>1, WalletAssumption, TXAssumption DEF Removable, Heights
      <4> HIDE DEF h
      <4> QED
        BY <4>2 DEF Heights
    <3>3. hashes[h - 1] \in Blocks
      BY <1>0, <3>2 DEF InChain
    <3>4. back \in Seq(Txs)
      BY <1>0, <3>2, BackwardsIsSeq
    <3>5. work' = [op |-> "disconnect", prev |-> hashes[h - 1], todo |-> back]
      BY <3>1
    <3> HIDE DEF h, back
    <3>6. work' \in DisconnectWork
      BY <3>3, <3>4, <3>5 DEF DisconnectWork
    <3> QED
      BY <1>0, <3>1, <3>6 DEF Work, InChain
  <2>4. CASE RollBack
    <3>1. /\ Taken.type = "reset" /\ work' = Rollback(Height[Taken.block], "scan if lost")
          /\ UNCHANGED <<sync, hashes>>
      BY <2>4 DEF RollBack
    <3>2. Height[Taken.block] \in Heights
      BY <1>2, <3>1, NoteFields, WalletAssumption
    <3> QED
      BY <1>0, <3>1, <3>2, RollbackIsWork DEF InChain
  <2>5. CASE StartRescan
    <3>1. Taken.type = "rescan" /\ work' = Scan(Taken.height) /\ UNCHANGED <<sync, hashes>>
      BY <2>5 DEF StartRescan
    <3>2. Taken.height \in Heights
      BY <1>2, <3>1, NoteFields
    <3> QED
      BY <1>0, <3>1, <3>2, ScanIsWork DEF InChain
  <2>6. CASE Drop
    BY <1>0, <2>6 DEF Drop, InChain
  <2> QED
    BY <2>1, <2>2, <2>3, <2>4, <2>5, <2>6
<1>4. WalletOK'
  BY <1>0, <1>1, <1>2, <1>3 DEF WalletOK
<1> QED
  BY <1>1, <1>4, RestStays DEF WalletInv

(* The work goes on: transactions are handed to the wallet.                *)
LEMMA HandedKeeps ==
  ASSUME WalletInv, Skip \/ MaybeMark \/ Insert \/ UnconfirmNext
  PROVE  WalletInv'
<1>0. /\ main \in Seq(Blocks) /\ main # <<>> /\ Queued /\ InChain /\ work \in Work
      /\ Records /\ JobOK /\ Balances
  BY DEF WalletInv, WalletOK
<1>1. /\ work.op \in {"connect", "disconnect", "revert", "scan"} /\ work.todo # <<>>
      /\ UNCHANGED <<main, queue, phase>>
  BY DEF Skip, MaybeMark, Insert, UnconfirmNext, Inserts
<1>2. /\ Head(work.todo) \in Txs /\ Tail(work.todo) \in Seq(Txs)
      /\ [work EXCEPT !.todo = Tail(work.todo)] \in Work
  BY <1>0, <1>1, TodoEdits, TailIsSeq
<1>3. Queued'
  BY <1>0, <1>1 DEF Queued
<1>4. InChain' /\ work' \in Work
  <2>1. CASE Skip \/ Insert \/ UnconfirmNext
    BY <1>0, <1>2, <2>1 DEF Skip, Insert, UnconfirmNext, NextTodo, InChain
  <2>2. CASE MaybeMark
    <3>1. ResetState(work.block, TRUE) /\ work' = work /\ work.block # None /\ work.op \in {"connect", "scan"}
      BY <2>2 DEF MaybeMark, MustMark, Inserts
    <3>2. work.block \in Blocks
      BY <1>0, <3>1, WorkFields DEF ConnectWork, ScanWork
    <3> QED
      BY <1>0, <3>1, <3>2, ResetKeeps
  <2> QED
    BY <2>1, <2>2
<1>5. Records' /\ JobOK' /\ Balances'
  <2>1. CASE Skip \/ MaybeMark
    BY <1>0, <2>1, RestStays DEF Skip, MaybeMark
  <2>2. CASE Insert
    <3>1. Add(Head(work.todo), HeightIn(work.block), FALSE) /\ work.op \in {"connect", "scan"}
      BY <2>2 DEF Insert, Inserts
    <3>2. work.block \in Blocks \cup {None}
      BY <1>0, <3>1, WorkFields DEF ConnectWork, ScanWork
    <3>3. HeightIn(work.block) \in Heights \cup {Unconfirmed}
      BY <3>2, WalletAssumption DEF HeightIn
    <3>4. JobOK'
      BY <1>0, <1>2, <3>1, <3>3, AddStarts
    <3>5. UNCHANGED <<records, state>>
      BY <3>1 DEF Add
    <3> QED
      BY <1>0, <3>4, <3>5, QuietKeeps
  <2>3. CASE UnconfirmNext
    <3>1. Unconfirm(Head(work.todo))
      BY <2>3 DEF UnconfirmNext
    <3>2. UNCHANGED <<records, state>>
      BY <3>1 DEF Unconfirm
    <3> QED
      BY <1>0, <1>2, <3>1, <3>2, QuietKeeps, UnconfirmStarts
  <2> QED
    BY <2>1, <2>2, <2>3
<1> QED
  BY <1>0, <1>1, <1>3, <1>4, <1>5 DEF WalletInv, WalletOK

(* The work ends, or its next part begins.                                 *)
LEMMA EndedKeeps ==
  ASSUME WalletInv,
         Connected \/ Disconnected \/ Reverted \/ LockChain \/ ScanBlock \/ Scanned
  PROVE  WalletInv'
<1>0. main \in Seq(Blocks) /\ main # <<>> /\ Queued /\ InChain /\ work \in Work
  BY DEF WalletInv, WalletOK
<1>1. UNCHANGED <<vars, main, queue, phase>>
  BY DEF Connected, Disconnected, Reverted, LockChain, ScanBlock, Scanned
<1>n. NoWork \in Work /\ [op |-> "rescan"] \in Work
  BY DEF NoWork, Work
<1>2. InChain' /\ work' \in Work
  <2>1. CASE Connected \/ Scanned
    BY <1>0, <1>n, <2>1 DEF Connected, Scanned, InChain
  <2>2. CASE Disconnected
    <3>1. work.op = "disconnect" /\ SyncState(work.prev) /\ work' = NoWork
      BY <2>2 DEF Disconnected, Finished
    <3>2. work.prev \in Blocks
      BY <1>0, <3>1, WorkFields DEF DisconnectWork
    <3> QED
      BY <1>0, <1>n, <3>1, <3>2, SyncKeeps
  <2>3. CASE Reverted
    <3>1. /\ work.op = "revert"
          /\ work.reset => ResetState(work.tip, work.marked)
          /\ ~work.reset => SyncState(work.tip)
          /\ work' = NoWork \/ work' = [op |-> "rescan"]
      BY <2>3 DEF Reverted, Finished
    <3>2. work.tip \in Blocks /\ work.marked \in BOOLEAN
      BY <1>0, <3>1, WorkFields DEF RevertWork
    <3>3. InChain'
      BY <1>0, <3>1, <3>2, SyncKeeps, ResetKeeps
    <3> QED
      BY <1>n, <3>1, <3>3
  <2>4. CASE LockChain
    <3>1. UNCHANGED <<sync, hashes>>
      BY <2>4 DEF LockChain
    <3>2. CASE work' = NoWork
      BY <1>0, <1>n, <3>1, <3>2 DEF InChain
    <3>3. ASSUME NEW n \in DOMAIN main,
                 work' = [op |-> "scan", block |-> None, todo |-> <<>>, rest |-> SubSeq(main, n, Len(main))]
          PROVE  work' \in Work
      <4>1. Len(main) \in Nat /\ n \in 1..Len(main) /\ \A i \in 1..Len(main) : main[i] \in Blocks
        BY <1>0, LenProperties, ElementOfSeq
      <4>2. \A i \in n..Len(main) : main[i] \in Blocks
        BY <4>1
      <4>3. SubSeq(main, n, Len(main)) \in Seq(Blocks)
        BY <4>1, <4>2, SubSeqProperties
      <4>4. <<>> \in Seq(Txs)
        BY EmptySeq
      <4>5. work' \in ScanWork
        <5> DEFINE r == SubSeq(main, n, Len(main))
        <5> HIDE DEF r
        <5>1. work' = [op |-> "scan", block |-> None, todo |-> <<>>, rest |-> r] /\ r \in Seq(Blocks)
          BY <3>3, <4>3 DEF r
        <5> QED
          BY <4>4, <5>1 DEF ScanWork
      <4> QED
        BY <4>5 DEF Work
    <3> QED
      BY <1>0, <2>4, <3>1, <3>2, <3>3 DEF LockChain, InChain
  <2>5. CASE ScanBlock
    <3> DEFINE b == Head(work.rest)
    <3>1. work.op = "scan" /\ work.rest # <<>>
      BY <2>5 DEF ScanBlock, Finished
    <3>2. work.rest \in Seq(Blocks) /\ b \in Blocks /\ Tail(work.rest) \in Seq(Blocks)
      BY <1>0, <3>1, ScanEdits, HeadTailProperties
    <3>3. BlockTxs[b] \in Seq(Txs)
      BY <3>2, WalletAssumption
    <3>4. CASE Fits(b)
      <4>1. /\ SyncState(b)
            /\ work' = [work EXCEPT !.rest = Tail(work.rest), !.block = b, !.todo = BlockTxs[b]]
        BY <2>5, <3>4 DEF ScanBlock
      <4> HIDE DEF b
      <4>2. work' \in Work
        BY <1>0, <3>1, <3>2, <3>3, <4>1, ScanEdits
      <4> QED
        BY <1>0, <3>2, <4>1, <4>2, SyncKeeps
    <3>5. CASE ~Fits(b)
      <4>1. work' = [work EXCEPT !.rest = Tail(work.rest)] /\ UNCHANGED <<sync, hashes>>
        BY <2>5, <3>5 DEF ScanBlock
      <4>2. work' \in Work
        BY <1>0, <3>1, <3>2, <4>1, ScanEdits
      <4> QED
        BY <1>0, <4>1, <4>2 DEF InChain
    <3> QED
      BY <3>4, <3>5
  <2> QED
    BY <2>1, <2>2, <2>3, <2>4, <2>5
<1>3. WalletOK'
  BY <1>0, <1>1, <1>2 DEF WalletOK, Queued
<1> QED
  BY <1>1, <1>3, RestStays DEF WalletInv

(* An operation goes on, fails or starts of its own accord, the process    *)
(* goes down and comes up.                                                 *)
LEMMA OthersKeep ==
  ASSUME WalletInv,
         \/ Caught
         \/ Step /\ UNCHANGED walletVars
         \/ BatchFails
         \/ \E h \in Heights : Rescan(h)
         \/ \E t \in Txs : Abandon(t)
         \/ Crash \/ Open \/ Opened
  PROVE  WalletInv'
<1>0. /\ main \in Seq(Blocks) /\ main # <<>> /\ Queued /\ InChain /\ work \in Work /\ WalletOK
      /\ Records /\ JobOK /\ Balances /\ blocks \in [Heights -> Seq(Txs)]
  BY DEF WalletInv, WalletOK, Records, RecordTypes
<1>n. NoWork \in Work
  BY DEF NoWork, Work
<1>f. UNCHANGED walletVars => WalletOK'
  BY <1>0 DEF walletVars, WalletOK, Queued, InChain
<1>1. CASE Caught
  <2>1. /\ job' = Idle /\ UNCHANGED <<records, state, main, queue, sync, hashes>>
        /\ work.op # "scan" => work' = NoWork
        /\ work.op = "scan" => work' = [work EXCEPT !.todo = <<>>]
    BY <1>1 DEF Caught
  <2>2. work' \in Work
    BY <1>0, <1>n, <2>1, TodoEdits, EmptySeq
  <2>3. WalletOK'
    BY <1>0, <2>1, <2>2 DEF WalletOK, Queued, InChain
  <2> QED
    BY <1>0, <2>1, <2>3, JobEnds, QuietKeeps DEF WalletInv
<1>2. CASE Step /\ UNCHANGED walletVars
  BY <1>0, <1>2, <1>f, StepKeeps DEF WalletInv
<1>3. CASE BatchFails
  <2>1. /\ job' = Idle \/ job' = [op |-> "threw"]
        /\ UNCHANGED <<records, state>> /\ UNCHANGED walletVars
    BY <1>3 DEF BatchFails, CommitFails, KeepState
  <2> QED
    BY <1>0, <1>f, <2>1, JobEnds, QuietKeeps DEF WalletInv
<1>4. ASSUME NEW h \in Heights, Rescan(h) PROVE WalletInv'
  <2>1. Notify([type |-> "rescan", height |-> h]) /\ UNCHANGED <<vars, main, phase, sync, hashes, work>>
    BY <1>4 DEF Rescan
  <2>2. [type |-> "rescan", height |-> h] \in Note
    BY DEF Note
  <2>3. WalletOK'
    BY <1>0, <2>1, <2>2, NotifyKeeps DEF WalletOK, InChain
  <2> QED
    BY <1>0, <2>1, <2>3, RestStays DEF WalletInv
<1>5. ASSUME NEW t \in Txs, Abandon(t) PROVE WalletInv'
  <2>1. RemoveTX(t) /\ UNCHANGED walletVars /\ UNCHANGED <<records, state>>
    BY <1>5 DEF Abandon, RemoveTX
  <2> QED
    BY <1>0, <1>f, <2>1, RemoveStarts, QuietKeeps DEF WalletInv
<1>6. CASE Crash
  <2>1. /\ queue' = <<>> /\ work' = NoWork /\ job' = Idle /\ state' = R
        /\ UNCHANGED <<records, main, sync, hashes>>
    BY <1>6 DEF Crash
  <2>2. Queued'
    BY <2>1, WalletAssumption, EmptySeq DEF Queued
  <2>3. WalletOK'
    BY <1>0, <1>n, <2>1, <2>2 DEF WalletOK, InChain
  <2>4. Records'
    BY <1>0, <2>1, RecordsStay DEF records, recordVars
  <2>5. Balances'
    BY <1>0, <2>1 DEF Balances, records
  <2> QED
    BY <2>1, <2>3, <2>4, <2>5, JobEnds DEF WalletInv
<1>7. CASE Open
  <2>1. work' = Scan(Common) /\ UNCHANGED <<vars, main, queue, sync, hashes>>
    BY <1>7 DEF Open
  <2>2. work' \in Work
    BY <1>0, <2>1, CommonIsHeight, ScanIsWork
  <2>3. WalletOK'
    BY <1>0, <2>1, <2>2 DEF WalletOK, Queued, InChain
  <2> QED
    BY <1>0, <2>1, <2>3, RestStays DEF WalletInv
<1>8. CASE Opened
  <2>1. UNCHANGED <<vars, main, queue, sync, hashes, work>>
    BY <1>8 DEF Opened
  <2>2. WalletOK'
    BY <1>0, <2>1 DEF WalletOK, Queued, InChain
  <2> QED
    BY <1>0, <2>1, <2>2, RestStays DEF WalletInv
<1> QED
  BY <1>1, <1>2, <1>3, <1>4, <1>5, <1>6, <1>7, <1>8

LEMMA NextKeeps ==
  ASSUME WalletInv, [Next]_allVars
  PROVE  WalletInv'
<1>1. CASE NodeStep
  BY <1>1, NodeKeeps
<1>2. CASE WalletStep
  <2>1. CASE ConnectBlock \/ AddTX \/ RemoveBlock \/ RollBack \/ StartRescan \/ Drop
    BY <2>1, TakenKeeps
  <2>2. CASE Skip \/ MaybeMark \/ Insert \/ UnconfirmNext
    BY <2>2, HandedKeeps
  <2>3. CASE Connected \/ Disconnected \/ Reverted \/ LockChain \/ ScanBlock \/ Scanned
    BY <2>3, EndedKeeps
  <2>4. CASE Caught \/ (Step /\ UNCHANGED walletVars)
    BY <2>4, OthersKeep
  <2> QED
    BY <1>2, <2>1, <2>2, <2>3, <2>4 DEF WalletStep
<1>3. CASE \/ \E h \in Heights : Rescan(h)
           \/ \E t \in Txs : Abandon(t)
           \/ Crash \/ Open \/ Opened \/ BatchFails
  BY <1>3, OthersKeep
<1>4. CASE UNCHANGED allVars
  <2>1. WalletOK'
    BY <1>4 DEF allVars, walletVars, WalletInv, WalletOK, Queued, InChain
  <2> QED
    BY <1>4, <2>1, RestStays DEF WalletInv, allVars
<1> QED
  BY <1>1, <1>2, <1>3, <1>4 DEF Next, Undisturbed

(* The invariant says all that RecordsAgree does.                          *)
LEMMA InvAgrees ==
  ASSUME WalletInv
  PROVE  RecordsAgree
<1> USE Sentinels
<1>1. RecordTypes /\ Spends /\ (\A o \in Mine : CoinAgrees(o)) /\ InBlocks
  BY DEF WalletInv, Records
<1>2. TypeOK
  BY <1>1 DEF WalletInv, WalletOK, Queued, InChain, RecordTypes, Balances, JobOK, TypeOK
<1>3. Mine \subseteq Outs /\ Creator \in [Outs -> Txs \cup {None}]
  BY TXAssumption
<1>4. \A o \in Outs :
        /\ spender[o] # None => o \in In(spender[o]) /\ spender[o] \in Known
        /\ \A t \in Known : o \in In(t) => spender[o] = t
        /\ \A t \in Txs : undo[t][o] # None => spender[o] = t
  BY <1>1 DEF Spends, Known, RecordTypes
<1>5. \A o \in Mine :
        LET known == Creator[o] \in Known
            s == spender[o]
        IN  /\ o \in Credits <=> known /\ (s # None => rec[s] = Unconfirmed)
            /\ o \in Credits => (credit[o].spent <=> s # None)
            /\ s # None => (undo[s][o] # None <=> known)
  BY <1>1, <1>3 DEF CoinAgrees, KnownOut, Known, Credits
<1>6. \A h \in Heights, t \in Txs : rec[t] = h <=> t \in Range(blocks[h])
  BY <1>1 DEF InBlocks
<1> QED
  BY <1>2, <1>4, <1>5, <1>6 DEF RecordsAgree

(* The records of the wallet agree with one another, whatever blocks come  *)
(* and go, in whatever order transactions turn up, conflict and are        *)
(* abandoned, wherever the process crashes and whichever batch fails:      *)
(* RecordsAgree of module WalletDB, of txdb.js under walletdb.js.          *)
THEOREM RecordsCorrect == Spec => []RecordsAgree
<1>1. Init => WalletInv
  BY InitOK
<1>2. WalletInv /\ [Next]_allVars => WalletInv'
  BY NextKeeps
<1>3. WalletInv => RecordsAgree
  BY InvAgrees
<1> QED
  BY <1>1, <1>2, <1>3, PTL DEF Spec

-----------------------------------------------------------------------------
(* Descent.                                                                *)
LEMMA DescentRules ==
  /\ \A t \in Txs : Descends(t, t)
  /\ \A t, u, v \in Txs : Descends(t, u) /\ Descends(u, v) => Descends(t, v)
  /\ \A t, u \in Txs : (\E o \in In(t) : Creator[o] = u) => Descends(t, u)
<1>1. \A t, u, v \in Txs : Descends(t, u) /\ Descends(u, v) => Descends(t, v)
  <2>1. SUFFICES ASSUME NEW t \in Txs, NEW u \in Txs, NEW v \in Txs,
                        Descends(t, u), Descends(u, v), NEW S \in SUBSET Txs,
                        v \in S /\ (\A x \in Txs : (\E o \in In(x) : Creator[o] \in S) => x \in S)
                 PROVE  t \in S
    BY DEF Descends
  <2>2. u \in S
    BY <2>1 DEF Descends
  <2> QED
    BY <2>1, <2>2 DEF Descends
<1>2. \A t, u \in Txs : (\E o \in In(t) : Creator[o] = u) => Descends(t, u)
  BY DEF Descends
<1>3. \A t \in Txs : Descends(t, t)
  BY DEF Descends
<1> QED
  BY <1>1, <1>2, <1>3

(* A removal meets no transaction twice: on its path each descends from    *)
(* those before it, and the conflicts that wait descend neither from what  *)
(* is on the path nor from one another.                                    *)
PathApart(j) ==
  /\ \A r, s \in j.roots : r # s => ~Descends(r[2].tx, s[2].tx)
  /\ j.path # <<>> => \A r \in j.roots : ~Descends(r[2].tx, j.path[1].tx)
  /\ \A i, k \in DOMAIN j.path :
       i < k => Descends(j.path[k].tx, j.path[i].tx) /\ j.path[k].tx # j.path[i].tx

JobApart ==
  Underway => PathApart(job) /\ \A w \in Pend(job) : rec[w.tx] # None

LEMMA RemovingApart ==
  ASSUME NEW j \in Job, j.op \in {"add", "unconfirm", "remove"}, PathApart(j)
  PROVE  PathApart(Removing(j))
<1> DEFINE first == CHOOSE root \in j.roots : \A r \in j.roots : root[1] <= r[1]
           k == Removing(j)
<1>0. j.roots \in SUBSET (Nat \X Wtx)
  BY JobFields
<1>1. CASE j.path = <<>> /\ j.roots # {}
  <2> DEFINE D == {r[1] : r \in j.roots}
  <2>1. D \subseteq Nat /\ D # {}
    BY <1>0, <1>1
  <2>2. PICK d \in D : \A e \in D : d <= e
    <3> HIDE DEF D
    <3> QED
      BY <2>1, LeastNumber
  <2>3. \E root \in j.roots : \A r \in j.roots : root[1] <= r[1]
    BY <2>2
  <2>4. first \in j.roots
    BY <2>3
  <2>5. k = [j EXCEPT !.path = <<first[2]>>, !.roots = j.roots \ {first}]
    BY <1>1 DEF Removing
  <2> HIDE DEF first
  <2>6. k.path = <<first[2]>> /\ k.roots = j.roots \ {first}
    <3> DEFINE p == <<first[2]>>
               q == j.roots \ {first}
    <3>1. k = [j EXCEPT !.path = p, !.roots = q]
      BY <2>5
    <3> HIDE DEF p, q, k
    <3>2. k.path = p /\ k.roots = q
      BY <3>1 DEF Job
    <3> QED
      BY <3>2 DEF p, q
  <2>7. k.path[1] = first[2] /\ DOMAIN k.path = {1}
    BY <2>6
  <2> HIDE DEF k
  <2>8. \A r \in k.roots : r \in j.roots /\ ~Descends(r[2].tx, first[2].tx)
    BY <2>4, <2>6 DEF PathApart
  <2>9. \A i, m \in DOMAIN k.path : ~(i < m)
    BY <2>7
  <2>10. PathApart(k)
    BY <2>7, <2>8, <2>9 DEF PathApart
  <2> QED
    BY <2>10 DEF k
<1>2. CASE ~(j.path = <<>> /\ j.roots # {})
  BY <1>2 DEF Removing
<1> QED
  BY <1>1, <1>2

LEMMA AddApart ==
  ASSUME ConflictsApart, Records, NEW t \in Txs, NEW h \in Heights \cup {Unconfirmed},
         NEW user \in BOOLEAN, Add(t, h, user)
  PROVE  JobApart'
<1> USE Sentinels
<1> DEFINE roots == IF Removes(t, h) THEN Conflicts(t) ELSE {}
           j == [op |-> "add", user |-> user, tx |-> t, height |-> h, roots |-> roots, path |-> <<>>]
<1>1. RecordTypes /\ Spends
  BY DEF Records
<1>2. job' = Removing(j) /\ rec' = rec
  BY DEF Add, NewJob, records
<1>3. Inputs[t] \in Seq(Outs) /\ DOMAIN Inputs[t] \subseteq Nat
  BY TXAssumption, LenProperties
<1>4. \A i \in DOMAIN Inputs[t] : Inputs[t][i] \in Outs
  BY <1>3, ElementOfSeq, LenProperties
<1>5. \A r \in Conflicts(t) :
        /\ r[1] \in DOMAIN Inputs[t] /\ r[2].tx = spender[Inputs[t][r[1]]]
        /\ r = <<r[1], [tx |-> r[2].tx, height |-> rec[r[2].tx]]>>
        /\ r[2].tx \in Txs \ {t} /\ Inputs[t][r[1]] \in In(r[2].tx)
        /\ rec[r[2].tx] # None /\ r \in Nat \X Wtx
  <2>1. SUFFICES ASSUME NEW r \in Conflicts(t)
                 PROVE  /\ r[1] \in DOMAIN Inputs[t] /\ r[2].tx = spender[Inputs[t][r[1]]]
                        /\ r = <<r[1], [tx |-> r[2].tx, height |-> rec[r[2].tx]]>>
                        /\ r[2].tx \in Txs \ {t} /\ Inputs[t][r[1]] \in In(r[2].tx)
                        /\ rec[r[2].tx] # None /\ r \in Nat \X Wtx
    OBVIOUS
  <2>2. PICK i \in DOMAIN Inputs[t] :
          /\ spender[Inputs[t][i]] \notin {None, t}
          /\ r = <<i, [tx |-> spender[Inputs[t][i]], height |-> rec[spender[Inputs[t][i]]]]>>
    BY <2>1 DEF Conflicts
  <2> DEFINE s == spender[Inputs[t][i]]
  <2>3. s \in Txs \ {t} /\ Inputs[t][i] \in In(s) /\ rec[s] # None
        /\ rec[s] \in Heights \cup {Unconfirmed}
    BY <1>1, <1>4, <2>2 DEF RecordTypes, Spends
  <2>4. r = <<i, [tx |-> s, height |-> rec[s]]>> /\ i \in Nat
    BY <1>3, <2>2
  <2>5. s = spender[Inputs[t][i]]
    OBVIOUS
  <2> HIDE DEF s
  <2>6. [tx |-> s, height |-> rec[s]] \in Wtx
    BY <2>3 DEF Wtx
  <2>7. r[1] = i /\ r[2] = [tx |-> s, height |-> rec[s]] /\ r[2].tx = s
    BY <2>4
  <2> QED
    BY <2>3, <2>4, <2>5, <2>6, <2>7
<1>6. \A r \in roots : r \in Conflicts(t)
  OBVIOUS
<1>7. <<>> \in Seq(Wtx)
  BY EmptySeq
<1> HIDE DEF roots
<1>8. j \in Job /\ j.op = "add" /\ j.path = <<>> /\ j.roots = roots
  BY <1>5, <1>6, <1>7 DEF Job
<1>9. Pend(j) = {r[2] : r \in roots}
  BY <1>8 DEF Pend, Range
<1> HIDE DEF j
<1>10. ASSUME NEW r \in roots, NEW s \in roots, r # s PROVE ~Descends(r[2].tx, s[2].tx)
  <2>1. r[1] # s[1]
    BY <1>5, <1>6, <1>10
  <2> QED
    BY <1>5, <1>6, <2>1 DEF ConflictsApart
<1>11. PathApart(j)
  BY <1>8, <1>10 DEF PathApart
<1>12. PathApart(job)'
  <2>1. PathApart(Removing(j))
    BY <1>8, <1>11, RemovingApart
  <2> QED
    BY <1>2, <2>1 DEF PathApart
<1>13. \A w \in Pend(job)' : rec'[w.tx] # None
  <2>1. Pend(Removing(j)) = Pend(j)
    BY <1>8, RemovingKeeps
  <2>2. Pend(job)' = Pend(j)
    BY <1>2, <2>1 DEF Pend
  <2> QED
    BY <1>2, <1>5, <1>6, <1>9, <2>2
<1> QED
  BY <1>12, <1>13 DEF JobApart

(* A removal of one, and a disconnection, begin with at most one.          *)
LEMMA OneApart ==
  ASSUME Records, NEW t \in Txs, RemoveTX(t) \/ Unconfirm(t)
  PROVE  JobApart'
<1> USE Sentinels
<1>1. CASE RemoveTX(t)
  <2> DEFINE w == [tx |-> t, height |-> rec[t]]
             j == [op |-> "remove", user |-> TRUE, tx |-> t, height |-> rec[t],
                   roots |-> {<<1, w>>}, path |-> <<>>]
  <2>1. job' = Removing(j) /\ rec[t] # None /\ rec' = rec
    BY <1>1 DEF RemoveTX, NewJob, records
  <2>2. rec[t] \in Heights \cup {Unconfirmed}
    BY <2>1 DEF Records, RecordTypes
  <2>3. w \in Wtx /\ w.tx = t
    BY <2>2 DEF Wtx
  <2> DEFINE q == {<<1, w>>}
  <2>4. q \in SUBSET (Nat \X Wtx)
    <3> HIDE DEF w
    <3> QED
      BY <2>3
  <2>5. \A r, s \in q : r = s
    OBVIOUS
  <2>6. <<>> \in Seq(Wtx)
    BY EmptySeq
  <2>7. Pend(j) = {w}
    BY DEF Pend, Range
  <2> HIDE DEF q, w
  <2>8. j = [op |-> "remove", user |-> TRUE, tx |-> t, height |-> rec[t], roots |-> q, path |-> <<>>]
    BY DEF q
  <2> HIDE DEF j
  <2>9. j \in Job /\ j.op = "remove" /\ j.path = <<>> /\ j.roots = q
    BY <2>2, <2>4, <2>6, <2>8 DEF Job
  <2>10. PathApart(j)
    BY <2>5, <2>9 DEF PathApart
  <2>11. PathApart(Removing(j)) /\ Pend(Removing(j)) = {w}
    BY <2>7, <2>9, <2>10, RemovingApart, RemovingKeeps
  <2>12. PathApart(job)' /\ Pend(job)' = {w}
    BY <2>1, <2>11 DEF PathApart, Pend
  <2> QED
    BY <2>1, <2>3, <2>12 DEF JobApart
<1>2. CASE Unconfirm(t)
  <2> DEFINE j == [op |-> "unconfirm", user |-> FALSE, tx |-> t, height |-> Unconfirmed,
                   roots |-> {}, path |-> <<>>]
  <2>1. job' = Removing(j)
    BY <1>2 DEF Unconfirm, NewJob
  <2>2. job' = j
    BY <2>1 DEF Removing
  <2>3. Pend(j) = {} /\ PathApart(j)
    BY DEF Pend, Range, PathApart
  <2>4. PathApart(job)' /\ Pend(job)' = {}
    BY <2>2, <2>3 DEF Pend, PathApart
  <2> QED
    BY <2>4 DEF JobApart
<1> QED
  BY <1>1, <1>2

(* The path grows by a child of its last transaction.                      *)
LEMMA DescendApart ==
  ASSUME Records, JobOK, JobApart, Descend
  PROVE  JobApart'
<1> USE Sentinels
<1>1. job.op \in {"add", "remove"} /\ job.path # <<>> /\ rec' = rec
  BY DEF Descend, records
<1>2. PICK o \in OutsOf(Last(job.path).tx) :
        /\ spender[o] # None
        /\ job' = [job EXCEPT !.path =
                     Append(@, [tx |-> spender[o], height |-> rec[spender[o]]])]
  BY DEF Descend
<1> DEFINE w == [tx |-> spender[o], height |-> rec[spender[o]]]
           p == job.path
           n == Len(p)
           last == p[n].tx
<1>3. o \in Outs /\ Creator[o] = last
  BY <1>2 DEF OutsOf, Last
<1>4. spender[o] \in Txs /\ rec[spender[o]] # None /\ o \in In(spender[o])
      /\ rec[spender[o]] \in Heights \cup {Unconfirmed}
  BY <1>2, <1>3 DEF Records, RecordTypes, Spends
<1>5. w \in Wtx /\ w.tx = spender[o]
  BY <1>4 DEF Wtx
<1>6. /\ job \in Job /\ job.op \in {"add", "unconfirm", "remove"} /\ p \in Seq(Wtx)
      /\ Underway
  BY <1>1, JobFields DEF JobOK, Underway
<1>7. n \in Nat \ {0} /\ DOMAIN p = 1..n /\ \A i \in 1..n : p[i] \in Wtx /\ p[i].tx \in Txs
  <2>1. n \in Nat /\ n # 0 /\ DOMAIN p = 1..n /\ \A i \in 1..n : p[i] \in Wtx
    BY <1>1, <1>6, LenProperties, EmptySeq, ElementOfSeq
  <2> QED
    BY <2>1 DEF Wtx
<1> DEFINE q == Append(p, w)
<1>8. /\ q \in Seq(Wtx) /\ DOMAIN q = 1..(n + 1) /\ q[n + 1] = w
      /\ \A i \in 1..n : q[i] = p[i]
      /\ Range(q) = Range(p) \cup {w}
  <2>1. /\ q \in Seq(Wtx) /\ Len(q) = n + 1 /\ q[n + 1] = w /\ \A i \in 1..n : q[i] = p[i]
    BY <1>5, <1>6, AppendProperties
  <2>2. Range(q) = Range(p) \cup {w}
    BY <1>5, <1>6, AppendOnce
  <2> QED
    BY <2>1, <2>2, LenProperties
<1>9. job' = [job EXCEPT !.path = q]
  BY <1>2
<1> HIDE DEF w, q
<1>10. job'.path = q /\ job'.roots = job.roots
  BY <1>6, <1>9 DEF Job
<1>11. PathApart(job) /\ \A x \in Pend(job) : rec[x.tx] # None
  BY <1>6 DEF JobApart
<1>12. \A i \in 1..n : i = n \/ (Descends(last, p[i].tx) /\ last # p[i].tx)
  BY <1>7, <1>11 DEF PathApart
<1>13. last \in Txs /\ Descends(w.tx, last) /\ w.tx # last
  <2>1. last \in Txs
    BY <1>7
  <2> QED
    BY <1>3, <1>4, <1>5, <2>1, DescentRules, NotOwn
<1>14. \A i \in 1..n : Descends(w.tx, p[i].tx) /\ w.tx # p[i].tx
  <2>1. SUFFICES ASSUME NEW i \in 1..n, i # n PROVE Descends(w.tx, p[i].tx) /\ w.tx # p[i].tx
    BY <1>13
  <2>2. Descends(last, p[i].tx) /\ last # p[i].tx /\ p[i].tx \in Txs
    BY <1>7, <1>12, <2>1
  <2>3. Descends(w.tx, p[i].tx)
    BY <1>4, <1>5, <1>13, <2>2, DescentRules
  <2>4. w.tx # p[i].tx
    BY <1>13, <2>2, TXAssumption
  <2> QED
    BY <2>3, <2>4
<1>15. ASSUME NEW i \in 1..(n + 1), NEW k \in 1..(n + 1), i < k
       PROVE  Descends(q[k].tx, q[i].tx) /\ q[k].tx # q[i].tx
  <2>1. i \in 1..n
    BY <1>7, <1>15
  <2>2. CASE k = n + 1
    BY <1>8, <1>14, <2>1, <2>2
  <2>3. CASE k # n + 1
    <3>1. k \in 1..n
      BY <1>7, <2>3
    <3> QED
      BY <1>7, <1>8, <1>11, <1>15, <2>1, <3>1 DEF PathApart
  <2> QED
    BY <2>2, <2>3
<1>16. q[1] = p[1]
  BY <1>7, <1>8
<1>17. PathApart(job)'
  <2>1. \A r, s \in job.roots : r # s => ~Descends(r[2].tx, s[2].tx)
    BY <1>11 DEF PathApart
  <2>2. \A r \in job.roots : ~Descends(r[2].tx, q[1].tx)
    BY <1>1, <1>11, <1>16 DEF PathApart
  <2>3. \A i, k \in DOMAIN q : i < k => Descends(q[k].tx, q[i].tx) /\ q[k].tx # q[i].tx
    BY <1>8, <1>15
  <2> QED
    BY <1>10, <2>1, <2>2, <2>3 DEF PathApart
<1>18. Pend(job)' = Pend(job) \cup {w}
  BY <1>8, <1>10 DEF Pend
<1> QED
  BY <1>1, <1>4, <1>5, <1>11, <1>17, <1>18 DEF JobApart

(* The last transaction of the path is erased, and no other that waits.    *)
LEMMA EraseApart ==
  ASSUME Records, JobOK, JobApart, Erase
  PROVE  JobApart' /\ rec[Top.tx] # None
<1> USE Sentinels
<1> DEFINE t == Top.tx
           k == Removing(Shorter)
           p == job.path
           n == Len(p)
<1>1. /\ job.op \in {"add", "remove"} /\ p # <<>>
      /\ rec' = [rec EXCEPT ![t] = None]
      /\ job' = (IF k.op = "remove" /\ k.path = <<>> THEN Idle ELSE k)
  BY DEF Erase, Top, Shorter
<1>2. /\ job \in Job /\ job.op \in {"add", "unconfirm", "remove"} /\ p \in Seq(Wtx) /\ Underway
      /\ Top \in Wtx /\ t \in Txs
      /\ Shorter \in Job /\ Shorter.op = job.op
      /\ Shorter.path = Front(p) /\ Shorter.roots = job.roots
      /\ Pend(job) = Pend(Shorter) \cup {Top}
  BY <1>1, EraseFinds
<1>3. PathApart(job) /\ \A x \in Pend(job) : rec[x.tx] # None
  BY <1>2 DEF JobApart
<1>4. rec[t] # None
  BY <1>2, <1>3
<1>5. n \in Nat \ {0} /\ DOMAIN p = 1..n /\ \A i \in 1..n : p[i] \in Wtx /\ p[i].tx \in Txs
  <2>1. n \in Nat /\ n # 0 /\ DOMAIN p = 1..n /\ \A i \in 1..n : p[i] \in Wtx
    BY <1>1, <1>2, LenProperties, EmptySeq, ElementOfSeq
  <2> QED
    BY <2>1 DEF Wtx
<1> DEFINE f == Front(p)
<1>6. f \in Seq(Wtx) /\ DOMAIN f = 1..(n - 1) /\ \A i \in 1..(n - 1) : f[i] = p[i]
  <2>1. f \in Seq(Wtx) /\ Len(f) = n - 1 /\ \A i \in 1..(n - 1) : f[i] = p[i]
    BY <1>1, <1>2, FrontOnce
  <2> QED
    BY <2>1, LenProperties
<1>7. Top = p[n]
  BY DEF Top, Last
<1> HIDE DEF p, f, k
<1>8. \A i \in 1..n : Descends(p[i].tx, p[1].tx)
  <2>1. SUFFICES ASSUME NEW i \in 1..n PROVE Descends(p[i].tx, p[1].tx)
    OBVIOUS
  <2>2. 1 \in 1..n
    BY <1>5
  <2>3. CASE i = 1
    BY <1>5, <2>2, <2>3, DescentRules
  <2>4. CASE i # 1
    <3>1. 1 < i
      BY <1>5, <2>4
    <3> QED
      BY <1>3, <1>5, <2>2, <3>1 DEF PathApart, p
  <2> QED
    BY <2>3, <2>4
<1>9. \A x \in Pend(Shorter) : x.tx # t
  <2>1. \A i \in 1..(n - 1) : p[i].tx # t
    <3>1. \A i \in 1..(n - 1) : i \in 1..n /\ n \in 1..n /\ i < n
      BY <1>5
    <3> QED
      BY <1>3, <1>5, <1>7, <3>1 DEF PathApart, p
  <2>2. \A x \in Range(f) : x.tx # t
    BY <1>6, <2>1 DEF Range
  <2>3. \A r \in job.roots : r[2].tx # t
    <3>1. Descends(t, p[1].tx)
      BY <1>5, <1>7, <1>8
    <3> QED
      BY <1>1, <1>3, <3>1 DEF PathApart, p
  <2> QED
    BY <1>2, <2>2, <2>3 DEF Pend, f
<1>10. PathApart(Shorter)
  <2>1. \A r, s \in job.roots : r # s => ~Descends(r[2].tx, s[2].tx)
    BY <1>3 DEF PathApart
  <2>2. f # <<>> => \A r \in job.roots : ~Descends(r[2].tx, f[1].tx)
    <3>1. SUFFICES ASSUME f # <<>> PROVE \A r \in job.roots : ~Descends(r[2].tx, f[1].tx)
      OBVIOUS
    <3>2. 1 \in 1..(n - 1)
      <4>1. Len(f) \in Nat /\ Len(f) # 0 /\ DOMAIN f = 1..Len(f)
        BY <1>6, <3>1, LenProperties, EmptySeq
      <4> QED
        BY <1>5, <1>6, <4>1
    <3>3. f[1] = p[1]
      BY <1>6, <3>2
    <3> QED
      BY <1>1, <1>3, <3>3 DEF PathApart, p
  <2>3. \A i, m \in DOMAIN f : i < m => Descends(f[m].tx, f[i].tx) /\ f[m].tx # f[i].tx
    <3>1. SUFFICES ASSUME NEW i \in 1..(n - 1), NEW m \in 1..(n - 1), i < m
                   PROVE  Descends(f[m].tx, f[i].tx) /\ f[m].tx # f[i].tx
      BY <1>6
    <3>2. i \in 1..n /\ m \in 1..n /\ f[i] = p[i] /\ f[m] = p[m]
      BY <1>5, <1>6
    <3> QED
      BY <1>3, <1>5, <3>1, <3>2 DEF PathApart, p
  <2>4. Shorter.path = f /\ Shorter.roots = job.roots
    BY <1>2 DEF f, p
  <2> QED
    BY <2>1, <2>2, <2>3, <2>4 DEF PathApart
<1>11. Shorter \in Job /\ Shorter.op \in {"add", "unconfirm", "remove"}
  BY <1>1, <1>2
<1>12. PathApart(k) /\ Pend(k) = Pend(Shorter)
  BY <1>10, <1>11, RemovingApart, RemovingKeeps DEF k
<1>13. \A x \in Pend(Shorter) : rec'[x.tx] # None
  <2>1. \A x \in Pend(Shorter) : rec[x.tx] # None
    BY <1>2, <1>3
  <2>2. \A x \in Pend(Shorter) : x.tx \in Txs
    <3>1. \A i \in 1..(n - 1) : i \in 1..n
      BY <1>5
    <3>2. \A x \in Range(f) : x.tx \in Txs
      BY <1>5, <1>6, <3>1 DEF Range
    <3>3. \A r \in job.roots : r[2].tx \in Txs
      <4>1. job.roots \in SUBSET (Nat \X Wtx)
        BY <1>2, JobFields
      <4> QED
        BY <4>1 DEF Wtx
    <3> QED
      BY <1>2, <3>2, <3>3 DEF Pend, f
  <2>3. rec \in [Txs -> Heights \cup {Unconfirmed, None}]
    BY DEF Records, RecordTypes
  <2> QED
    BY <1>1, <1>9, <2>1, <2>2, <2>3
<1>14. JobApart'
  <2>1. CASE job' = Idle
    BY <2>1 DEF JobApart, Underway, Idle
  <2>2. CASE job' = k
    <3>1. PathApart(job)' /\ Pend(job)' = Pend(Shorter)
      BY <1>12, <2>2 DEF PathApart, Pend
    <3> QED
      BY <1>13, <3>1 DEF JobApart
  <2> QED
    BY <1>1, <2>1, <2>2
<1> QED
  BY <1>4, <1>14

-----------------------------------------------------------------------------
(* The counters and the unconfirmed figure.                                *)
Unspent == {o \in Credits : ~credit[o].spent}

Counts ==
  /\ state = R
  /\ IsFiniteSet(Known) /\ IsFiniteSet(Unspent)
  /\ state.tx = Cardinality(Known)
  /\ state.coin = Cardinality(Unspent) /\ state.unconfirmed = Total(Unspent)

CountInv == WalletInv /\ Counts /\ JobApart

(* Where the records agree, the coins that are not spent are the outputs   *)
(* of known transactions that no known transaction spends.                 *)
LEMMA UnspentIs == Records => Unspent = {o \in Mine : KnownOut(o) /\ spender[o] = None}
<1> SUFFICES ASSUME Records
             PROVE  Unspent = {o \in Mine : KnownOut(o) /\ spender[o] = None}
  OBVIOUS
<1>1. Mine \subseteq Outs /\ \A o \in Outs : credit[o] # None => o \in Mine
  BY TXAssumption DEF Records, Spends
<1>2. \A o \in Mine : CoinAgrees(o)
  BY DEF Records
<1> QED
  BY <1>1, <1>2 DEF Unspent, Credits, CoinAgrees

LEMMA UnspentWillBe ==
  (Records => Unspent = {o \in Mine : KnownOut(o) /\ spender[o] = None})'
BY UnspentIs, PTL

(* What the edits of a balance do to each figure.                          *)
LEMMA BalanceFields ==
  ASSUME NEW b \in Balance, NEW Put, NEW Del
  PROVE  /\ Coins(b, Put, Del).tx = b.tx
         /\ Coins(b, Put, Del).coin = b.coin + Cardinality(Put) - Cardinality(Del)
         /\ Coins(b, Put, Del).unconfirmed = b.unconfirmed + Total(Put) - Total(Del)
         /\ Mined(b, Put, Del).tx = b.tx
         /\ Mined(b, Put, Del).coin = b.coin
         /\ Mined(b, Put, Del).unconfirmed = b.unconfirmed
<1> DEFINE c == b.coin + Cardinality(Put) - Cardinality(Del)
           u == b.unconfirmed + Total(Put) - Total(Del)
           v == b.confirmed + Total(Put) - Total(Del)
<1>1. Coins(b, Put, Del) = [b EXCEPT !.coin = c, !.unconfirmed = u]
  BY DEF Coins
<1>2. Mined(b, Put, Del) = [b EXCEPT !.confirmed = v]
  BY DEF Mined
<1> HIDE DEF c, u, v
<1>3. /\ Coins(b, Put, Del).tx = b.tx /\ Coins(b, Put, Del).coin = c
      /\ Coins(b, Put, Del).unconfirmed = u
  BY <1>1 DEF Balance
<1>4. /\ Mined(b, Put, Del).tx = b.tx /\ Mined(b, Put, Del).coin = b.coin
      /\ Mined(b, Put, Del).unconfirmed = b.unconfirmed
  BY <1>2 DEF Balance
<1> QED
  BY <1>3, <1>4 DEF c, u

LEMMA CountFields ==
  ASSUME NEW b \in Balance
  PROVE  /\ [b EXCEPT !.tx = @ + 1].tx = b.tx + 1 /\ [b EXCEPT !.tx = @ - 1].tx = b.tx - 1
         /\ [b EXCEPT !.tx = @ + 1].coin = b.coin /\ [b EXCEPT !.tx = @ - 1].coin = b.coin
         /\ [b EXCEPT !.tx = @ + 1].unconfirmed = b.unconfirmed
         /\ [b EXCEPT !.tx = @ - 1].unconfirmed = b.unconfirmed
BY DEF Balance

(* A batch that moves the counters as it moves the coins.                  *)
LEMMA CountsMove ==
  ASSUME Counts, state' = R',
         NEW Put \in SUBSET Outs, NEW Del \in SUBSET Unspent,
         IsFiniteSet(Put), Unspent \cap Put = {}, Unspent' = (Unspent \ Del) \cup Put,
         IsFiniteSet(Known'), state'.tx = Cardinality(Known'),
         state'.coin = state.coin + Cardinality(Put) - Cardinality(Del),
         state'.unconfirmed = state.unconfirmed + Total(Put) - Total(Del)
  PROVE  Counts'
<1> DEFINE S == Unspent
           T == (S \ Del) \cup Put
<1>1. S \in SUBSET Outs /\ IsFiniteSet(S) /\ state.coin = Cardinality(S) /\ state.unconfirmed = Total(S)
  BY DEF Counts, Unspent, Credits
<1> HIDE DEF S
<1>2. /\ IsFiniteSet(T) /\ Total(T) = Total(S) + Total(Put) - Total(Del)
      /\ Cardinality(T) = Cardinality(S) + Cardinality(Put) - Cardinality(Del)
  BY <1>1, TotalChange DEF S
<1>3. Unspent' = T
  BY DEF S
<1> HIDE DEF T
<1>4. state'.coin = Cardinality(T) /\ state'.unconfirmed = Total(T)
  BY <1>1, <1>2
<1> QED
  BY <1>2, <1>3, <1>4 DEF Counts

LEMMA CountsStay ==
  ASSUME Counts, UNCHANGED <<rec, credit, state, R>>
  PROVE  Counts'
BY DEF Counts, Known, Unspent, Credits

LEMMA ApartStays ==
  ASSUME JobApart, UNCHANGED <<job, rec>>
  PROVE  JobApart'
BY DEF JobApart, Underway, PathApart, Pend

LEMMA ApartEnds ==
  ASSUME job' = Idle \/ job' = [op |-> "threw"]
  PROVE  JobApart'
BY DEF JobApart, Underway, Idle

(* erase gives back the coins that the transaction spent, and takes those  *)
(* that it made.                                                           *)
LEMMA EraseCounts ==
  ASSUME Records, JobOK, Balances, JobApart, Counts, Erase
  PROVE  Counts'
<1> USE Sentinels
<1> DEFINE t == Top.tx
           h == Top.height
           back == HasUndo(t)
           mine == MyOuts(t)
           bal == Coins(state, back, mine)
           bal2 == IF h = Unconfirmed THEN bal ELSE Mined(bal, back, mine)
<1>1. /\ \A o \in OutsOf(t) : spender[o] = None
      /\ spender' = [o \in Outs |-> IF o \in In(t) THEN None ELSE spender[o]]
      /\ rec' = [rec EXCEPT ![t] = None]
      /\ R' = [bal2 EXCEPT !.tx = @ - 1] /\ state' = R'
      /\ job.op \in {"add", "remove"} /\ job.path # <<>>
  BY DEF Erase, Commit, Top
<1>2. t \in Txs /\ rec[t] # None /\ Records'
  BY <1>1, EraseFinds, EraseApart, EraseKeeps
<1>3. RecordTypes /\ Spends /\ (\A o \in Mine : CoinAgrees(o)) /\ Mine \subseteq Outs
      /\ Creator \in [Outs -> Txs \cup {None}]
  BY TXAssumption DEF Records
<1>4. /\ \A u \in Txs : u # t => rec'[u] = rec[u]
      /\ rec'[t] = None
      /\ \A o \in In(t) : o \in Outs /\ spender'[o] = None /\ spender[o] = t /\ Creator[o] # t
      /\ \A o \in Outs : o \notin In(t) => spender'[o] = spender[o]
  BY <1>1, <1>2, <1>3, NotOwn DEF RecordTypes, Spends
<1>5. \A o \in back : o \in In(t) /\ o \in Mine /\ undo[t][o] # None
  BY <1>2, <1>3, <1>4 DEF HasUndo, Spends
<1>6. \A o \in mine : o \in Mine /\ o \in Outs /\ Creator[o] = t /\ spender[o] = None
  BY <1>1, <1>2, NotOwn DEF MyOuts
<1>7. \A o \in Mine : o \in In(t) => (undo[t][o] # None <=> KnownOut(o))
  BY <1>2, <1>3, <1>4 DEF CoinAgrees
<1>8. \A o \in Mine : KnownOut(o)' <=> KnownOut(o) /\ Creator[o] # t
  BY <1>2, <1>3, <1>4 DEF KnownOut
<1>9. /\ Unspent = {o \in Mine : KnownOut(o) /\ spender[o] = None}
      /\ Unspent' = {o \in Mine : KnownOut(o)' /\ spender'[o] = None}
  BY <1>2, UnspentIs, UnspentWillBe
<1>10. /\ mine \in SUBSET Unspent /\ Unspent \cap back = {}
       /\ Unspent' = (Unspent \ mine) \cup back
  <2>1. \A o \in mine : o \in Unspent
    BY <1>2, <1>6, <1>9 DEF KnownOut
  <2>2. \A o \in back : o \notin Unspent
    BY <1>2, <1>4, <1>5, <1>9
  <2>3. ASSUME NEW o \in Mine
        PROVE  o \in Unspent' <=> (o \in Unspent /\ o \notin mine) \/ o \in back
    <3>0. o \in mine <=> Creator[o] = t
      BY <1>3, <1>6 DEF MyOuts, OutsOf
    <3>1. CASE o \in In(t)
      <4>1. o \in back <=> KnownOut(o)
        BY <1>7, <3>1 DEF HasUndo
      <4>2. o \in Unspent' <=> KnownOut(o)'
        BY <1>4, <1>9, <3>1
      <4>3. o \notin Unspent /\ Creator[o] # t
        BY <1>2, <1>4, <1>9, <3>1
      <4> QED
        BY <1>8, <4>1, <4>2, <4>3
    <3>2. CASE o \notin In(t)
      <4>1. o \notin back /\ spender'[o] = spender[o]
        BY <1>3, <1>4, <1>5, <3>2
      <4> QED
        BY <1>8, <1>9, <3>0, <4>1
    <3> QED
      BY <3>1, <3>2
  <2>4. /\ \A o \in Unspent' : o \in Mine
        /\ \A o \in Unspent : o \in Mine
    BY <1>9
  <2> QED
    BY <1>5, <2>1, <2>2, <2>3, <2>4
<1>11. /\ back \in SUBSET Outs /\ mine \in SUBSET Outs /\ IsFiniteSet(back) /\ IsFiniteSet(mine)
  <2>1. back \subseteq In(t)
    BY <1>5
  <2> HIDE DEF back
  <2> QED
    BY <1>2, <2>1, FiniteParts, FS_Subset
<1>12. IsFiniteSet(Known') /\ Cardinality(Known') = Cardinality(Known) - 1
  <2>1. t \in Known /\ Known' = Known \ {t}
    BY <1>2, <1>4 DEF Known
  <2>2. IsFiniteSet(Known)
    BY DEF Counts
  <2> QED
    BY <2>1, <2>2, FS_RemoveElement
<1>13. state \in Balance /\ state.tx = Cardinality(Known)
  BY DEF Balances, Counts
<1> HIDE DEF back, mine, h
<1>14. bal2 \in Balance /\ bal \in Balance
  <2>1. bal \in Balance
    BY <1>11, <1>13, BalanceEdits
  <2> HIDE DEF bal
  <2> QED
    BY <1>11, <2>1, BalanceEdits
<1>15. /\ bal2.tx = state.tx
       /\ bal2.coin = state.coin + Cardinality(back) - Cardinality(mine)
       /\ bal2.unconfirmed = state.unconfirmed + Total(back) - Total(mine)
  <2>1. /\ bal.tx = state.tx
        /\ bal.coin = state.coin + Cardinality(back) - Cardinality(mine)
        /\ bal.unconfirmed = state.unconfirmed + Total(back) - Total(mine)
    BY <1>13, BalanceFields
  <2> HIDE DEF bal
  <2>2. /\ Mined(bal, back, mine).tx = bal.tx /\ Mined(bal, back, mine).coin = bal.coin
        /\ Mined(bal, back, mine).unconfirmed = bal.unconfirmed
    BY <1>14, BalanceFields
  <2>3. bal2 = bal \/ bal2 = Mined(bal, back, mine)
    OBVIOUS
  <2> HIDE DEF bal2
  <2> QED
    BY <2>1, <2>2, <2>3
<1> HIDE DEF bal2
<1>16. state'.tx = bal2.tx - 1 /\ state'.coin = bal2.coin /\ state'.unconfirmed = bal2.unconfirmed
  BY <1>1, <1>14, CountFields
<1>17. /\ state'.tx = Cardinality(Known')
       /\ state'.coin = state.coin + Cardinality(back) - Cardinality(mine)
       /\ state'.unconfirmed = state.unconfirmed + Total(back) - Total(mine)
  BY <1>12, <1>13, <1>15, <1>16
<1> QED
  BY <1>1, <1>10, <1>11, <1>12, <1>17, CountsMove

(* insert takes the coins that the transaction spends, and gives those it  *)
(* makes that nothing spends yet.                                          *)
LEMMA InsertCounts ==
  ASSUME Records, JobOK, Balances, Counts, InsertTX
  PROVE  Counts'
<1> USE Sentinels
<1> DEFINE t == job.tx
           h == job.height
           spent == Spendable(t)
           resolved == Resolved(t)
           new == MyOuts(t) \ resolved
           pending == {o \in resolved : rec[spender[o]] = Unconfirmed}
           bal0 == Coins(state, new, spent)
           bal == [bal0 EXCEPT !.tx = @ + 1]
<1>1. /\ job.op = "add" /\ job.path = <<>> /\ rec[t] = None /\ Removes(t, h)
      /\ spender' = [o \in Outs |-> IF o \in In(t) THEN t ELSE spender[o]]
      /\ rec' = [rec EXCEPT ![t] = h]
  BY DEF InsertTX, Inserting, Working, Removes
<1>2. job \in Job /\ t \in Txs /\ h \in Heights \cup {Unconfirmed} /\ h # None /\ Underway
  BY <1>1, JobFields DEF JobOK, Underway
<1>3. RecordTypes /\ Spends /\ (\A o \in Mine : CoinAgrees(o)) /\ Mine \subseteq Outs
      /\ Creator \in [Outs -> Txs \cup {None}] /\ Records'
  BY TXAssumption, InsertKeeps DEF Records
<1>4. \A o \in In(t) : o \in Outs /\ spender[o] = None /\ spender'[o] # None /\ Creator[o] # t
  <2>1. Pend(job) = {}
    <3>1. job.roots = {}
      BY <1>1, <1>2 DEF JobOK
    <3> QED
      BY <1>1, <3>1 DEF Pend, Range
  <2>2. \A o \in In(t) : spender[o] \in {None, t}
    BY <1>1, <1>2, <2>1 DEF JobOK
  <2>3. \A o \in In(t) : o \in Outs /\ Creator[o] # t
    BY <1>2, NotOwn
  <2> QED
    BY <1>1, <1>2, <1>3, <2>2, <2>3 DEF Spends
<1>5. \A o \in Outs : o \notin In(t) => spender'[o] = spender[o]
  BY <1>1
<1>6. \A o \in Mine : KnownOut(o)' <=> KnownOut(o) \/ Creator[o] = t
  BY <1>1, <1>2, <1>3 DEF KnownOut, RecordTypes
<1>7. /\ Unspent = {o \in Mine : KnownOut(o) /\ spender[o] = None}
      /\ Unspent' = {o \in Mine : KnownOut(o)' /\ spender'[o] = None}
  BY <1>3, UnspentIs, UnspentWillBe
<1>8. \A o \in Mine : o \in new <=> Creator[o] = t /\ spender[o] = None
  <2>1. SUFFICES ASSUME NEW o \in Mine PROVE o \in new <=> Creator[o] = t /\ spender[o] = None
    OBVIOUS
  <2>2. o \in MyOuts(t) <=> Creator[o] = t
    BY <1>3 DEF MyOuts, OutsOf
  <2>3. Creator[o] = t => ~KnownOut(o)
    BY <1>1 DEF KnownOut
  <2>4. Creator[o] = t /\ spender[o] # None => undo[spender[o]][o] = None
    BY <1>3, <2>3 DEF CoinAgrees
  <2> QED
    BY <2>2, <2>4 DEF Resolved
<1>9. \A o \in Mine : o \in spent <=> o \in In(t) /\ o \in Unspent
  <2>1. SUFFICES ASSUME NEW o \in Mine, o \in In(t) PROVE credit[o] # None <=> o \in Unspent
    BY <1>3 DEF Spendable, Credits, Unspent
  <2> QED
    BY <1>3, <1>4, <1>7, <2>1 DEF CoinAgrees
<1>10. /\ \A o \in spent : o \in Mine /\ o \in In(t)
       /\ \A o \in new : o \in Mine /\ o \in MyOuts(t)
  BY <1>3 DEF Spendable, Credits, Spends, MyOuts
<1>11. spent \in SUBSET Unspent /\ Unspent \cap new = {} /\ Unspent' = (Unspent \ spent) \cup new
  <2>1. \A o \in spent : o \in Unspent
    BY <1>9, <1>10
  <2>2. \A o \in new : o \notin Unspent
    BY <1>1, <1>7, <1>8, <1>10 DEF KnownOut
  <2>3. ASSUME NEW o \in Mine
        PROVE  o \in Unspent' <=> (o \in Unspent /\ o \notin spent) \/ o \in new
    <3>1. CASE o \in In(t)
      <4>1. o \notin Unspent' /\ o \notin new
        BY <1>4, <1>7, <1>8, <3>1
      <4> QED
        BY <1>9, <3>1, <4>1
    <3>2. CASE o \notin In(t)
      <4>1. spender'[o] = spender[o] /\ o \notin spent
        BY <1>3, <1>5, <1>9, <3>2
      <4> QED
        BY <1>6, <1>7, <1>8, <4>1
    <3> QED
      BY <3>1, <3>2
  <2>4. /\ \A o \in Unspent' : o \in Mine
        /\ \A o \in Unspent : o \in Mine
    BY <1>7
  <2> HIDE DEF spent, new
  <2> QED
    BY <1>10, <2>1, <2>2, <2>3, <2>4
<1>12. spent \in SUBSET Outs /\ IsFiniteSet(spent) /\ new \in SUBSET Outs /\ IsFiniteSet(new)
  <2>1. spent \subseteq In(t) /\ new \subseteq MyOuts(t)
    BY <1>10
  <2> HIDE DEF spent, new
  <2> QED
    BY <1>2, <2>1, FiniteParts, FS_Subset
<1>13. IsFiniteSet(Known') /\ Cardinality(Known') = Cardinality(Known) + 1
  <2>1. t \notin Known /\ Known' = Known \cup {t}
    BY <1>1, <1>2, <1>3 DEF Known, RecordTypes
  <2>2. IsFiniteSet(Known)
    BY DEF Counts
  <2> QED
    BY <2>1, <2>2, FS_AddElement
<1> DEFINE both == new \cup pending
<1>14. state' = R' /\ (R' = bal \/ R' = Mined(bal, both, spent))
  <2>1. IF h = Unconfirmed THEN Commit(bal) ELSE Commit(Mined(bal, new \cup pending, spent))
    BY DEF InsertTX
  <2> HIDE DEF bal, new, pending, spent
  <2> QED
    BY <2>1 DEF Commit
<1>15. state \in Balance /\ state.tx = Cardinality(Known)
  BY DEF Balances, Counts
<1> HIDE DEF spent, new, both
<1>16. bal0 \in Balance
  BY <1>12, <1>15, BalanceEdits
<1>17. /\ bal0.tx = state.tx
       /\ bal0.coin = state.coin + Cardinality(new) - Cardinality(spent)
       /\ bal0.unconfirmed = state.unconfirmed + Total(new) - Total(spent)
  BY <1>15, BalanceFields
<1> HIDE DEF bal0
<1>18. /\ bal.tx = bal0.tx + 1 /\ bal.coin = bal0.coin /\ bal.unconfirmed = bal0.unconfirmed
       /\ bal \in Balance
  BY <1>16, CountFields, CountEdits
<1> HIDE DEF bal
<1>19. /\ state'.tx = bal.tx /\ state'.coin = bal.coin /\ state'.unconfirmed = bal.unconfirmed
  BY <1>14, <1>18, BalanceFields
<1>20. /\ state'.tx = Cardinality(Known')
       /\ state'.coin = state.coin + Cardinality(new) - Cardinality(spent)
       /\ state'.unconfirmed = state.unconfirmed + Total(new) - Total(spent)
  BY <1>13, <1>15, <1>17, <1>18, <1>19
<1> QED
  BY <1>11, <1>12, <1>13, <1>14, <1>20, CountsMove

(* A confirmation and a disconnection move coins between confirmed and     *)
(* unconfirmed, and none in or out.                                        *)
LEMMA HeightCounts ==
  ASSUME Records, JobOK, Balances, Counts, ConfirmTX \/ DisconnectTX
  PROVE  Counts'
<1> USE Sentinels
<1> DEFINE t == job.tx
<1>1. /\ t \in Txs /\ rec[t] \in Heights \cup {Unconfirmed}
      /\ \E h \in Heights \cup {Unconfirmed} : rec' = [rec EXCEPT ![t] = h]
      /\ spender' = spender /\ Records'
  <2>1. CASE ConfirmTX
    <3>1. job.op = "add" /\ rec[t] = Unconfirmed
          /\ rec' = [rec EXCEPT ![t] = job.height]
          /\ spender' = [o \in Outs |-> IF o \in Late(t) THEN t ELSE spender[o]]
      BY <2>1 DEF ConfirmTX, Confirming, Working
    <3>2. t \in Txs /\ job.height \in Heights \cup {Unconfirmed}
      BY <3>1, JobFields DEF JobOK
    <3>3. spender' = spender
      <4>1. Late(t) = {}
        BY <3>1, <3>2, NoneLate
      <4> QED
        BY <3>1, <4>1 DEF Records, RecordTypes
    <3> QED
      BY <2>1, <3>1, <3>2, <3>3, ConfirmKeeps
  <2>2. CASE DisconnectTX
    <3>1. job.op = "unconfirm" /\ rec[t] \in Heights
          /\ rec' = [rec EXCEPT ![t] = Unconfirmed] /\ spender' = spender
      BY <2>2 DEF DisconnectTX, Disconnecting, Working
    <3>2. t \in Txs
      BY <3>1, JobFields DEF JobOK
    <3> QED
      BY <2>2, <3>1, <3>2, DisconnectKeeps
  <2> QED
    BY <2>1, <2>2
<1>2. \A u \in Txs : rec'[u] # None <=> rec[u] # None
  BY <1>1 DEF Records, RecordTypes
<1>3. Known' = Known /\ \A o \in Mine : KnownOut(o)' <=> KnownOut(o)
  BY <1>2, TXAssumption DEF Known, KnownOut
<1>4. Unspent' = Unspent
  <2>1. /\ Unspent = {o \in Mine : KnownOut(o) /\ spender[o] = None}
        /\ Unspent' = {o \in Mine : KnownOut(o)' /\ spender'[o] = None}
    BY <1>1, UnspentIs, UnspentWillBe
  <2> QED
    BY <1>1, <1>3, <2>1
<1>5. state \in Balance /\ state.tx \in Int /\ state.coin \in Int /\ state.unconfirmed \in Int
  BY DEF Balances, Balance
<1>6. state' = R' /\ state'.tx = state.tx /\ state'.coin = state.coin
      /\ state'.unconfirmed = state.unconfirmed
  <2>1. CASE ConfirmTX
    <3> DEFINE bal == Coins(state, {}, {})
    <3>1. Late(t) = {}
      BY <1>1, <2>1, NoneLate DEF ConfirmTX, Confirming
    <3>2. state' = R' /\ R' = Mined(bal, MyOuts(t), HasUndo(t))
      BY <2>1, <3>1 DEF ConfirmTX, Commit
    <3>3. Cardinality({}) = 0 /\ Total({}) = 0 /\ IsFiniteSet({}) /\ {} \in SUBSET Outs
      BY FS_EmptySet, TotalStep
    <3>4. bal \in Balance /\ bal.tx = state.tx /\ bal.coin = state.coin /\ bal.unconfirmed = state.unconfirmed
      <4>1. bal \in Balance
        BY <1>5, <3>3, BalanceEdits
      <4>2. /\ bal.tx = state.tx
            /\ bal.coin = state.coin + Cardinality({}) - Cardinality({})
            /\ bal.unconfirmed = state.unconfirmed + Total({}) - Total({})
        BY <1>5, BalanceFields
      <4> HIDE DEF bal
      <4> QED
        BY <1>5, <3>3, <4>1, <4>2
    <3> HIDE DEF bal
    <3> QED
      BY <3>2, <3>4, BalanceFields
  <2>2. CASE DisconnectTX
    <3>1. state' = R' /\ R' = Mined(state, HasUndo(t), MyOuts(t) \cap Credits)
      BY <2>2 DEF DisconnectTX, Commit
    <3> QED
      BY <1>5, <3>1, BalanceFields
  <2> QED
    BY <2>1, <2>2
<1> QED
  BY <1>3, <1>4, <1>6 DEF Counts

(* All of them start right ...                                             *)
LEMMA InitCounts ==
  ASSUME Init
  PROVE  CountInv
<1>1. WalletInv
  BY InitOK
<1> DEFINE txs == IF Marked THEN BlockTxs[Start] ELSE <<>>
           confirmed == Range(txs)
<1>2. /\ rec = [t \in Txs |-> IF t \in confirmed THEN 0 ELSE None]
      /\ credit = [o \in Outs |-> IF o \in Mine /\ Creator[o] \in confirmed
                                  THEN [height |-> 0, spent |-> FALSE] ELSE None]
      /\ state = [tx |-> Cardinality(confirmed), coin |-> Cardinality(Credits),
                  unconfirmed |-> Total(Credits), confirmed |-> Total(Credits)]
      /\ R = state /\ job = Idle
  BY DEF Init, InitWith
<1>3. txs \in Seq(Txs)
  BY WalletAssumption, EmptySeq
<1>4. IsFiniteSet(confirmed) /\ \A t \in confirmed : t \in Txs
  <2>1. Len(txs) \in Nat /\ DOMAIN txs = 1..Len(txs) /\ \A i \in 1..Len(txs) : txs[i] \in Txs
    BY <1>3, LenProperties, ElementOfSeq
  <2>2. IsFiniteSet(1..Len(txs))
    BY <2>1, FS_Interval
  <2> DEFINE f == [i \in 1..Len(txs) |-> txs[i]]
  <2>3. f \in Surjection(1..Len(txs), confirmed)
    BY <2>1 DEF Surjection, Range
  <2> HIDE DEF f, txs
  <2> QED
    BY <2>1, <2>2, <2>3, FS_Surjection DEF Range
<1> HIDE DEF txs
<1>5. Known = confirmed
  <2> HIDE DEF confirmed
  <2> QED
    BY <1>2, <1>4, TXAssumption DEF Known
<1>6. IsFiniteSet(Credits)
  <2> DEFINE made == {MyOuts(t) : t \in confirmed}
             all == UNION made
             f == [t \in confirmed |-> MyOuts(t)]
  <2>1. f \in Surjection(confirmed, made)
    BY DEF Surjection
  <2>2. \A S \in made : IsFiniteSet(S)
    BY <1>4, FiniteParts
  <2>3. Credits \subseteq all
    BY <1>2 DEF Credits, MyOuts, OutsOf
  <2> HIDE DEF f, made
  <2>4. IsFiniteSet(made)
    <3> HIDE DEF confirmed
    <3> QED
      BY <1>4, <2>1, FS_Surjection
  <2>5. IsFiniteSet(all)
    BY <2>2, <2>4, FS_UNION
  <2> HIDE DEF all
  <2> QED
    BY <2>3, <2>5, FS_Subset
<1>7. Unspent = Credits
  <2> HIDE DEF confirmed
  <2> QED
    BY <1>2 DEF Unspent, Credits
<1>8. Counts
  <2>1. state.tx = Cardinality(confirmed) /\ state.coin = Cardinality(Credits)
        /\ state.unconfirmed = Total(Credits) /\ state = R
    BY <1>2
  <2> QED
    BY <1>4, <1>5, <1>6, <1>7, <2>1 DEF Counts
<1>9. JobApart
  BY <1>2 DEF JobApart, Underway, Idle
<1> QED
  BY <1>1, <1>8, <1>9 DEF CountInv

(* ... and stay so, step by step.                                          *)
LEMMA StepCounts ==
  ASSUME CountInv, Step
  PROVE  Counts' /\ JobApart'
<1>0. Records /\ JobOK /\ Balances /\ Counts /\ JobApart
  BY DEF CountInv, WalletInv
<1>1. CASE Descend
  BY <1>0, <1>1, CountsStay, DescendApart DEF Descend, records
<1>2. CASE Erase
  BY <1>0, <1>2, EraseCounts, EraseApart
<1>3. CASE Ignore \/ Reject \/ NothingToUnconfirm \/ IndexRBF
  <2>1. job' = Idle /\ UNCHANGED <<rec, credit, state, R>>
    BY <1>3 DEF Ignore, Reject, NothingToUnconfirm, IndexRBF, Done, records
  <2> QED
    BY <1>0, <2>1, ApartEnds, CountsStay
<1>4. CASE InsertTX
  BY <1>0, <1>4, InsertCounts, ApartEnds DEF InsertTX, Done
<1>5. CASE ConfirmTX \/ DisconnectTX
  <2>1. job' = Idle
    BY <1>5 DEF ConfirmTX, DisconnectTX, Done
  <2> QED
    BY <1>0, <1>5, <2>1, HeightCounts, ApartEnds
<1>6. CASE ConfirmThrows \/ DisconnectThrows
  <2>1. (job' = Idle \/ job' = [op |-> "threw"]) /\ UNCHANGED <<rec, credit, state, R>>
    BY <1>6 DEF ConfirmThrows, DisconnectThrows, Throws, records
  <2> QED
    BY <1>0, <2>1, ApartEnds, CountsStay
<1> QED
  BY <1>1, <1>2, <1>3, <1>4, <1>5, <1>6 DEF Step

LEMMA NextCounts ==
  ASSUME ConflictsApart, CountInv, [Next]_allVars
  PROVE  CountInv'
<1>0. Records /\ JobOK /\ Balances /\ Counts /\ JobApart /\ work \in Work /\ WalletInv
  BY DEF CountInv, WalletInv, WalletOK
<1>1. WalletInv'
  BY <1>0, NextKeeps
<1>2. Counts' /\ JobApart'
  <2>1. CASE UNCHANGED vars
    BY <1>0, <2>1, CountsStay, ApartStays DEF vars
  <2>2. CASE Step
    BY <2>2, StepCounts
  <2>3. CASE Insert
    <3>1. Add(Head(work.todo), HeightIn(work.block), FALSE)
          /\ work.op \in {"connect", "scan"} /\ work.todo # <<>>
      BY <2>3 DEF Insert, Inserts
    <3>2. work.block \in Blocks \cup {None} /\ work.todo \in Seq(Txs)
      BY <1>0, <3>1, WorkFields DEF ConnectWork, ScanWork
    <3>3. HeightIn(work.block) \in Heights \cup {Unconfirmed} /\ Head(work.todo) \in Txs
      BY <3>1, <3>2, WalletAssumption, TailIsSeq DEF HeightIn
    <3>4. UNCHANGED <<rec, credit, state, R>>
      BY <3>1 DEF Add, records
    <3> QED
      BY <1>0, <3>1, <3>3, <3>4, CountsStay, AddApart
  <2>4. CASE UnconfirmNext
    <3>1. Unconfirm(Head(work.todo))
          /\ work.op \in {"connect", "disconnect", "revert", "scan"} /\ work.todo # <<>>
      BY <2>4 DEF UnconfirmNext
    <3>2. Head(work.todo) \in Txs
      BY <1>0, <3>1, TodoEdits, TailIsSeq
    <3>3. UNCHANGED <<rec, credit, state, R>>
      BY <3>1 DEF Unconfirm, records
    <3> QED
      BY <1>0, <3>1, <3>2, <3>3, CountsStay, OneApart
  <2>5. ASSUME NEW t \in Txs, Abandon(t) PROVE Counts' /\ JobApart'
    <3>1. RemoveTX(t) /\ UNCHANGED <<rec, credit, state, R>>
      BY <2>5 DEF Abandon, RemoveTX, records
    <3> QED
      BY <1>0, <3>1, CountsStay, OneApart
  <2>6. CASE Caught \/ BatchFails
    <3>1. /\ job' = Idle \/ job' = [op |-> "threw"]
          /\ UNCHANGED <<rec, credit, state, R>>
      BY <2>6 DEF Caught, BatchFails, CommitFails, KeepState, records
    <3> QED
      BY <1>0, <3>1, ApartEnds, CountsStay
  <2>7. CASE Crash
    <3>1. job' = Idle /\ state' = R /\ UNCHANGED <<rec, credit, R>>
      BY <2>7 DEF Crash, records
    <3>2. state' = state
      BY <1>0, <3>1 DEF Counts
    <3> QED
      BY <1>0, <3>1, <3>2, ApartEnds, CountsStay
  <2>8. CASE NodeStep \/ Open \/ Opened \/ (\E h \in Heights : Rescan(h))
    <3>1. UNCHANGED vars
      BY <2>8 DEF NodeStep, Connect, ChainReset, Disconnect, Relay, Open, Opened, Rescan
    <3> QED
      BY <2>1, <3>1
  <2>9. CASE WalletStep
    <3>1. CASE \/ ConnectBlock \/ AddTX \/ RemoveBlock \/ RollBack \/ StartRescan \/ Drop
               \/ Skip \/ MaybeMark
      <4>1. UNCHANGED vars
        BY <3>1 DEF ConnectBlock, AddTX, RemoveBlock, RollBack, StartRescan, Drop, Skip, MaybeMark
      <4> QED
        BY <2>1, <4>1
    <3>2. CASE Connected \/ Disconnected \/ Reverted \/ LockChain \/ ScanBlock \/ Scanned
      <4>1. UNCHANGED vars
        BY <3>2 DEF Connected, Disconnected, Reverted, LockChain, ScanBlock, Scanned
      <4> QED
        BY <2>1, <4>1
    <3> QED
      BY <2>2, <2>3, <2>4, <2>6, <2>9, <3>1, <3>2 DEF WalletStep
  <2>10. CASE UNCHANGED allVars
    BY <2>1, <2>10 DEF allVars
  <2> QED
    BY <2>5, <2>6, <2>7, <2>8, <2>9, <2>10 DEF Next, Undisturbed
<1> QED
  BY <1>1, <1>2 DEF CountInv

(* The counters of the balance, in memory and on disk, are those of the    *)
(* transactions on record and of the coins that are not spent, and the     *)
(* unconfirmed figure is the sum over those coins, through every conflict, *)
(* reorganisation, crash and batch that fails: CountsAreSums of module     *)
(* WalletDB.  Where two inputs of a transaction are contested by one other *)
(* (txdb.js:1512) a removal would count it twice: ConflictsApart leaves that out.   *)
THEOREM CountsCorrect == ConflictsApart => (Spec => []CountsAreSums)
<1>1. Init => CountInv
  BY InitCounts
<1>2. ConflictsApart /\ CountInv /\ [Next]_allVars => CountInv'
  BY NextCounts
<1>3. CountInv => CountsAreSums
  BY DEF CountInv, Counts, CountsAreSums, Unspent
<1>4. CASE ConflictsApart
  <2>1. CountInv /\ [Next]_allVars => CountInv'
    BY <1>2, <1>4
  <2> QED
    BY <1>1, <1>3, <2>1, PTL DEF Spec
<1>5. CASE ~ConflictsApart
  BY <1>5
<1> QED
  BY <1>4, <1>5
-----------------------------------------------------------------------------
(* The promise of WalletLedger, but for the confirmed figure.              *)

(* The abstract wallet with the heights on record, and the balance that    *)
(* these heights call for.                                                 *)
Promise == INSTANCE WalletLedger WITH
  Spends <- [t \in Txs |-> In(t)], height <- rec, balance <- Ledger!BalanceOf(rec)

(* Three of the figures on disk are the ones they call for.                *)
FiguresAreRight ==
  /\ R.tx = Ledger!BalanceOf(rec).tx
  /\ R.coin = Ledger!BalanceOf(rec).coin
  /\ R.unconfirmed = Ledger!BalanceOf(rec).unconfirmed

(* The modules sum the same values.                                        *)
LEMMA SameSum ==
  ASSUME NEW S
  PROVE  Ledger!Sum(S) = Total(S) /\ Promise!Sum(S) = Total(S)
<1>1. Ledger!Sum(S) = Total(S)
  BY Zenon DEF Ledger!Sum, Ledger!MapThenSumSet, Ledger!MapThenFoldSet,
               Total, MapThenSumSet, MapThenFoldSet
<1>2. Promise!Sum(S) = Total(S)
  BY Zenon DEF Promise!Sum, Promise!MapThenSumSet, Promise!MapThenFoldSet,
               Total, MapThenSumSet, MapThenFoldSet
<1> QED
  BY <1>1, <1>2

LEMMA SameCardinality ==
  ASSUME NEW S
  PROVE  Ledger!Cardinality(S) = Cardinality(S) /\ Promise!Cardinality(S) = Cardinality(S)
<1>1. Ledger!Cardinality(S) = Cardinality(S)
  BY Zenon DEF Ledger!Cardinality, Cardinality
<1>2. Promise!Cardinality(S) = Cardinality(S)
  BY Zenon DEF Promise!Cardinality, Cardinality
<1> QED
  BY <1>1, <1>2

(* The two instances define one function of the heights.                   *)
LEMMA SameBalance ==
  ASSUME NEW f
  PROVE  Promise!BalanceOf(f) = Ledger!BalanceOf(f)
<1>1. Promise!Known(f) = Ledger!Known(f)
  BY DEF Promise!Known, Ledger!Known
<1>2. Promise!Mined(f) = Ledger!Mined(f)
  BY <1>1 DEF Promise!Mined, Ledger!Mined
<1>3. ASSUME NEW A PROVE Promise!Sum(Promise!Unspent(A, A)) = Ledger!Sum(Ledger!Unspent(A, A))
                         /\ Promise!Unspent(A, A) = Ledger!Unspent(A, A)
  <2>1. Promise!Unspent(A, A) = Ledger!Unspent(A, A)
    BY DEF Promise!Unspent, Ledger!Unspent
  <2> QED
    BY <2>1, SameSum
<1> DEFINE B == Promise!BalanceOf(f)
           C == Ledger!BalanceOf(f)
<1>4. /\ B = [tx |-> B.tx, coin |-> B.coin, unconfirmed |-> B.unconfirmed, confirmed |-> B.confirmed]
      /\ C = [tx |-> C.tx, coin |-> C.coin, unconfirmed |-> C.unconfirmed, confirmed |-> C.confirmed]
  BY Zenon DEF Promise!BalanceOf, Ledger!BalanceOf
<1>5. B.tx = C.tx /\ B.coin = C.coin
  BY <1>1, <1>3, SameCardinality DEF Promise!BalanceOf, Ledger!BalanceOf
<1>6. B.unconfirmed = C.unconfirmed
  BY <1>1, <1>3 DEF Promise!BalanceOf, Ledger!BalanceOf
<1>7. B.confirmed = C.confirmed
  BY <1>2, <1>3 DEF Promise!BalanceOf, Ledger!BalanceOf
<1> HIDE DEF B, C
<1>8. B = C
  BY <1>4, <1>5, <1>6, <1>7
<1> QED
  BY <1>8 DEF B, C

LEMMA PromiseMoves ==
  ASSUME NEW t \in Txs, NEW h, rec' = [rec EXCEPT ![t] = h]
  PROVE  Promise!Now(t, h)
<1>1. Promise!BalanceOf(rec') = Ledger!BalanceOf(rec')
  BY SameBalance
<1>2. Ledger!BalanceOf(rec)' = Ledger!BalanceOf(rec')
  OBVIOUS
<1> QED
  BY <1>1, <1>2 DEF Promise!Now

(* Each batch is one step of the abstract wallet, or changes no height.    *)
LEMMA InsertEnters ==
  ASSUME Records, JobOK, InsertTX
  PROVE  Promise!Next
<1> USE Sentinels
<1>1. /\ job.op = "add" /\ job.path = <<>> /\ rec[job.tx] = None
      /\ Removes(job.tx, job.height) /\ rec' = [rec EXCEPT ![job.tx] = job.height]
  BY DEF InsertTX, Inserting, Working, Removes
<1>2. job \in Job /\ job.tx \in Txs /\ job.height \in Heights \cup {Unconfirmed} /\ Underway
  BY <1>1, JobFields DEF JobOK, Underway
<1>3. Pend(job) = {}
  <2>1. job.roots = {}
    BY <1>1, <1>2 DEF JobOK
  <2> QED
    BY <1>1, <2>1 DEF Pend, Range
<1>4. \A o \in In(job.tx) : spender[o] \in {None, job.tx}
  BY <1>1, <1>2, <1>3 DEF JobOK
<1>5. ASSUME NEW u \in Txs, rec[u] # None PROVE In(u) \cap In(job.tx) = {}
  <2>1. ASSUME NEW o \in In(u), o \in In(job.tx) PROVE FALSE
    <3>1. o \in Outs
      BY TXAssumption, ElementOfSeq DEF In, Range
    <3>2. spender[o] = u
      BY <1>5, <2>1, <3>1 DEF Records, Spends
    <3> QED
      BY <1>1, <1>4, <1>5, <2>1, <3>2
  <2> QED
    BY <2>1
<1>6. Promise!Now(job.tx, job.height)
  BY <1>1, <1>2, PromiseMoves
<1>7. Promise!Enter(job.tx, job.height)
  BY <1>1, <1>2, <1>5, <1>6 DEF Promise!Enter, Promise!Known
<1> QED
  BY <1>2, <1>7 DEF Promise!Next, Heights, Unconfirmed

LEMMA ConfirmConfirms ==
  ASSUME Records, JobOK, ConfirmTX
  PROVE  Promise!Next
<1> USE Sentinels
<1>1. job.op = "add" /\ rec[job.tx] = Unconfirmed /\ job.height # Unconfirmed
      /\ rec' = [rec EXCEPT ![job.tx] = job.height]
  BY DEF ConfirmTX, Confirming, Working
<1>2. job.tx \in Txs /\ job.height \in Heights
  BY <1>1, JobFields DEF JobOK
<1>3. Promise!Confirm(job.tx, job.height)
  BY <1>1, <1>2, PromiseMoves DEF Promise!Confirm, Unconfirmed
<1> QED
  BY <1>2, <1>3 DEF Promise!Next, Heights

LEMMA DisconnectUnconfirms ==
  ASSUME Records, JobOK, DisconnectTX
  PROVE  Promise!Next
<1> USE Sentinels
<1>1. job.op = "unconfirm" /\ rec[job.tx] \in Heights
      /\ rec' = [rec EXCEPT ![job.tx] = Unconfirmed]
  BY DEF DisconnectTX, Disconnecting, Working
<1>2. job.tx \in Txs
  BY <1>1, JobFields DEF JobOK
<1>3. Promise!Unconfirm(job.tx)
  BY <1>1, <1>2, PromiseMoves DEF Promise!Unconfirm, Promise!Mined, Promise!Known, Unconfirmed
<1> QED
  BY <1>2, <1>3 DEF Promise!Next

(* What is erased is gone already, or no known transaction spends it.      *)
LEMMA EraseLeaves ==
  ASSUME Records, JobOK, Erase
  PROVE  Promise!Next \/ UNCHANGED rec
<1> USE Sentinels
<1>1. /\ job.op \in {"add", "remove"} /\ job.path # <<>>
      /\ \A o \in OutsOf(Top.tx) : spender[o] = None
      /\ rec' = [rec EXCEPT ![Top.tx] = None]
  BY DEF Erase, Top
<1>2. Top.tx \in Txs
  BY <1>1, EraseFinds
<1>3. rec \in [Txs -> Heights \cup {Unconfirmed, None}]
  BY DEF Records, RecordTypes
<1>4. CASE rec[Top.tx] = None
  BY <1>1, <1>3, <1>4
<1>5. CASE rec[Top.tx] # None
  <2>1. ASSUME NEW u \in Txs, rec[u] # None, NEW o \in In(u) PROVE Creator[o] # Top.tx
    <3>1. o \in Outs
      BY TXAssumption, ElementOfSeq DEF In, Range
    <3>2. spender[o] = u
      BY <2>1, <3>1 DEF Records, Spends
    <3> QED
      BY <1>1, <3>1, <3>2 DEF OutsOf
  <2>2. Promise!Leave(Top.tx)
    BY <1>1, <1>2, <1>5, <2>1, PromiseMoves DEF Promise!Leave, Promise!Known
  <2> QED
    BY <1>2, <2>2 DEF Promise!Next
<1> QED
  BY <1>4, <1>5

(* No other step changes a height, a spend or the balance on disk.         *)
LEMMA FourBatches ==
  ASSUME [Next]_allVars
  PROVE  \/ Erase \/ InsertTX \/ ConfirmTX \/ DisconnectTX
         \/ UNCHANGED <<rec, spender, R>>
<1>1. CASE Step
  <2>1. CASE \/ Descend \/ Ignore \/ IndexRBF \/ Reject \/ ConfirmThrows \/ DisconnectThrows
             \/ NothingToUnconfirm
    BY <2>1 DEF Descend, Ignore, IndexRBF, Reject, ConfirmThrows, DisconnectThrows, Throws,
                NothingToUnconfirm, records
  <2> QED
    BY <1>1, <2>1 DEF Step
<1>2. CASE NodeStep \/ Open \/ Opened \/ (\E h \in Heights : Rescan(h))
  BY <1>2 DEF NodeStep, Connect, ChainReset, Disconnect, Relay, Open, Opened, Rescan, vars
<1>3. CASE \/ ConnectBlock \/ AddTX \/ RemoveBlock \/ RollBack \/ StartRescan \/ Drop
           \/ Skip \/ MaybeMark
  BY <1>3 DEF ConnectBlock, AddTX, RemoveBlock, RollBack, StartRescan, Drop, Skip, MaybeMark, vars
<1>4. CASE Connected \/ Disconnected \/ Reverted \/ LockChain \/ ScanBlock \/ Scanned
  BY <1>4 DEF Connected, Disconnected, Reverted, LockChain, ScanBlock, Scanned, vars
<1>5. CASE Insert \/ UnconfirmNext \/ Caught \/ BatchFails \/ Crash \/ (\E t \in Txs : Abandon(t))
  BY <1>5 DEF Insert, Add, UnconfirmNext, Unconfirm, Caught, BatchFails, CommitFails, Crash,
              Abandon, RemoveTX, records
<1>6. CASE UNCHANGED allVars
  BY <1>6 DEF allVars, vars
<1> QED
  BY <1>1, <1>2, <1>3, <1>4, <1>5, <1>6 DEF Next, Undisturbed, WalletStep

LEMMA NextMoves ==
  ASSUME WalletInv, [Next]_allVars
  PROVE  Promise!Next \/ UNCHANGED rec
<1>1. Records /\ JobOK
  BY DEF WalletInv
<1> QED
  BY <1>1, FourBatches, EraseLeaves, InsertEnters, ConfirmConfirms, DisconnectUnconfirms

(* Transactions enter the wallet, are confirmed, lose their confirmation   *)
(* and leave one by one: none enters that spends what a known one spends,  *)
(* and none leaves before those that spend it, through conflicts,          *)
(* reorganisations, crashes and batches that fail.  This is WalletLedger   *)
(* of the heights on record.                                               *)
THEOREM HeightsKeepPromise == Spec => Promise!Spec
<1>1. Init => Promise!Init
  BY SameBalance DEF Init, InitWith, Promise!Init
<1>2. WalletInv /\ [Next]_allVars => [Promise!Next]_<<rec, Ledger!BalanceOf(rec)>>
  <2>1. ASSUME UNCHANGED rec PROVE UNCHANGED <<rec, Ledger!BalanceOf(rec)>>
    BY <2>1
  <2> QED
    BY <2>1, NextMoves
<1>3. Init => WalletInv
  BY InitOK
<1>4. WalletInv /\ [Next]_allVars => WalletInv'
  BY NextKeeps
<1> QED
  BY <1>1, <1>2, <1>3, <1>4, PTL DEF Spec, Promise!Spec, Promise!ledgerVars

(* The figures are right where the counters are sums.                      *)
LEMMA CountsFigures ==
  ASSUME CountInv
  PROVE  FiguresAreRight
<1>1. Records /\ Counts
  BY DEF CountInv, WalletInv
<1>2. Ledger!Known(rec) = Known
  BY DEF Ledger!Known, Known
<1>3. Ledger!Unspent(Known, Known) = Unspent
  <2>1. Ledger!Unspent(Known, Known)
          = {o \in Mine : Creator[o] \in Known /\ \A t \in Known : o \notin In(t)}
    BY DEF Ledger!Unspent, Known
  <2>2. Mine \subseteq Outs /\ Creator \in [Outs -> Txs \cup {None}] /\ None \notin Txs
    BY TXAssumption
  <2>3. ASSUME NEW o \in Mine
        PROVE  /\ Creator[o] \in Known <=> KnownOut(o)
               /\ (\A t \in Known : o \notin In(t)) <=> spender[o] = None
    <3>1. Creator[o] \in Known <=> KnownOut(o)
      BY <2>2 DEF Known, KnownOut
    <3>2. /\ spender[o] # None => spender[o] \in Known /\ o \in In(spender[o])
          /\ \A t \in Known : o \in In(t) => spender[o] = t
      BY <1>1, <2>2 DEF Records, Spends, RecordTypes, Known
    <3> QED
      BY <2>2, <3>1, <3>2 DEF Known
  <2> QED
    BY <1>1, <2>1, <2>3, UnspentIs
<1>4. Ledger!Sum(Unspent) = Total(Unspent)
  BY SameSum
<1>5. /\ Ledger!BalanceOf(rec).tx = Cardinality(Known)
      /\ Ledger!BalanceOf(rec).coin = Cardinality(Unspent)
      /\ Ledger!BalanceOf(rec).unconfirmed = Total(Unspent)
  <2>1. Ledger!BalanceOf(rec).tx = Cardinality(Known)
    BY <1>2, SameCardinality DEF Ledger!BalanceOf
  <2>2. Ledger!BalanceOf(rec).coin = Cardinality(Unspent)
    BY <1>2, <1>3, SameCardinality DEF Ledger!BalanceOf
  <2>3. Ledger!BalanceOf(rec).unconfirmed = Total(Unspent)
    BY <1>2, <1>3, <1>4 DEF Ledger!BalanceOf
  <2> QED
    BY <2>1, <2>2, <2>3
<1> QED
  BY <1>1, <1>5 DEF Counts, FiguresAreRight

(* ... and the balance on disk has the number of these transactions, the   *)
(* number of the wallet's outputs that they leave unspent and their sum,   *)
(* where no conflict is met twice (txdb.js:1512).                          *)
THEOREM FiguresCorrect == ConflictsApart => (Spec => []FiguresAreRight)
<1>1. CountInv => FiguresAreRight
  BY CountsFigures
<1>2. Init => CountInv
  BY InitCounts
<1>3. ConflictsApart /\ CountInv /\ [Next]_allVars => CountInv'
  BY NextCounts
<1>4. CASE ConflictsApart
  <2>1. CountInv /\ [Next]_allVars => CountInv'
    BY <1>3, <1>4
  <2> QED
    BY <1>1, <1>2, <2>1, PTL DEF Spec
<1>5. CASE ~ConflictsApart
  BY <1>5
<1> QED
  BY <1>4, <1>5
=============================================================================
