----------------------------- MODULE LockProofs -----------------------------
(***************************************************************************)
(* Proofs about module Lock, for any number of calls and names: mutual     *)
(* exclusion, the asserts of unlock(), and the exactness of the name       *)
(* counts that the chain's duplicate check reads.                          *)
(***************************************************************************)
EXTENDS Lock, FiniteSetTheorems, SequenceTheorems, TLAPS

JobSet == [client : Clients, name : JobNames]

(* The positions at which q holds a job named n.                           *)
Positions(q, n) == {i \in 1..Len(q) : q[i].name = n}

(* Appending a job adds one position to those of its own name.             *)
LEMMA PositionsAppend ==
  ASSUME NEW q \in Seq(JobSet), NEW j \in JobSet, NEW n \in JobNames
  PROVE  /\ IsFiniteSet(Positions(q, n))
         /\ Cardinality(Positions(q, n)) \in Nat
         /\ Cardinality(Positions(Append(q, j), n))
              = Cardinality(Positions(q, n)) + (IF j.name = n THEN 1 ELSE 0)
PROOF
<1>1. IsFiniteSet(Positions(q, n)) /\ Cardinality(Positions(q, n)) \in Nat
  <2>1. IsFiniteSet(1..Len(q))
    BY FS_Interval
  <2>2. Positions(q, n) \in SUBSET (1..Len(q))
    BY DEF Positions
  <2>3. QED
    BY <2>1, <2>2, FS_Subset, FS_CardinalityType
<1>2. Positions(Append(q, j), n)
        = Positions(q, n) \cup (IF j.name = n THEN {Len(q) + 1} ELSE {})
  <2>1. /\ Len(Append(q, j)) = Len(q) + 1
        /\ \A i \in 1..Len(q) : Append(q, j)[i] = q[i]
        /\ Append(q, j)[Len(q) + 1] = j
    BY AppendProperties
  <2>2. Len(q) \in Nat
    BY LenProperties
  <2>3. 1..(Len(q) + 1) = 1..Len(q) \cup {Len(q) + 1}
    BY <2>2
  <2>4. QED
    BY <2>1, <2>2, <2>3 DEF Positions
<1>3. Len(q) + 1 \notin Positions(q, n)
  BY LenProperties DEF Positions
<1>4. CASE j.name = n
  <2>1. Positions(Append(q, j), n) = Positions(q, n) \cup {Len(q) + 1}
    BY <1>2, <1>4
  <2>2. QED
    BY <1>1, <1>3, <1>4, <2>1, FS_AddElement
<1>5. CASE j.name # n
  BY <1>1, <1>2, <1>5
<1>6. QED
  BY <1>1, <1>4, <1>5

(* Taking the first job away removes one position from those of its name.  *)
LEMMA PositionsTail ==
  ASSUME NEW q \in Seq(JobSet), q # <<>>, NEW n \in JobNames
  PROVE  /\ Cardinality(Positions(q, n)) \in Nat
         /\ Cardinality(Positions(Tail(q), n))
              = Cardinality(Positions(q, n)) - (IF Head(q).name = n THEN 1 ELSE 0)
         /\ Head(q).name = n => Cardinality(Positions(q, n)) > 0
PROOF
<1> DEFINE rest == Positions(q, n) \ {1}
           shift == [i \in rest |-> i - 1]
<1>1. /\ Len(q) \in Nat /\ Len(q) > 0
      /\ Len(Tail(q)) = Len(q) - 1
      /\ \A i \in 1..Len(Tail(q)) : Tail(q)[i] = q[i + 1]
      /\ Head(q) = q[1]
  BY HeadTailProperties, LenProperties, EmptySeq
<1>2. IsFiniteSet(Positions(q, n))
  <2>1. IsFiniteSet(1..Len(q)) /\ Positions(q, n) \in SUBSET (1..Len(q))
    BY <1>1, FS_Interval DEF Positions
  <2>2. QED
    BY <2>1, FS_Subset
<1>3. IsFiniteSet(rest)
      /\ Cardinality(rest) = Cardinality(Positions(q, n)) - (IF Head(q).name = n THEN 1 ELSE 0)
  <2>1. 1 \in Positions(q, n) <=> Head(q).name = n
    BY <1>1 DEF Positions
  <2>2. Cardinality(Positions(q, n)) \in Nat
    BY <1>2, FS_CardinalityType
  <2>3. QED
    BY <1>2, <2>1, <2>2, FS_RemoveElement
<1>4. shift \in Bijection(rest, Positions(Tail(q), n))
  <2>1. shift \in [rest -> Positions(Tail(q), n)]
    BY <1>1 DEF Positions
  <2>2. \A a, b \in rest : shift[a] = shift[b] => a = b
    BY <1>1 DEF Positions
  <2>3. \A t \in Positions(Tail(q), n) : \E s \in rest : shift[s] = t
    <3>1. TAKE t \in Positions(Tail(q), n)
    <3>2. t + 1 \in rest /\ shift[t + 1] = t
      BY <1>1 DEF Positions
    <3>3. QED
      BY <3>2
  <2>4. QED
    BY <2>1, <2>2, <2>3 DEF Bijection, Injection, Surjection, IsInjective
<1>5. Cardinality(Positions(Tail(q), n)) = Cardinality(rest)
  BY <1>3, <1>4, FS_Bijection DEF ExistsBijection
<1>6. QED
  <2>1. Cardinality(Positions(q, n)) \in Nat /\ Cardinality(rest) \in Nat
    BY <1>2, <1>3, FS_CardinalityType
  <2>2. QED
    BY <1>3, <1>5, <2>1

-----------------------------------------------------------------------------
(* What is inductive: TypeOK needs the counts to be exact, or a decrement  *)
(* could leave Nat, and mutual exclusion needs a lock that is not busy to  *)
(* have no holder.                                                         *)
HolderIsCurrent ==
  \A c \in Clients : pc[c] = "holding" => destroyed \/ (busy /\ current = name[c])

BusyIsHeld ==
  /\ busy => ~destroyed /\ \E c \in Clients : pc[c] = "holding"
  /\ ~busy => jobs = <<>> /\ current = NoName

JobsMatchCalls ==
  /\ \A i \in 1..Len(jobs) :
       pc[jobs[i].client] = "queued" /\ name[jobs[i].client] = jobs[i].name
  /\ \A i, j \in 1..Len(jobs) : jobs[i].client = jobs[j].client => i = j
  /\ \A c \in Clients : pc[c] = "queued" => \E i \in 1..Len(jobs) : jobs[i].client = c

CountsExact ==
  \A n \in Names : map[n] = Cardinality(Positions(jobs, n))

IInv ==
  /\ TypeOK
  /\ MutualExclusion
  /\ HolderIsCurrent
  /\ BusyIsHeld
  /\ JobsMatchCalls
  /\ CountsExact

(* The inductive invariant holds initially.                                *)
LEMMA InitIInv == Init => IInv
PROOF
<1> SUFFICES ASSUME Init PROVE IInv
  OBVIOUS
<1>1. TypeOK
  BY EmptySeq DEF Init, TypeOK, JobNames
<1>2. Len(jobs) = 0
  BY DEF Init
<1>3. MutualExclusion /\ HolderIsCurrent /\ BusyIsHeld /\ JobsMatchCalls
  BY <1>2 DEF Init, MutualExclusion, HolderIsCurrent, BusyIsHeld, JobsMatchCalls
<1>4. CountsExact
  <2>1. \A n \in Names : Positions(jobs, n) = {}
    BY <1>2 DEF Positions
  <2>2. QED
    BY <2>1, FS_EmptySet DEF Init, CountsExact
<1>5. QED
  BY <1>1, <1>3, <1>4 DEF IInv

(* Every step of the lock preserves it.                                    *)
LEMMA NextIInv == IInv /\ [Next]_vars => IInv'
PROOF
<1> SUFFICES ASSUME IInv, [Next]_vars PROVE IInv'
  OBVIOUS
<1> USE DEF IInv
<1>t. jobs \in Seq(JobSet) /\ Len(jobs) \in Nat
  BY LenProperties DEF TypeOK, JobSet
<1>1. ASSUME NEW c \in Clients, Refuse(c) PROVE IInv'
  <2>1. TypeOK'
    BY <1>1 DEF Refuse, TypeOK, lockVars
  <2>2. (MutualExclusion /\ HolderIsCurrent /\ BusyIsHeld /\ JobsMatchCalls)'
    BY <1>1, <1>t DEF Refuse, TypeOK, lockVars, MutualExclusion, HolderIsCurrent,
                      BusyIsHeld, JobsMatchCalls, JobSet
  <2>3. CountsExact'
    BY <1>1 DEF Refuse, lockVars, CountsExact, Positions
  <2>4. QED
    BY <2>1, <2>2, <2>3
<1>2. ASSUME NEW c \in Clients, NEW n \in JobNames, Enqueue(c, n) PROVE IInv'
  <2>j. Job(c, n) \in JobSet
    BY DEF Job, JobSet
  <2>a. /\ jobs' \in Seq(JobSet)
        /\ Len(jobs') = Len(jobs) + 1
        /\ \A i \in 1..Len(jobs) : jobs'[i] = jobs[i]
        /\ jobs'[Len(jobs) + 1] = Job(c, n)
    BY <1>2, <1>t, <2>j, AppendProperties DEF Enqueue, Queued
  <2>1. TypeOK'
    BY <1>2, <2>a DEF Enqueue, Queued, TypeOK, JobSet
  <2>2. (MutualExclusion /\ HolderIsCurrent)'
    BY <1>2 DEF Enqueue, Queued, TypeOK, MutualExclusion, HolderIsCurrent
  <2>3. BusyIsHeld'
    <3>1. PICK d \in Clients : pc[d] = "holding"
      BY <1>2 DEF Enqueue, Queued, BusyIsHeld
    <3>2. pc'[d] = "holding"
      BY <1>2, <3>1 DEF Enqueue, Queued, TypeOK
    <3>3. QED
      BY <1>2, <3>2 DEF Enqueue, Queued, BusyIsHeld
  <2>4. JobsMatchCalls'
    <3>1. \A i \in 1..Len(jobs) : jobs[i] \in JobSet /\ jobs[i].client # c
      BY <1>2, <1>t, ElementOfSeq DEF Enqueue, Queued, JobsMatchCalls, JobSet
    <3>2. \A i \in 1..Len(jobs') : i \in 1..Len(jobs) \/ i = Len(jobs) + 1
      BY <2>a, <1>t
    <3>3. \A i \in 1..Len(jobs') :
            pc'[jobs'[i].client] = "queued" /\ name'[jobs'[i].client] = jobs'[i].name
      BY <1>2, <2>a, <3>1, <3>2 DEF Enqueue, Queued, TypeOK, JobsMatchCalls, Job, JobSet
    <3>4. \A i, j \in 1..Len(jobs') : jobs'[i].client = jobs'[j].client => i = j
      BY <2>a, <3>1, <3>2 DEF JobsMatchCalls, Job
    <3>5. \A d \in Clients : pc'[d] = "queued" => \E i \in 1..Len(jobs') : jobs'[i].client = d
      <4>1. TAKE d \in Clients
      <4>2. CASE d = c
        BY <2>a, <4>2, <1>t DEF Job
      <4>3. CASE d # c
        BY <1>2, <2>a, <4>3, <1>t DEF Enqueue, Queued, TypeOK, JobsMatchCalls
      <4>4. QED
        BY <4>2, <4>3
    <3>6. QED
      BY <3>3, <3>4, <3>5 DEF JobsMatchCalls
  <2>5. CountsExact'
    <3>1. SUFFICES ASSUME NEW m \in Names
                   PROVE  map'[m] = Cardinality(Positions(jobs', m))
      BY DEF CountsExact
    <3>2. Cardinality(Positions(jobs', m))
            = Cardinality(Positions(jobs, m)) + (IF n = m THEN 1 ELSE 0)
      BY <1>2, <1>t, <2>j, PositionsAppend DEF Enqueue, Queued, Job, JobNames
    <3>3. Cardinality(Positions(jobs, m)) \in Nat
      BY <1>t, <2>j, PositionsAppend DEF JobNames
    <3>4. QED
      BY <1>2, <3>2, <3>3 DEF Enqueue, Queued, CountsExact
  <2>6. QED
    BY <2>1, <2>2, <2>3, <2>4, <2>5
<1>3. ASSUME NEW c \in Clients, NEW n \in JobNames, Acquire(c, n) PROVE IInv'
  <2>e. jobs = <<>> /\ Len(jobs) = 0
    BY <1>3 DEF Acquire, BusyIsHeld
  <2>1. TypeOK'
    BY <1>3 DEF Acquire, TypeOK
  <2>2. \A d \in Clients : pc[d] # "holding"
    BY <1>3 DEF Acquire, HolderIsCurrent
  <2>3. (MutualExclusion /\ HolderIsCurrent /\ BusyIsHeld)'
    BY <1>3, <2>2 DEF Acquire, TypeOK, MutualExclusion, HolderIsCurrent, BusyIsHeld
  <2>4. JobsMatchCalls'
    BY <1>3, <2>e DEF Acquire, TypeOK, JobsMatchCalls
  <2>5. CountsExact'
    BY <1>3 DEF Acquire, CountsExact, Positions
  <2>6. QED
    BY <2>1, <2>3, <2>4, <2>5
<1>4. ASSUME NEW c \in Clients, Unlock(c), jobs = <<>> PROVE IInv'
  <2>1. TypeOK'
    BY <1>4 DEF Unlock, Free, TypeOK, JobNames
  <2>2. \A d \in Clients : pc'[d] # "holding"
    BY <1>4 DEF Unlock, TypeOK, MutualExclusion
  <2>3. (MutualExclusion /\ HolderIsCurrent /\ BusyIsHeld)'
    BY <1>4, <2>2 DEF Unlock, Free, MutualExclusion, HolderIsCurrent, BusyIsHeld
  <2>4. JobsMatchCalls'
    <3>1. Len(jobs) = 0 /\ jobs' = jobs
      BY <1>4 DEF Unlock, Free
    <3>2. \A d \in Clients : pc'[d] # "queued"
      BY <1>4, <3>1 DEF Unlock, TypeOK, JobsMatchCalls
    <3>3. QED
      BY <3>1, <3>2 DEF JobsMatchCalls
  <2>5. CountsExact'
    BY <1>4 DEF Unlock, Free, CountsExact, Positions
  <2>6. QED
    BY <2>1, <2>3, <2>4, <2>5
<1>5. ASSUME NEW c \in Clients, Unlock(c), jobs # <<>> PROVE IInv'
  <2> DEFINE h == Head(jobs)
  <2>a. /\ h \in JobSet /\ h = jobs[1] /\ Len(jobs) > 0
        /\ jobs' \in Seq(JobSet)
        /\ Len(jobs') = Len(jobs) - 1
        /\ \A i \in 1..Len(jobs') : jobs'[i] = jobs[i + 1]
    <3>1. jobs' = Tail(jobs)
      BY <1>5 DEF Unlock, HandOver
    <3>2. QED
      BY <1>5, <1>t, <3>1, HeadTailProperties, EmptySeq
  <2>b. /\ h.client \in Clients /\ h.name \in JobNames
        /\ pc[h.client] = "queued" /\ name[h.client] = h.name
        /\ h.client # c
    BY <1>5, <1>t, <2>a DEF Unlock, JobsMatchCalls, JobSet
  <2>p. /\ pc' = [pc EXCEPT ![c] = "out", ![h.client] = "holding"]
        /\ name' = [name EXCEPT ![c] = NoName]
        /\ busy' = TRUE /\ current' = h.name /\ ~destroyed /\ destroyed' = destroyed
        /\ map' = [m \in Names |-> IF m = h.name THEN map[m] - 1 ELSE map[m]]
    BY <1>5 DEF Unlock, HandOver
  <2>3. (MutualExclusion /\ HolderIsCurrent /\ BusyIsHeld)'
    <3>1. \A d \in Clients : pc'[d] = "holding" => d = h.client
      BY <1>5, <2>p DEF Unlock, TypeOK, MutualExclusion
    <3>2. pc'[h.client] = "holding" /\ name'[h.client] = h.name
      BY <2>b, <2>p DEF TypeOK
    <3>3. QED
      BY <2>b, <2>p, <3>1, <3>2 DEF MutualExclusion, HolderIsCurrent, BusyIsHeld
  <2>4. JobsMatchCalls'
    <3>1. \A i \in 1..Len(jobs') :
            /\ i + 1 \in 1..Len(jobs)
            /\ jobs[i + 1] \in JobSet
            /\ jobs[i + 1].client # h.client /\ jobs[i + 1].client # c
      BY <1>5, <1>t, <2>a, ElementOfSeq DEF Unlock, JobsMatchCalls
    <3>2. ASSUME NEW i \in 1..Len(jobs')
          PROVE  pc'[jobs'[i].client] = "queued" /\ name'[jobs'[i].client] = jobs'[i].name
      <4> DEFINE w == jobs[i + 1].client
      <4>1. w \in Clients /\ w # c /\ w # h.client /\ jobs'[i] = jobs[i + 1]
        BY <2>a, <3>1 DEF JobSet
      <4>2. pc[w] = "queued" /\ name[w] = jobs[i + 1].name
        BY <3>1 DEF JobsMatchCalls
      <4>3. pc'[w] = pc[w] /\ name'[w] = name[w]
        BY <2>p, <4>1 DEF TypeOK
      <4>4. QED
        BY <4>1, <4>2, <4>3
    <3>3. \A i, j \in 1..Len(jobs') : jobs'[i].client = jobs'[j].client => i = j
      BY <1>t, <2>a, <3>1 DEF JobsMatchCalls
    <3>4. \A d \in Clients : pc'[d] = "queued" => \E i \in 1..Len(jobs') : jobs'[i].client = d
      <4>1. SUFFICES ASSUME NEW d \in Clients, pc'[d] = "queued"
                     PROVE  \E i \in 1..Len(jobs') : jobs'[i].client = d
        OBVIOUS
      <4>2. pc[d] = "queued" /\ d # h.client
        BY <2>b, <2>p, <4>1 DEF TypeOK
      <4>3. PICK k \in 1..Len(jobs) : jobs[k].client = d
        BY <4>2 DEF JobsMatchCalls
      <4>4. k # 1 /\ k - 1 \in 1..Len(jobs')
        BY <1>t, <2>a, <4>2, <4>3
      <4>5. jobs'[k - 1] = jobs[k]
        <5>1. jobs'[k - 1] = jobs[(k - 1) + 1]
          BY <2>a, <4>4
        <5>2. (k - 1) + 1 = k
          OBVIOUS
        <5>3. QED
          BY <5>1, <5>2
      <4>6. QED
        BY <4>3, <4>4, <4>5
    <3>5. QED
      BY <3>2, <3>3, <3>4 DEF JobsMatchCalls
  <2>5. CountsExact'
    <3>1. SUFFICES ASSUME NEW m \in Names
                   PROVE  map'[m] = Cardinality(Positions(jobs', m))
      BY DEF CountsExact
    <3>2. jobs' = Tail(jobs)
      BY <1>5 DEF Unlock, HandOver
    <3>3. Cardinality(Positions(jobs', m))
            = Cardinality(Positions(jobs, m)) - (IF h.name = m THEN 1 ELSE 0)
      BY <1>5, <1>t, <3>2, PositionsTail DEF JobNames
    <3>4. QED
      BY <2>p, <3>3 DEF CountsExact, TypeOK
  <2>1. TypeOK'
    <3>1. map' \in [Names -> Nat]
      <4>1. SUFFICES ASSUME NEW m \in Names PROVE (IF m = h.name THEN map[m] - 1 ELSE map[m]) \in Nat
        BY <2>p
      <4>2. m = h.name => map[m] > 0
        BY <1>5, <1>t, PositionsTail DEF CountsExact, JobNames
      <4>3. QED
        BY <4>2 DEF TypeOK
    <3>2. QED
      BY <2>a, <2>b, <2>p, <3>1 DEF TypeOK, JobNames, JobSet
  <2>6. QED
    BY <2>1, <2>3, <2>4, <2>5
<1>6. ASSUME Destroy PROVE IInv'
  <2>1. TypeOK'
    BY <1>6, EmptySeq DEF Destroy, TypeOK, JobNames
  <2>2. jobs' = <<>> /\ Len(jobs') = 0 /\ \A d \in Clients : pc'[d] # "queued"
    BY <1>6 DEF Destroy, TypeOK
  <2>3. (MutualExclusion /\ HolderIsCurrent /\ BusyIsHeld)'
    BY <1>6 DEF Destroy, TypeOK, MutualExclusion, HolderIsCurrent, BusyIsHeld
  <2>4. JobsMatchCalls'
    BY <2>2 DEF JobsMatchCalls
  <2>5. CountsExact'
    <3>1. \A n \in Names : Positions(jobs', n) = {}
      BY <2>2 DEF Positions
    <3>2. QED
      BY <1>6, <3>1, FS_EmptySet DEF Destroy, CountsExact
  <2>6. QED
    BY <2>1, <2>2, <2>3, <2>4, <2>5
<1>7. ASSUME NEW c \in Clients, Return(c) PROVE IInv'
  <2>1. TypeOK'
    BY <1>7 DEF Return, TypeOK, lockVars, JobNames
  <2>2. (MutualExclusion /\ HolderIsCurrent /\ BusyIsHeld)'
    BY <1>7 DEF Return, TypeOK, lockVars, MutualExclusion, HolderIsCurrent, BusyIsHeld
  <2>3. JobsMatchCalls'
    <3>1. \A i \in 1..Len(jobs) : jobs[i] \in JobSet /\ jobs[i].client # c
      BY <1>7, <1>t, ElementOfSeq DEF Return, JobsMatchCalls
    <3>2. QED
      BY <1>7, <3>1 DEF Return, TypeOK, lockVars, JobsMatchCalls, JobSet
  <2>4. CountsExact'
    BY <1>7 DEF Return, lockVars, CountsExact, Positions
  <2>5. QED
    BY <2>1, <2>2, <2>3, <2>4
<1>8. CASE UNCHANGED vars
  BY <1>8 DEF vars, TypeOK, MutualExclusion, HolderIsCurrent, BusyIsHeld,
              JobsMatchCalls, CountsExact, Positions
<1>9. QED
  BY <1>1, <1>2, <1>3, <1>4, <1>5, <1>6, <1>7, <1>8 DEF Next

(* The invariant holds in every reachable state.                           *)
THEOREM Invariance == Spec => []IInv
PROOF
<1>1. QED
  BY InitIInv, NextIInv, PTL DEF Spec

(* Every variable of the lock keeps its type; in particular no count of    *)
(* queued names ever goes below zero.                                      *)
THEOREM TypeCorrect == Spec => []TypeOK
PROOF
<1>1. IInv => TypeOK
  BY DEF IInv
<1>2. QED
  BY <1>1, Invariance, PTL

(* Two calls never run under the lock at once, whatever destroys it.       *)
THEOREM LockExcludes == Spec => []MutualExclusion
PROOF
<1>1. IInv => MutualExclusion
  BY DEF IInv
<1>2. QED
  BY <1>1, Invariance, PTL

(* unlock() never trips one of its asserts.                                *)
THEOREM AssertionsHold == Spec => []UnlockAssertions
PROOF
<1>1. ASSUME IInv PROVE UnlockAssertions
  <2>1. jobs \in Seq(JobSet) /\ Len(jobs) \in Nat /\ DOMAIN jobs = 1..Len(jobs)
    BY <1>1, LenProperties DEF IInv, TypeOK, JobSet
  <2>2. (\E c \in Clients : pc[c] = "holding") => destroyed \/ busy
    BY <1>1 DEF IInv, HolderIsCurrent
  <2>3. jobs # <<>> => busy /\ ~destroyed
    BY <1>1 DEF IInv, BusyIsHeld, TypeOK
  <2>4. ASSUME NEW i \in DOMAIN jobs, jobs[i].name # NoName PROVE map[jobs[i].name] > 0
    <3>0. jobs[i] \in JobSet
      BY <2>1, <2>4, ElementOfSeq
    <3>1. jobs[i] \in JobSet /\ jobs[i].name \in Names
      BY <2>4, <3>0 DEF JobSet, JobNames
    <3>2. i \in Positions(jobs, jobs[i].name)
      BY <2>1 DEF Positions
    <3>3. /\ IsFiniteSet(Positions(jobs, jobs[i].name))
          /\ Cardinality(Positions(jobs, jobs[i].name)) \in Nat
      BY <2>1, <3>1, PositionsAppend DEF JobNames
    <3>4. Cardinality(Positions(jobs, jobs[i].name)) # 0
      BY <3>2, <3>3, FS_EmptySet
    <3>5. QED
      BY <1>1, <3>1, <3>3, <3>4 DEF IInv, CountsExact
  <2>5. QED
    BY <2>2, <2>3, <2>4 DEF UnlockAssertions
<1>2. QED
  BY <1>1, Invariance, PTL

(* No call that waits is forgotten, and none is queued twice.              *)
THEOREM JobsFaithful == Spec => []JobsAreTheWaiting
PROOF
<1>1. ASSUME IInv PROVE JobsAreTheWaiting
  <2>1. jobs \in Seq(JobSet) /\ DOMAIN jobs = 1..Len(jobs)
    BY <1>1, LenProperties DEF IInv, TypeOK, JobSet
  <2>2. \A i \in DOMAIN jobs : jobs[i] \in JobSet
    BY <2>1, ElementOfSeq
  <2>3. ASSUME NEW i \in DOMAIN jobs
        PROVE  jobs[i] = Job(jobs[i].client, name[jobs[i].client])
    BY <1>1, <2>1, <2>2 DEF IInv, JobsMatchCalls, JobSet, Job
  <2>4. ASSUME NEW c \in Clients
        PROVE  pc[c] = "queued" <=> \E i \in DOMAIN jobs : jobs[i] = Job(c, name[c])
    <3>1. ASSUME pc[c] = "queued" PROVE \E i \in DOMAIN jobs : jobs[i] = Job(c, name[c])
      <4>1. PICK i \in DOMAIN jobs : jobs[i].client = c
        BY <1>1, <2>1, <3>1 DEF IInv, JobsMatchCalls
      <4>2. QED
        BY <2>3, <4>1
    <3>2. ASSUME NEW i \in DOMAIN jobs, jobs[i] = Job(c, name[c]) PROVE pc[c] = "queued"
      <4>1. jobs[i].client = c
        BY <3>2 DEF Job
      <4>2. QED
        BY <1>1, <2>1, <4>1 DEF IInv, JobsMatchCalls
    <3>3. QED
      BY <3>1, <3>2
  <2>5. \A i, j \in DOMAIN jobs : jobs[i].client = jobs[j].client => i = j
    BY <1>1, <2>1 DEF IInv, JobsMatchCalls
  <2>6. QED
    BY <2>4, <2>5 DEF JobsAreTheWaiting
<1>2. QED
  BY <1>1, Invariance, PTL

(* has() and hasPending() answer for exactly the calls under way.          *)
THEOREM NamesFaithful == Spec => []NamesAreExact
PROOF
<1>1. ASSUME IInv, ~destroyed, NEW n \in Names
      PROVE  /\ Has(n) <=> \E c \in Clients : name[c] = n /\ pc[c] \in {"queued", "holding"}
             /\ HasPending(n) <=> \E c \in Clients : name[c] = n /\ pc[c] = "queued"
  <2>1. jobs \in Seq(JobSet) /\ DOMAIN jobs = 1..Len(jobs)
    BY <1>1, LenProperties DEF IInv, TypeOK, JobSet
  <2>2. n # NoName
    BY NoNameAssumption
  <2>3. map[n] > 0 <=> \E i \in 1..Len(jobs) : jobs[i].name = n
    <3>1. IsFiniteSet(Positions(jobs, n)) /\ Cardinality(Positions(jobs, n)) \in Nat
      <4>1. IsFiniteSet(1..Len(jobs)) /\ Positions(jobs, n) \in SUBSET (1..Len(jobs))
        BY <2>1, FS_Interval, LenProperties DEF Positions
      <4>2. QED
        BY <4>1, FS_Subset, FS_CardinalityType
    <3>2. Cardinality(Positions(jobs, n)) = 0 <=> Positions(jobs, n) = {}
      BY <3>1, FS_EmptySet
    <3>3. map[n] = Cardinality(Positions(jobs, n))
      BY <1>1 DEF IInv, CountsExact
    <3>4. Positions(jobs, n) # {} <=> \E i \in 1..Len(jobs) : jobs[i].name = n
      BY DEF Positions
    <3>5. QED
      BY <3>1, <3>2, <3>3, <3>4
  <2>4. (\E i \in 1..Len(jobs) : jobs[i].name = n)
          <=> \E c \in Clients : name[c] = n /\ pc[c] = "queued"
    <3>1. ASSUME NEW i \in 1..Len(jobs), jobs[i].name = n
          PROVE  \E c \in Clients : name[c] = n /\ pc[c] = "queued"
      <4>1. jobs[i] \in JobSet
        BY <2>1, ElementOfSeq
      <4>2. jobs[i].client \in Clients
        BY <4>1 DEF JobSet
      <4>3. QED
        BY <1>1, <3>1, <4>2 DEF IInv, JobsMatchCalls
    <3>2. ASSUME NEW c \in Clients, name[c] = n, pc[c] = "queued"
          PROVE  \E i \in 1..Len(jobs) : jobs[i].name = n
      BY <1>1, <3>2 DEF IInv, JobsMatchCalls
    <3>3. QED
      BY <3>1, <3>2
  <2>5. current = n <=> \E c \in Clients : name[c] = n /\ pc[c] = "holding"
    <3>1. ASSUME current = n PROVE \E c \in Clients : name[c] = n /\ pc[c] = "holding"
      <4>1. busy
        BY <1>1, <2>2, <3>1 DEF IInv, BusyIsHeld, TypeOK
      <4>2. PICK c \in Clients : pc[c] = "holding"
        BY <1>1, <4>1 DEF IInv, BusyIsHeld
      <4>3. name[c] = n
        BY <1>1, <3>1, <4>2 DEF IInv, HolderIsCurrent
      <4>4. QED
        BY <4>2, <4>3
    <3>2. QED
      BY <1>1, <3>1 DEF IInv, HolderIsCurrent
  <2>6. QED
    BY <2>3, <2>4, <2>5 DEF Has, HasPending
<1>2. IInv => NamesAreExact
  BY <1>1 DEF NamesAreExact
<1>3. QED
  BY <1>2, Invariance, PTL

(* Queue and counts agree with the calls that hold or await the lock.      *)
THEOREM BooksCorrect == Spec => []BooksAgree
PROOF
<1>1. TypeOK /\ JobsAreTheWaiting /\ NamesAreExact => BooksAgree
  BY DEF BooksAgree
<1>2. QED
  BY <1>1, TypeCorrect, JobsFaithful, NamesFaithful, PTL

-----------------------------------------------------------------------------
(* The refinement.  What the mutex's operations do to a line that has h at *)
(* its head and s behind it.                                               *)
LEMMA LineOps ==
  ASSUME NEW h \in Clients, NEW s \in Seq(Clients)
  PROVE  /\ <<h>> \o s \in Seq(Clients)
         /\ <<h>> \o s # <<>>
         /\ Len(<<h>> \o s) = Len(s) + 1
         /\ (<<h>> \o s)[1] = h
         /\ \A i \in 1..Len(s) : (<<h>> \o s)[i + 1] = s[i]
         /\ Head(<<h>> \o s) = h
         /\ Tail(<<h>> \o s) = s
         /\ SubSeq(<<h>> \o s, 1, 1) = <<h>>
         /\ \A c \in Clients : Append(<<h>> \o s, c) = <<h>> \o Append(s, c)
PROOF
<1> DEFINE l == <<h>> \o s
<1>1. <<h>> \in Seq(Clients) /\ Len(<<h>>) = 1 /\ <<h>>[1] = h /\ Len(s) \in Nat
  BY LenProperties
<1>2. /\ l \in Seq(Clients)
      /\ Len(l) = 1 + Len(s)
      /\ \A i \in 1..(1 + Len(s)) : l[i] = IF i <= 1 THEN <<h>>[i] ELSE s[i - 1]
  BY <1>1, ConcatProperties
<1>3. l[1] = h /\ \A i \in 1..Len(s) : l[i + 1] = s[i]
  BY <1>1, <1>2
<1>4. l # <<>>
  BY <1>1, <1>2, EmptySeq
<1>5. Head(l) = h
  BY <1>3, <1>4
<1>6. Tail(l) = s
  <2>1. /\ Tail(l) \in Seq(Clients) /\ Len(Tail(l)) = Len(s)
        /\ \A i \in 1..Len(s) : Tail(l)[i] = s[i]
    BY <1>1, <1>2, <1>3, <1>4, HeadTailProperties
  <2>2. QED
    BY <2>1, SeqEqual
<1>7. SubSeq(l, 1, 1) = <<h>>
  <2>1. \A i \in 1..1 : l[i] \in Clients
    BY <1>3
  <2>2. /\ SubSeq(l, 1, 1) \in Seq(Clients) /\ Len(SubSeq(l, 1, 1)) = 1
        /\ SubSeq(l, 1, 1)[1] = h
    BY <1>3, <2>1, SubSeqProperties
  <2>3. \A i \in 1..Len(SubSeq(l, 1, 1)) : SubSeq(l, 1, 1)[i] = <<h>>[i]
    BY <1>1, <2>2
  <2> HIDE DEF l
  <2>4. QED
    BY <1>1, <2>2, <2>3, SeqEqual
<1>8. ASSUME NEW c \in Clients PROVE Append(l, c) = <<h>> \o Append(s, c)
  <2>1. <<c>> \in Seq(Clients)
    OBVIOUS
  <2>2. Append(l, c) = l \o <<c>> /\ Append(s, c) = s \o <<c>>
    BY <1>2, AppendIsConcat
  <2>3. QED
    BY <1>1, <2>1, <2>2, ConcatAssociative
<1>9. QED
  BY <1>1, <1>2, <1>3, <1>4, <1>5, <1>6, <1>7, <1>8

(* The calls of the queued jobs, in order, and how they change with it.    *)
Waiting(q) == [i \in DOMAIN q |-> q[i].client]

(* The queued calls are as many as the jobs, in their order.               *)
LEMMA WaitingCalls ==
  ASSUME NEW q \in Seq(JobSet)
  PROVE  /\ Waiting(q) \in Seq(Clients)
         /\ Len(Waiting(q)) = Len(q)
         /\ \A i \in 1..Len(q) : Waiting(q)[i] = q[i].client
PROOF
<1>1. Len(q) \in Nat /\ DOMAIN q = 1..Len(q)
  BY LenProperties
<1>2. \A i \in 1..Len(q) : q[i].client \in Clients
  <2>1. \A i \in 1..Len(q) : q[i] \in JobSet
    BY ElementOfSeq
  <2>2. QED
    BY <2>1 DEF JobSet
<1>3. Waiting(q) \in [1..Len(q) -> Clients]
  BY <1>1, <1>2 DEF Waiting
<1>4. Waiting(q) \in Seq(Clients)
  BY <1>1, <1>3
<1>5. QED
  BY <1>1, <1>3, <1>4, LenProperties DEF Waiting

(* A job that is queued adds its call at the end.                          *)
LEMMA WaitingAppend ==
  ASSUME NEW q \in Seq(JobSet), NEW j \in JobSet
  PROVE  Waiting(Append(q, j)) = Append(Waiting(q), j.client)
PROOF
<1>1. /\ Append(q, j) \in Seq(JobSet) /\ Len(Append(q, j)) = Len(q) + 1
      /\ \A i \in 1..Len(q) : Append(q, j)[i] = q[i]
      /\ Append(q, j)[Len(q) + 1] = j
      /\ Len(q) \in Nat
  BY AppendProperties, LenProperties
<1>2. Waiting(q) \in Seq(Clients) /\ Len(Waiting(q)) = Len(q) /\ j.client \in Clients
  BY WaitingCalls DEF JobSet
<1>3. /\ Append(Waiting(q), j.client) \in Seq(Clients)
      /\ Len(Append(Waiting(q), j.client)) = Len(q) + 1
      /\ \A i \in 1..Len(q) : Append(Waiting(q), j.client)[i] = Waiting(q)[i]
      /\ Append(Waiting(q), j.client)[Len(q) + 1] = j.client
  BY <1>2, AppendProperties
<1>4. /\ Waiting(Append(q, j)) \in Seq(Clients)
      /\ Len(Waiting(Append(q, j))) = Len(q) + 1
      /\ \A i \in 1..(Len(q) + 1) : Waiting(Append(q, j))[i] = Append(q, j)[i].client
      /\ \A i \in 1..Len(q) : Waiting(q)[i] = q[i].client
  BY <1>1, WaitingCalls
<1>5. ASSUME NEW i \in 1..(Len(q) + 1)
      PROVE  Waiting(Append(q, j))[i] = Append(Waiting(q), j.client)[i]
  <2>1. i = Len(q) + 1 \/ i \in 1..Len(q)
    BY <1>1
  <2>2. CASE i = Len(q) + 1
    BY <1>1, <1>3, <1>4, <2>2
  <2>3. CASE i \in 1..Len(q)
    BY <1>1, <1>3, <1>4, <2>3
  <2>4. QED
    BY <2>1, <2>2, <2>3
<1>6. QED
  BY <1>3, <1>4, <1>5, SeqEqual

(* The first job of the queue has the first of its calls.                  *)
LEMMA WaitingTail ==
  ASSUME NEW q \in Seq(JobSet), q # <<>>
  PROVE  Waiting(q) = <<Head(q).client>> \o Waiting(Tail(q))
PROOF
<1>1. /\ Tail(q) \in Seq(JobSet) /\ Len(Tail(q)) = Len(q) - 1 /\ Len(q) \in Nat \ {0}
      /\ \A i \in 1..Len(Tail(q)) : Tail(q)[i] = q[i + 1]
      /\ Head(q) = q[1] /\ Head(q).client \in Clients
  <2>1. Len(q) \in Nat \ {0} /\ Head(q) = q[1]
    BY EmptySeq
  <2>2. Head(q) \in JobSet
    BY HeadTailProperties
  <2>3. Head(q).client \in Clients
    BY <2>2 DEF JobSet
  <2>4. QED
    BY <2>1, <2>3, HeadTailProperties
<1>2. /\ Waiting(Tail(q)) \in Seq(Clients) /\ Len(Waiting(Tail(q))) = Len(q) - 1
      /\ \A i \in 1..(Len(q) - 1) : Waiting(Tail(q))[i] = q[i + 1].client
  BY <1>1, WaitingCalls
<1> DEFINE w == Waiting(Tail(q))
           c == Head(q).client
           l == <<c>> \o w
<1>3. /\ l \in Seq(Clients) /\ Len(l) = Len(q)
      /\ l[1] = Head(q).client
      /\ \A i \in 1..(Len(q) - 1) : l[i + 1] = Waiting(Tail(q))[i]
  <2>0. c \in Clients /\ w \in Seq(Clients) /\ Len(w) = Len(q) - 1
    BY <1>1, <1>2, Zenon
  <2>1. Len(w) + 1 = Len(q)
    <3>1. Len(q) \in Nat
      BY <1>1
    <3> HIDE DEF w
    <3>2. QED
      BY <2>0, <3>1
  <2> HIDE DEF c, w
  <2>2. l \in Seq(Clients) /\ Len(l) = Len(w) + 1 /\ l[1] = c
        /\ \A i \in 1..Len(w) : l[i + 1] = w[i]
    BY <2>0, LineOps
  <2>3. QED
    BY <1>1, <1>2, <2>0, <2>1, <2>2 DEF c, w
<1>4. ASSUME NEW i \in 1..Len(q) PROVE Waiting(q)[i] = l[i]
  <2>1. CASE i = 1
    BY <1>1, <1>3, <2>1, WaitingCalls
  <2>2. CASE i # 1
    <3>1. i - 1 \in 1..(Len(q) - 1) /\ (i - 1) + 1 = i
      BY <1>1, <2>2
    <3>2. l[(i - 1) + 1] = q[(i - 1) + 1].client
      BY <1>2, <1>3, <3>1
    <3>3. QED
      BY <3>1, <3>2, WaitingCalls
  <2>3. QED
    BY <2>1, <2>2
<1>5. Waiting(q) \in Seq(Clients) /\ Len(Waiting(q)) = Len(q)
  BY WaitingCalls
<1> HIDE DEF l
<1>6. Waiting(q) = l
  BY <1>3, <1>4, <1>5, SeqEqual
<1>7. QED
  BY <1>6 DEF l

(* The line is empty without a holder; otherwise the holder is at its head *)
(* and the queue behind it.                                                *)
LineShape ==
  /\ \A c \in Clients : pc[c] = "holding" => Line = <<c>> \o Waiting(jobs)
  /\ (\A c \in Clients : pc[c] # "holding") => Line = <<>>

(* The line of the abstract mutex is the holder and the queued calls.      *)
LEMMA LineHasShape == IInv => LineShape
PROOF
<1> SUFFICES ASSUME IInv PROVE LineShape
  OBVIOUS
<1>1. jobs \in Seq(JobSet) /\ Line = (IF Holders = {} THEN <<>> ELSE <<CHOOSE c \in Holders : TRUE>>)
                                      \o Waiting(jobs)
  BY DEF IInv, TypeOK, JobSet, Line, Waiting
<1>2. ASSUME NEW c \in Clients, pc[c] = "holding" PROVE Line = <<c>> \o Waiting(jobs)
  <2>1. Holders = {c}
    BY <1>2 DEF IInv, MutualExclusion, Holders
  <2>2. (CHOOSE d \in Holders : TRUE) = c
    BY <2>1
  <2>3. QED
    BY <1>1, <2>1, <2>2
<1>3. ASSUME \A c \in Clients : pc[c] # "holding" PROVE Line = <<>>
  <2>1. Holders = {}
    BY <1>3 DEF Holders
  <2>2. jobs = <<>>
    BY <1>3 DEF IInv, BusyIsHeld
  <2>3. Len(jobs) = 0
    BY <2>2
  <2>4. Waiting(jobs) \in Seq(Clients) /\ Len(Waiting(jobs)) = 0
    BY <1>1, <2>3, WaitingCalls
  <2>5. Waiting(jobs) = <<>>
    BY <2>4, EmptySeq
  <2>6. <<>> \o Waiting(jobs) = Waiting(jobs)
    BY <2>4, ConcatEmptySeq
  <2>7. QED
    BY <1>1, <2>1, <2>5, <2>6
<1>4. QED
  BY <1>2, <1>3 DEF LineShape

(* A call that neither holds the lock nor waits for it is not in line.     *)
LEMMA OutsideLine ==
  ASSUME IInv, LineShape, NEW c \in Clients, pc[c] \notin {"holding", "queued"}
  PROVE  ~\E i \in 1..Len(Line) : Line[i] = c
PROOF
<1>1. jobs \in Seq(JobSet) /\ Len(jobs) \in Nat
  BY LenProperties DEF IInv, TypeOK, JobSet
<1>2. CASE \E h \in Clients : pc[h] = "holding"
  <2>1. PICK h \in Clients : pc[h] = "holding"
    BY <1>2
  <2>2. /\ Line = <<h>> \o Waiting(jobs)
        /\ Waiting(jobs) \in Seq(Clients) /\ Len(Waiting(jobs)) = Len(jobs)
        /\ \A i \in 1..Len(jobs) : Waiting(jobs)[i] = jobs[i].client
    BY <1>1, <2>1, WaitingCalls DEF LineShape
  <2>3. /\ Len(Line) = Len(jobs) + 1
        /\ Line[1] = h
        /\ \A i \in 1..Len(jobs) : Line[i + 1] = jobs[i].client
    BY <2>2, LineOps
  <2>4. \A i \in 1..Len(jobs) : jobs[i].client # c
    BY DEF IInv, JobsMatchCalls
  <2>5. ASSUME NEW i \in 1..Len(Line) PROVE Line[i] # c
    <3>1. CASE i = 1
      BY <2>1, <2>3, <3>1
    <3>2. CASE i # 1
      <4>1. i - 1 \in 1..Len(jobs) /\ (i - 1) + 1 = i
        BY <1>1, <2>3, <3>2
      <4>2. QED
        BY <2>3, <2>4, <4>1
    <3>3. QED
      BY <3>1, <3>2
  <2>6. QED
    BY <2>5
<1>3. CASE \A h \in Clients : pc[h] # "holding"
  <2>1. Line = <<>>
    BY <1>3 DEF LineShape
  <2>2. QED
    BY <2>1
<1>4. QED
  BY <1>2, <1>3

(* Every step of the lock is a step of the abstract mutex, or changes      *)
(* nothing it can see.                                                     *)
LEMMA MutexStep ==
  ASSUME IInv, LineShape, LineShape', [Next]_vars
  PROVE  [Mutex!Next]_<<[k \in {"lock"} |-> Line], destroyed>>
PROOF
<1> DEFINE lines == [k \in {"lock"} |-> Line]
<1>t. /\ jobs \in Seq(JobSet) /\ Waiting(jobs) \in Seq(Clients)
      /\ pc \in [Clients -> {"out", "queued", "holding", "refused"}]
  BY WaitingCalls DEF IInv, TypeOK, JobSet
<1>q. Line' = Line /\ destroyed' = destroyed => UNCHANGED <<lines, destroyed>>
  OBVIOUS
<1>j. ASSUME NEW c \in Clients, ~destroyed, pc[c] = "out", destroyed' = destroyed,
             Line' = Append(Line, c)
      PROVE  Mutex!Next
  <2>1. ~\E i \in 1..Len(Line) : Line[i] = c
    BY <1>j, OutsideLine
  <2>2. \A l \in {"lock"} : ~Mutex!InLine(c, l)
    BY <2>1 DEF Mutex!InLine
  <2>3. lines' = [lines EXCEPT !["lock"] = Append(@, c)]
    BY <1>j
  <2>4. Mutex!Join(c, "lock")
    BY <1>j, <2>2, <2>3 DEF Mutex!Join
  <2>5. QED
    BY <2>4 DEF Mutex!Next
<1>1. ASSUME NEW c \in Clients, Refuse(c) PROVE UNCHANGED <<lines, destroyed>>
  <2>1. \A d \in Clients : pc'[d] = "holding" <=> pc[d] = "holding"
    BY <1>1, <1>t DEF Refuse
  <2>2. jobs' = jobs /\ destroyed' = destroyed
    BY <1>1 DEF Refuse, lockVars
  <2>3. QED
    BY <1>q, <2>1, <2>2 DEF LineShape
<1>2. ASSUME NEW c \in Clients, Return(c) PROVE UNCHANGED <<lines, destroyed>>
  <2>1. \A d \in Clients : pc'[d] = "holding" <=> pc[d] = "holding"
    BY <1>2, <1>t DEF Return
  <2>2. jobs' = jobs /\ destroyed' = destroyed
    BY <1>2 DEF Return, lockVars
  <2>3. QED
    BY <1>q, <2>1, <2>2 DEF LineShape
<1>3. ASSUME NEW c \in Clients, NEW n \in JobNames, Enqueue(c, n) PROVE Mutex!Next
  <2>1. PICK h \in Clients : pc[h] = "holding"
    BY <1>3 DEF Enqueue, IInv, BusyIsHeld
  <2>2. pc'[h] = "holding"
    BY <1>3, <1>t, <2>1 DEF Enqueue
  <2>3. Line = <<h>> \o Waiting(jobs) /\ Line' = <<h>> \o Waiting(jobs')
    BY <2>1, <2>2 DEF LineShape
  <2>4. Waiting(jobs') = Append(Waiting(jobs), c)
    <3>1. Job(c, n) \in JobSet /\ Job(c, n).client = c /\ jobs' = Append(jobs, Job(c, n))
      BY <1>3 DEF Job, JobSet, Enqueue, Queued
    <3>2. QED
      BY <1>t, <3>1, WaitingAppend
  <2>5. Line' = Append(Line, c)
    <3>1. Append(<<h>> \o Waiting(jobs), c) = <<h>> \o Append(Waiting(jobs), c)
      BY <1>t, LineOps
    <3>2. QED
      BY <2>3, <2>4, <3>1
  <2>6. QED
    BY <1>3, <1>j, <2>5 DEF Enqueue
<1>4. ASSUME NEW c \in Clients, NEW n \in JobNames, Acquire(c, n) PROVE Mutex!Next
  <2>1. (\A d \in Clients : pc[d] # "holding") /\ jobs = <<>> /\ jobs' = jobs
    BY <1>4 DEF Acquire, IInv, HolderIsCurrent, BusyIsHeld
  <2>2. pc'[c] = "holding"
    BY <1>4, <1>t DEF Acquire
  <2>3. Line = <<>> /\ Line' = <<c>> \o Waiting(jobs)
    BY <2>1, <2>2 DEF LineShape
  <2>4. Waiting(jobs) = <<>>
    <3>1. Len(jobs) = 0
      BY <2>1
    <3>2. QED
      BY <1>t, <3>1, WaitingCalls, EmptySeq
  <2>5. Line' = Append(Line, c)
    <3>1. <<c>> \in Seq(Clients) /\ <<>> \in Seq(Clients)
      BY EmptySeq
    <3>2. <<c>> \o <<>> = <<c>> /\ Append(<<>>, c) = <<>> \o <<c>> /\ <<>> \o <<c>> = <<c>>
      BY <3>1, ConcatEmptySeq, AppendIsConcat
    <3>3. QED
      BY <2>3, <2>4, <3>2
  <2>6. QED
    BY <1>4, <1>j, <2>5 DEF Acquire
<1>5. ASSUME NEW c \in Clients, Unlock(c) PROVE Mutex!Next
  <2>1. pc[c] = "holding" /\ destroyed' = destroyed
    BY <1>5 DEF Unlock
  <2>2. Line = <<c>> \o Waiting(jobs)
    BY <2>1 DEF LineShape
  <2>3. Line' = Waiting(jobs)
    <3>1. CASE jobs = <<>>
      <4>1. \A d \in Clients : pc'[d] # "holding"
        BY <1>5, <1>t, <3>1 DEF Unlock, Free, IInv, MutualExclusion
      <4>2. Len(jobs) = 0
        BY <3>1
      <4>3. Waiting(jobs) = <<>>
        BY <1>t, <4>2, WaitingCalls, EmptySeq
      <4>4. QED
        BY <4>1, <4>3 DEF LineShape
    <3>2. CASE jobs # <<>>
      <4>0. Head(jobs) \in JobSet
        BY <1>t, <3>2, HeadTailProperties
      <4>1. Head(jobs).client \in Clients
        BY <4>0 DEF JobSet
      <4>2. pc'[Head(jobs).client] = "holding" /\ jobs' = Tail(jobs)
        BY <1>5, <1>t, <3>2, <4>1 DEF Unlock, HandOver
      <4>3. Line' = <<Head(jobs).client>> \o Waiting(Tail(jobs))
        BY <4>1, <4>2 DEF LineShape
      <4>4. QED
        BY <1>t, <3>2, <4>3, WaitingTail
    <3>3. QED
      BY <3>1, <3>2
  <2>4. Line # <<>> /\ Head(Line) = c /\ Line' = Tail(Line)
    BY <1>t, <2>2, <2>3, LineOps
  <2>5. lines' = [lines EXCEPT !["lock"] = Tail(@)]
    BY <2>4
  <2>6. Mutex!Leave(c, "lock")
    BY <2>1, <2>4, <2>5 DEF Mutex!Leave, Mutex!Owns
  <2>7. QED
    BY <2>6 DEF Mutex!Next
<1>6. ASSUME Destroy PROVE Mutex!Next
  <2>1. /\ ~destroyed /\ destroyed' /\ jobs' = <<>>
        /\ \A d \in Clients : pc'[d] = "holding" <=> pc[d] = "holding"
    BY <1>6, <1>t DEF Destroy
  <2>2. Waiting(jobs') = <<>>
    <3>1. jobs' \in Seq(JobSet) /\ Len(jobs') = 0
      BY <2>1, EmptySeq
    <3>2. QED
      BY <3>1, WaitingCalls, EmptySeq
  <2>3. Line' = SubSeq(Line, 1, IF Line = <<>> THEN 0 ELSE 1)
    <3>1. CASE \E h \in Clients : pc[h] = "holding"
      <4>1. PICK h \in Clients : pc[h] = "holding"
        BY <3>1
      <4>2. Line = <<h>> \o Waiting(jobs) /\ Line' = <<h>> \o <<>>
        BY <2>1, <2>2, <4>1 DEF LineShape
      <4>3. <<h>> \in Seq(Clients) /\ <<h>> \o <<>> = <<h>>
        BY ConcatEmptySeq
      <4>4. Line # <<>> /\ SubSeq(Line, 1, 1) = <<h>>
        BY <1>t, <4>2, LineOps
      <4>5. QED
        BY <4>2, <4>3, <4>4
    <3>2. CASE \A h \in Clients : pc[h] # "holding"
      <4>1. Line = <<>> /\ Line' = <<>>
        BY <2>1, <3>2 DEF LineShape
      <4>2. SubSeq(<<>>, 1, 0) = <<>>
        BY SubSeqEmpty
      <4>3. QED
        BY <4>1, <4>2
    <3>3. QED
      BY <3>1, <3>2
  <2>4. lines' = [k \in {"lock"} |-> SubSeq(lines[k], 1, IF lines[k] = <<>> THEN 0 ELSE 1)]
    BY <2>3
  <2>5. Mutex!Close
    BY <2>1, <2>4 DEF Mutex!Close
  <2>6. QED
    BY <2>5 DEF Mutex!Next
<1>7. CASE UNCHANGED vars
  BY <1>7 DEF vars, Line, Holders
<1>8. QED
  BY <1>1, <1>2, <1>3, <1>4, <1>5, <1>6, <1>7 DEF Next

(* The lock implements the abstract FIFO mutex: it passes strictly in the  *)
(* order of the calls to lock(), and to nobody once it is destroyed.       *)
THEOREM RefinesFifoMutex == Spec => ImplementsFifoMutex
PROOF
<1>1. Init => Mutex!Init
  <2>1. ASSUME Init PROVE Line = <<>>
    BY <2>1, InitIInv, LineHasShape DEF LineShape, Init
  <2>2. QED
    BY <2>1 DEF Init, Mutex!Init
<1>2. Spec => []LineShape
  BY Invariance, LineHasShape, PTL
<1>3. IInv /\ LineShape /\ LineShape' /\ [Next]_vars
        => [Mutex!Next]_<<[k \in {"lock"} |-> Line], destroyed>>
  BY MutexStep
<1>4. QED
  BY Invariance, <1>1, <1>2, <1>3, PTL
     DEF Spec, ImplementsFifoMutex, Mutex!Spec, Mutex!mutexVars
=============================================================================
