-------------------------- MODULE MappedLockProofs --------------------------
(***************************************************************************)
(* Proofs about module MappedLock, for any number of calls and keys: one   *)
(* holder per key, no queue that nobody serves, and the refinement of the  *)
(* abstract mutex, one line per key.                                       *)
(***************************************************************************)
EXTENDS MappedLock, SequenceTheorems, TLAPS

(* What is inductive: a key that is not busy has no holder and no queue, a *)
(* busy one has a holder, and a queue holds the calls that wait for it.    *)
HolderOfKey(c, k) == pc[c] = "holding" /\ key[c] = k

KeyedCalls ==
  \A c \in Clients : pc[c] \in {"holding", "queued"} => key[c] \in Keys

BusyIsHeld ==
  /\ ~destroyed => \A c \in Clients : pc[c] = "holding" => key[c] \in busy
  /\ \A k \in busy : ~destroyed /\ \E c \in Clients : HolderOfKey(c, k)

QueuesHoldTheWaiting ==
  \A k \in Keys :
    /\ k \notin busy => jobs[k] = <<>>
    /\ \A i \in 1..Len(jobs[k]) :
         pc[jobs[k][i]] = "queued" /\ key[jobs[k][i]] = k
    /\ \A i, j \in 1..Len(jobs[k]) : jobs[k][i] = jobs[k][j] => i = j
    /\ \A c \in Clients :
         pc[c] = "queued" /\ key[c] = k => \E i \in 1..Len(jobs[k]) : jobs[k][i] = c

IInv ==
  /\ TypeOK
  /\ KeyedCalls
  /\ OneHolderPerKey
  /\ BusyIsHeld
  /\ QueuesHoldTheWaiting

(* The inductive invariant holds initially.                                *)
LEMMA InitIInv == Init => IInv
PROOF
<1> SUFFICES ASSUME Init PROVE IInv
  OBVIOUS
<1>1. <<>> \in Seq(Clients) /\ Len(<<>>) = 0
  BY EmptySeq
<1>2. TypeOK
  BY <1>1 DEF Init, TypeOK
<1>3. KeyedCalls /\ OneHolderPerKey /\ BusyIsHeld
  BY DEF Init, KeyedCalls, OneHolderPerKey, BusyIsHeld
<1>4. QueuesHoldTheWaiting
  BY <1>1 DEF Init, QueuesHoldTheWaiting
<1>5. QED
  BY <1>2, <1>3, <1>4 DEF IInv

(* Every step of the lock preserves it.                                    *)
LEMMA NextIInv == IInv /\ [Next]_vars => IInv'
PROOF
<1> SUFFICES ASSUME IInv, [Next]_vars PROVE IInv'
  OBVIOUS
<1> USE DEF IInv
<1>t. /\ \A k \in Keys : jobs[k] \in Seq(Clients) /\ Len(jobs[k]) \in Nat
      /\ \A k \in Keys : \A i \in 1..Len(jobs[k]) : jobs[k][i] \in Clients
      /\ pc \in [Clients -> {"out", "queued", "holding", "refused", "unlocked"}]
      /\ key \in [Clients -> Keys \cup {NoKey}]
  BY LenProperties, ElementOfSeq DEF TypeOK
(* A step that touches one call outside every line, and no line.           *)
<1>s. ASSUME NEW c \in Clients, pc[c] \notin {"holding", "queued"},
             pc'[c] \notin {"holding", "queued"},
             \A d \in Clients \ {c} : pc'[d] = pc[d] /\ key'[d] = key[d],
             UNCHANGED <<busy, jobs, destroyed>>
      PROVE  KeyedCalls' /\ OneHolderPerKey' /\ BusyIsHeld' /\ QueuesHoldTheWaiting'
  <2>1. KeyedCalls' /\ OneHolderPerKey'
    BY <1>s DEF KeyedCalls, OneHolderPerKey
  <2>2. BusyIsHeld'
    BY <1>s DEF BusyIsHeld, HolderOfKey
  <2>3. \A k \in Keys : \A i \in 1..Len(jobs[k]) : jobs[k][i] \in Clients \ {c}
    BY <1>s, <1>t DEF QueuesHoldTheWaiting
  <2>4. QueuesHoldTheWaiting'
    BY <1>s, <2>3 DEF QueuesHoldTheWaiting
  <2>5. QED
    BY <2>1, <2>2, <2>4
<1>1. ASSUME NEW c \in Clients, Refuse(c) PROVE IInv'
  <2>1. TypeOK'
    BY <1>1 DEF Refuse, TypeOK
  <2>2. /\ pc[c] \notin {"holding", "queued"} /\ pc'[c] \notin {"holding", "queued"}
        /\ \A d \in Clients \ {c} : pc'[d] = pc[d] /\ key'[d] = key[d]
        /\ UNCHANGED <<busy, jobs, destroyed>>
    BY <1>1, <1>t DEF Refuse
  <2>3. QED
    BY <2>1, <2>2, <1>s
<1>2. ASSUME NEW c \in Clients, RunUnlocked(c) PROVE IInv'
  <2>1. TypeOK'
    BY <1>2 DEF RunUnlocked, TypeOK
  <2>2. /\ pc[c] \notin {"holding", "queued"} /\ pc'[c] \notin {"holding", "queued"}
        /\ \A d \in Clients \ {c} : pc'[d] = pc[d] /\ key'[d] = key[d]
        /\ UNCHANGED <<busy, jobs, destroyed>>
    BY <1>2, <1>t DEF RunUnlocked
  <2>3. QED
    BY <2>1, <2>2, <1>s
<1>3. ASSUME NEW c \in Clients, Return(c) PROVE IInv'
  <2>1. TypeOK'
    BY <1>3 DEF Return, TypeOK
  <2>2. /\ pc[c] \notin {"holding", "queued"} /\ pc'[c] \notin {"holding", "queued"}
        /\ \A d \in Clients \ {c} : pc'[d] = pc[d] /\ key'[d] = key[d]
        /\ UNCHANGED <<busy, jobs, destroyed>>
    BY <1>3, <1>t DEF Return
  <2>3. QED
    BY <2>1, <2>2, <1>s
<1>4. ASSUME NEW c \in Clients, NEW k \in Keys, Enqueue(c, k) PROVE IInv'
  <2>p. /\ pc[c] = "out" /\ pc'[c] = "queued" /\ key'[c] = k
        /\ \A d \in Clients \ {c} : pc'[d] = pc[d] /\ key'[d] = key[d]
        /\ k \in busy /\ busy' = busy /\ ~destroyed /\ destroyed' = destroyed
    BY <1>4, <1>t DEF Enqueue
  <2>a. /\ jobs'[k] \in Seq(Clients)
        /\ Len(jobs'[k]) = Len(jobs[k]) + 1
        /\ \A i \in 1..Len(jobs[k]) : jobs'[k][i] = jobs[k][i]
        /\ jobs'[k][Len(jobs[k]) + 1] = c
        /\ \A l \in Keys \ {k} : jobs'[l] = jobs[l]
    <3>1. jobs'[k] = Append(jobs[k], c) /\ \A l \in Keys \ {k} : jobs'[l] = jobs[l]
      BY <1>4 DEF Enqueue, Queued, TypeOK
    <3>2. QED
      BY <1>t, <3>1, AppendProperties
  <2>1. TypeOK'
    BY <1>4, <2>a DEF Enqueue, TypeOK
  <2>2. KeyedCalls' /\ OneHolderPerKey'
    BY <2>p DEF KeyedCalls, OneHolderPerKey
  <2>3. BusyIsHeld'
    BY <2>p DEF BusyIsHeld, HolderOfKey
  <2>4. QueuesHoldTheWaiting'
    <3>1. \A l \in Keys : \A i \in 1..Len(jobs[l]) : jobs[l][i] \in Clients \ {c}
      BY <1>t, <2>p DEF QueuesHoldTheWaiting
    <3>2. \A i \in 1..Len(jobs'[k]) : i \in 1..Len(jobs[k]) \/ i = Len(jobs[k]) + 1
      BY <1>t, <2>a
    <3>3. \A i \in 1..Len(jobs'[k]) : pc'[jobs'[k][i]] = "queued" /\ key'[jobs'[k][i]] = k
      BY <2>p, <2>a, <3>1, <3>2 DEF QueuesHoldTheWaiting
    <3>4. \A i, j \in 1..Len(jobs'[k]) : jobs'[k][i] = jobs'[k][j] => i = j
      <4>1. TAKE i, j \in 1..Len(jobs'[k])
      <4>2. CASE i \in 1..Len(jobs[k]) /\ j \in 1..Len(jobs[k])
        <5>1. jobs[k][i] = jobs[k][j] => i = j
          BY <4>2 DEF QueuesHoldTheWaiting
        <5>2. QED
          BY <2>a, <4>2, <5>1
      <4>3. CASE i = Len(jobs[k]) + 1 /\ j \in 1..Len(jobs[k])
        BY <2>a, <3>1, <4>3
      <4>4. CASE j = Len(jobs[k]) + 1 /\ i \in 1..Len(jobs[k])
        BY <2>a, <3>1, <4>4
      <4>5. QED
        BY <3>2, <4>2, <4>3, <4>4
    <3>5. \A d \in Clients : pc'[d] = "queued" /\ key'[d] = k
                               => \E i \in 1..Len(jobs'[k]) : jobs'[k][i] = d
      <4>1. Len(jobs[k]) + 1 \in 1..Len(jobs'[k])
            /\ \A i \in 1..Len(jobs[k]) : i \in 1..Len(jobs'[k])
        BY <1>t, <2>a
      <4>2. QED
        BY <2>p, <2>a, <4>1 DEF QueuesHoldTheWaiting
    <3>6. \A l \in Keys \ {k} :
            /\ \A i \in 1..Len(jobs'[l]) : pc'[jobs'[l][i]] = "queued" /\ key'[jobs'[l][i]] = l
            /\ \A i, j \in 1..Len(jobs'[l]) : jobs'[l][i] = jobs'[l][j] => i = j
            /\ \A d \in Clients : pc'[d] = "queued" /\ key'[d] = l
                                    => \E i \in 1..Len(jobs'[l]) : jobs'[l][i] = d
      <4>1. TAKE l \in Keys \ {k}
      <4>2. jobs'[l] = jobs[l]
        BY <2>a
      <4>3. \A i \in 1..Len(jobs[l]) : pc'[jobs[l][i]] = "queued" /\ key'[jobs[l][i]] = l
        BY <2>p, <3>1 DEF QueuesHoldTheWaiting
      <4>4. \A d \in Clients : pc'[d] = "queued" /\ key'[d] = l => pc[d] = "queued" /\ key[d] = l
        BY <2>p
      <4>5. QED
        BY <4>2, <4>3, <4>4 DEF QueuesHoldTheWaiting
    <3>7. \A l \in Keys : l \notin busy' => jobs'[l] = <<>>
      BY <2>p, <2>a DEF QueuesHoldTheWaiting
    <3>8. QED
      BY <3>3, <3>4, <3>5, <3>6, <3>7 DEF QueuesHoldTheWaiting
  <2>5. QED
    BY <2>1, <2>2, <2>3, <2>4
<1>5. ASSUME NEW c \in Clients, NEW k \in Keys, Acquire(c, k) PROVE IInv'
  <2>p. /\ pc[c] = "out" /\ pc'[c] = "holding" /\ key'[c] = k
        /\ \A d \in Clients \ {c} : pc'[d] = pc[d] /\ key'[d] = key[d]
        /\ k \notin busy /\ busy' = busy \cup {k} /\ jobs' = jobs
        /\ ~destroyed /\ destroyed' = destroyed
    BY <1>5, <1>t DEF Acquire
  <2>1. TypeOK'
    BY <1>5 DEF Acquire, TypeOK
  <2>2. KeyedCalls' /\ OneHolderPerKey'
    BY <2>p DEF KeyedCalls, OneHolderPerKey, BusyIsHeld
  <2>3. BusyIsHeld'
    BY <2>p DEF BusyIsHeld, HolderOfKey
  <2>4. QueuesHoldTheWaiting'
    <3>1. \A l \in Keys : \A i \in 1..Len(jobs[l]) : jobs[l][i] \in Clients \ {c}
      BY <1>t, <2>p DEF QueuesHoldTheWaiting
    <3>2. QED
      BY <2>p, <3>1 DEF QueuesHoldTheWaiting
  <2>5. QED
    BY <2>1, <2>2, <2>3, <2>4
<1>6. ASSUME NEW c \in Clients, Unlock(c), jobs[key[c]] = <<>> PROVE IInv'
  <2>p. /\ pc[c] = "holding" /\ pc'[c] = "out" /\ key[c] \in Keys
        /\ \A d \in Clients \ {c} : pc'[d] = pc[d] /\ key'[d] = key[d]
        /\ busy' = busy \ {key[c]} /\ jobs' = jobs /\ destroyed' = destroyed
    BY <1>6, <1>t DEF Unlock, KeyedCalls
  <2>1. TypeOK'
    BY <1>6 DEF Unlock, TypeOK
  <2>2. KeyedCalls' /\ OneHolderPerKey'
    BY <2>p DEF KeyedCalls, OneHolderPerKey
  <2>3. BusyIsHeld'
    BY <2>p DEF BusyIsHeld, HolderOfKey, OneHolderPerKey
  <2>4. QueuesHoldTheWaiting'
    <3>1. \A l \in Keys : \A i \in 1..Len(jobs[l]) : jobs[l][i] \in Clients \ {c}
      BY <1>t, <2>p DEF QueuesHoldTheWaiting
    <3>2. \A l \in Keys : l \notin busy' => jobs'[l] = <<>>
      BY <1>6, <2>p DEF QueuesHoldTheWaiting
    <3>3. QED
      BY <2>p, <3>1, <3>2 DEF QueuesHoldTheWaiting
  <2>5. QED
    BY <2>1, <2>2, <2>3, <2>4
<1>7. ASSUME NEW c \in Clients, Unlock(c), jobs[key[c]] # <<>> PROVE IInv'
  <2> DEFINE k == key[c]
             h == Head(jobs[k])
  <2>k. pc[c] = "holding" /\ k \in Keys /\ ~destroyed /\ destroyed' = destroyed
    BY <1>7 DEF Unlock, HandOver, KeyedCalls
  <2>a. /\ h \in Clients /\ h = jobs[k][1] /\ Len(jobs[k]) > 0
        /\ jobs'[k] \in Seq(Clients)
        /\ Len(jobs'[k]) = Len(jobs[k]) - 1
        /\ \A i \in 1..Len(jobs'[k]) : jobs'[k][i] = jobs[k][i + 1]
        /\ \A l \in Keys \ {k} : jobs'[l] = jobs[l]
    <3>1. jobs' = [jobs EXCEPT ![k] = Tail(@)]
      BY <1>7 DEF Unlock, HandOver
    <3>2. jobs'[k] = Tail(jobs[k]) /\ \A l \in Keys \ {k} : jobs'[l] = jobs[l]
      BY <3>1, <2>k DEF TypeOK
    <3>3. jobs[k] \in Seq(Clients) /\ jobs[k] # <<>>
      BY <1>7, <1>t, <2>k
    <3>4. Len(jobs[k]) > 0 /\ h = jobs[k][1]
      BY <3>3, EmptySeq
    <3>5. QED
      BY <3>2, <3>3, <3>4, HeadTailProperties
  <2>b. pc[h] = "queued" /\ key[h] = k /\ h # c
    BY <1>t, <2>k, <2>a DEF QueuesHoldTheWaiting
  <2>p. /\ pc'[c] = "out" /\ pc'[h] = "holding" /\ key'[h] = k
        /\ \A d \in Clients \ {c, h} : pc'[d] = pc[d] /\ key'[d] = key[d]
        /\ busy' = busy \cup {k} /\ k \in busy
    BY <1>7, <1>t, <2>k, <2>a, <2>b DEF Unlock, HandOver
  <2>1. TypeOK'
    <3>1. jobs' \in [Keys -> Seq(Clients)]
      <4>1. jobs' = [jobs EXCEPT ![k] = Tail(@)]
        BY <1>7 DEF Unlock, HandOver
      <4>2. \A l \in Keys : jobs'[l] \in Seq(Clients)
        BY <1>t, <2>a
      <4>3. QED
        BY <4>1, <4>2 DEF TypeOK
    <3>2. pc' \in [Clients -> {"out", "queued", "holding", "refused", "unlocked"}]
      BY <1>7, <1>t DEF Unlock
    <3>3. key' \in [Clients -> Keys \cup {NoKey}]
      BY <1>7, <1>t DEF Unlock
    <3>4. QED
      BY <2>k, <2>p, <3>1, <3>2, <3>3 DEF TypeOK
  <2>2. KeyedCalls' /\ OneHolderPerKey'
    <3>1. KeyedCalls'
      BY <2>k, <2>b, <2>p DEF KeyedCalls
    <3>2. \A d \in Clients : pc'[d] = "holding" /\ key'[d] = k => d = h
      BY <2>k, <2>b, <2>p DEF OneHolderPerKey
    <3>3. \A d \in Clients : pc'[d] = "holding" => d = h \/ (pc[d] = "holding" /\ key'[d] = key[d])
      BY <2>p
    <3>4. QED
      BY <2>p, <3>1, <3>2, <3>3 DEF OneHolderPerKey
  <2>3. BusyIsHeld'
    <3>1. \A d \in Clients : pc'[d] = "holding" => key'[d] \in busy'
      BY <2>k, <2>b, <2>p DEF BusyIsHeld
    <3>2. \A l \in busy' : \E d \in Clients : HolderOfKey(d, l)'
      <4>1. TAKE l \in busy'
      <4>2. CASE l = k
        BY <2>a, <2>p, <4>2 DEF HolderOfKey
      <4>3. CASE l # k
        <5>1. PICK d \in Clients : HolderOfKey(d, l)
          BY <2>p, <4>3 DEF BusyIsHeld
        <5>2. d # c /\ d # h
          BY <2>b, <4>3, <5>1 DEF HolderOfKey
        <5>3. QED
          BY <2>p, <5>1, <5>2 DEF HolderOfKey
      <4>4. QED
        BY <4>2, <4>3
    <3>3. QED
      BY <2>k, <3>1, <3>2 DEF BusyIsHeld
  <2>4. QueuesHoldTheWaiting'
    <3>1. \A i \in 1..Len(jobs'[k]) :
            /\ i + 1 \in 1..Len(jobs[k])
            /\ jobs[k][i + 1] \in Clients \ {c, h}
      <4>1. TAKE i \in 1..Len(jobs'[k])
      <4>2. i + 1 \in 1..Len(jobs[k]) /\ i + 1 # 1 /\ 1 \in 1..Len(jobs[k])
        BY <1>t, <2>k, <2>a
      <4>3. QED
        BY <1>t, <2>k, <2>a, <4>2 DEF QueuesHoldTheWaiting
    <3>2. \A l \in Keys \ {k} : \A i \in 1..Len(jobs[l]) : jobs[l][i] \in Clients \ {c, h}
      BY <1>t, <2>k, <2>b DEF QueuesHoldTheWaiting
    <3>3. \A i \in 1..Len(jobs'[k]) : pc'[jobs'[k][i]] = "queued" /\ key'[jobs'[k][i]] = k
      <4>1. TAKE i \in 1..Len(jobs'[k])
      <4>2. pc[jobs[k][i + 1]] = "queued" /\ key[jobs[k][i + 1]] = k
        BY <2>k, <3>1 DEF QueuesHoldTheWaiting
      <4>3. QED
        BY <2>a, <2>p, <3>1, <4>2
    <3>4. \A i, j \in 1..Len(jobs'[k]) : jobs'[k][i] = jobs'[k][j] => i = j
      <4>1. TAKE i, j \in 1..Len(jobs'[k])
      <4>2. i + 1 \in 1..Len(jobs[k]) /\ j + 1 \in 1..Len(jobs[k])
        BY <3>1
      <4>3. jobs[k][i + 1] = jobs[k][j + 1] => i + 1 = j + 1
        BY <2>k, <4>2 DEF QueuesHoldTheWaiting
      <4>4. i + 1 = j + 1 => i = j
        OBVIOUS
      <4>5. QED
        BY <2>a, <4>3, <4>4
    <3>5. ASSUME NEW d \in Clients, pc'[d] = "queued", key'[d] = k
          PROVE  \E i \in 1..Len(jobs'[k]) : jobs'[k][i] = d
      <4>1. pc[d] = "queued" /\ key[d] = k /\ d # h
        BY <2>p, <3>5
      <4>2. PICK i \in 1..Len(jobs[k]) : jobs[k][i] = d
        BY <2>k, <4>1 DEF QueuesHoldTheWaiting
      <4>3. i # 1 /\ i - 1 \in 1..Len(jobs'[k]) /\ (i - 1) + 1 = i
        BY <1>t, <2>k, <2>a, <4>1, <4>2
      <4>4. jobs'[k][i - 1] = d
        BY <2>a, <4>2, <4>3
      <4>5. QED
        BY <4>3, <4>4
    <3>6. \A l \in Keys \ {k} :
            /\ \A i \in 1..Len(jobs'[l]) : pc'[jobs'[l][i]] = "queued" /\ key'[jobs'[l][i]] = l
            /\ \A i, j \in 1..Len(jobs'[l]) : jobs'[l][i] = jobs'[l][j] => i = j
            /\ \A d \in Clients : pc'[d] = "queued" /\ key'[d] = l
                                    => \E i \in 1..Len(jobs'[l]) : jobs'[l][i] = d
      <4>1. TAKE l \in Keys \ {k}
      <4>2. jobs'[l] = jobs[l]
        BY <2>a
      <4>3. \A i \in 1..Len(jobs[l]) : pc'[jobs[l][i]] = "queued" /\ key'[jobs[l][i]] = l
        BY <2>p, <3>2 DEF QueuesHoldTheWaiting
      <4>4. \A d \in Clients : pc'[d] = "queued" => pc[d] = "queued" /\ key'[d] = key[d]
        BY <2>p
      <4>5. QED
        BY <4>2, <4>3, <4>4 DEF QueuesHoldTheWaiting
    <3>7. \A l \in Keys : l \notin busy' => jobs'[l] = <<>>
      BY <2>p, <2>a DEF QueuesHoldTheWaiting
    <3>8. QED
      BY <3>3, <3>4, <3>5, <3>6, <3>7 DEF QueuesHoldTheWaiting
  <2>5. QED
    BY <2>1, <2>2, <2>3, <2>4
<1>8. ASSUME Destroy PROVE IInv'
  <2>p. /\ \A k \in Keys : jobs'[k] = <<>> /\ Len(jobs'[k]) = 0
        /\ \A d \in Clients : pc'[d] # "queued" /\ (pc'[d] = "holding" => pc[d] = "holding")
        /\ key' = key /\ busy' = {} /\ destroyed'
    BY <1>8, <1>t, EmptySeq DEF Destroy
  <2>1. TypeOK'
    <3>1. <<>> \in Seq(Clients)
      BY EmptySeq
    <3>2. QED
      BY <1>8, <3>1 DEF Destroy, TypeOK
  <2>2. KeyedCalls' /\ OneHolderPerKey' /\ BusyIsHeld'
    BY <2>p DEF KeyedCalls, OneHolderPerKey, BusyIsHeld
  <2>3. QueuesHoldTheWaiting'
    BY <2>p DEF QueuesHoldTheWaiting
  <2>4. QED
    BY <2>1, <2>2, <2>3
<1>9. CASE UNCHANGED vars
  BY <1>9 DEF vars, TypeOK, KeyedCalls, OneHolderPerKey, BusyIsHeld, HolderOfKey,
              QueuesHoldTheWaiting
<1>10. QED
  BY <1>1, <1>2, <1>3, <1>4, <1>5, <1>6, <1>7, <1>8, <1>9 DEF Next

(* The invariant holds in every reachable state.                           *)
THEOREM Invariance == Spec => []IInv
PROOF
<1>1. QED
  BY InitIInv, NextIInv, PTL DEF Spec

(* Every variable of the lock keeps its type.                              *)
THEOREM TypeCorrect == Spec => []TypeOK
PROOF
<1>1. IInv => TypeOK
  BY DEF IInv
<1>2. QED
  BY <1>1, Invariance, PTL

(* Two calls never run under one key at once, whatever destroys the lock.  *)
THEOREM KeysExclude == Spec => []OneHolderPerKey
PROOF
<1>1. IInv => OneHolderPerKey
  BY DEF IInv
<1>2. QED
  BY <1>1, Invariance, PTL

(* A key is busy exactly while it is held, and every call that waits for   *)
(* it stands once in its queue: nobody waits for a key that nobody holds.  *)
THEOREM QueuesServed == Spec => []QueuesAreServed
PROOF
<1>1. ASSUME IInv PROVE QueuesAreServed
  <2>1. \A k \in Keys : DOMAIN jobs[k] = 1..Len(jobs[k])
    BY <1>1, LenProperties DEF IInv, TypeOK
  <2>2. \A k \in Keys : \A i \in 1..Len(jobs[k]) : jobs[k][i] \in Clients
    BY <1>1, ElementOfSeq DEF IInv, TypeOK
  <2>3. ~destroyed => busy = {k \in Keys : \E c \in Clients : pc[c] = "holding" /\ key[c] = k}
    BY <1>1 DEF IInv, TypeOK, BusyIsHeld, HolderOfKey
  <2>4. QED
    BY <1>1, <2>1, <2>2, <2>3 DEF IInv, QueuesHoldTheWaiting, QueuesAreServed
<1>2. QED
  BY <1>1, Invariance, PTL

-----------------------------------------------------------------------------
(* The refinement.  What the mutex's operations do to a line that has h at *)
(* its head and s behind it.                                               *)
LEMMA LineOps ==
  ASSUME NEW h \in Clients, NEW s \in Seq(Clients)
  PROVE  /\ <<h>> \o s \in Seq(Clients)
         /\ <<h>> \o s # <<>>
         /\ Len(<<h>> \o s) = Len(s) + 1
         /\ (<<h>> \o s)[1] = h
         /\ \A i \in 1..Len(s) : (<<h>> \o s)[i + 1] = s[i]
         /\ Head(<<h>> \o s) = h
         /\ Tail(<<h>> \o s) = s
         /\ SubSeq(<<h>> \o s, 1, 1) = <<h>>
         /\ \A c \in Clients : Append(<<h>> \o s, c) = <<h>> \o Append(s, c)
PROOF
<1> DEFINE l == <<h>> \o s
<1>1. <<h>> \in Seq(Clients) /\ Len(<<h>>) = 1 /\ <<h>>[1] = h /\ Len(s) \in Nat
  BY LenProperties
<1>2. /\ l \in Seq(Clients)
      /\ Len(l) = 1 + Len(s)
      /\ \A i \in 1..(1 + Len(s)) : l[i] = IF i <= 1 THEN <<h>>[i] ELSE s[i - 1]
  BY <1>1, ConcatProperties
<1>3. l[1] = h /\ \A i \in 1..Len(s) : l[i + 1] = s[i]
  BY <1>1, <1>2
<1>4. l # <<>>
  BY <1>1, <1>2, EmptySeq
<1>5. Head(l) = h
  BY <1>3, <1>4
<1>6. Tail(l) = s
  <2>1. /\ Tail(l) \in Seq(Clients) /\ Len(Tail(l)) = Len(s)
        /\ \A i \in 1..Len(s) : Tail(l)[i] = s[i]
    BY <1>1, <1>2, <1>3, <1>4, HeadTailProperties
  <2>2. QED
    BY <2>1, SeqEqual
<1>7. SubSeq(l, 1, 1) = <<h>>
  <2>1. \A i \in 1..1 : l[i] \in Clients
    BY <1>3
  <2>2. /\ SubSeq(l, 1, 1) \in Seq(Clients) /\ Len(SubSeq(l, 1, 1)) = 1
        /\ SubSeq(l, 1, 1)[1] = h
    BY <1>3, <2>1, SubSeqProperties
  <2>3. \A i \in 1..Len(SubSeq(l, 1, 1)) : SubSeq(l, 1, 1)[i] = <<h>>[i]
    BY <1>1, <2>2
  <2> HIDE DEF l
  <2>4. QED
    BY <1>1, <2>2, <2>3, SeqEqual
<1>8. ASSUME NEW c \in Clients PROVE Append(l, c) = <<h>> \o Append(s, c)
  <2>1. <<c>> \in Seq(Clients)
    OBVIOUS
  <2>2. Append(l, c) = l \o <<c>> /\ Append(s, c) = s \o <<c>>
    BY <1>2, AppendIsConcat
  <2>3. QED
    BY <1>1, <2>1, <2>2, ConcatAssociative
<1>9. QED
  BY <1>1, <1>2, <1>3, <1>4, <1>5, <1>6, <1>7, <1>8

(* The line of a key is empty without a holder; otherwise the holder is at *)
(* its head and the queue behind it.                                       *)
LineShape ==
  \A k \in Keys :
    /\ \A c \in Clients : HolderOfKey(c, k) => Line(k) = <<c>> \o jobs[k]
    /\ (\A c \in Clients : ~HolderOfKey(c, k)) => Line(k) = <<>> /\ jobs[k] = <<>>

(* The line of each abstract mutex is the key's holder and its queued      *)
(* calls.                                                                  *)
LEMMA LineHasShape == IInv => LineShape
PROOF
<1> SUFFICES ASSUME IInv, NEW k \in Keys
             PROVE  /\ \A c \in Clients : HolderOfKey(c, k) => Line(k) = <<c>> \o jobs[k]
                    /\ (\A c \in Clients : ~HolderOfKey(c, k)) => Line(k) = <<>> /\ jobs[k] = <<>>
  BY DEF LineShape
<1>1. Line(k) = (IF Holders(k) = {} THEN <<>> ELSE <<CHOOSE c \in Holders(k) : TRUE>>) \o jobs[k]
  BY DEF Line
<1>2. ASSUME NEW c \in Clients, HolderOfKey(c, k) PROVE Line(k) = <<c>> \o jobs[k]
  <2>1. Holders(k) = {c}
    BY <1>2 DEF IInv, OneHolderPerKey, Holders, HolderOfKey
  <2>2. (CHOOSE d \in Holders(k) : TRUE) = c
    BY <2>1
  <2>3. QED
    BY <1>1, <2>1, <2>2
<1>3. ASSUME \A c \in Clients : ~HolderOfKey(c, k) PROVE Line(k) = <<>> /\ jobs[k] = <<>>
  <2>1. Holders(k) = {}
    BY <1>3 DEF Holders, HolderOfKey
  <2>2. jobs[k] = <<>>
    BY <1>3 DEF IInv, BusyIsHeld, QueuesHoldTheWaiting
  <2>3. <<>> \o jobs[k] = jobs[k]
    BY ConcatEmptySeq DEF IInv, TypeOK
  <2>4. QED
    BY <1>1, <2>1, <2>2, <2>3
<1>4. QED
  BY <1>2, <1>3

(* A call that neither holds a key nor waits for one is in no line.        *)
LEMMA OutsideLine ==
  ASSUME IInv, LineShape, NEW c \in Clients, pc[c] \notin {"holding", "queued"}, NEW k \in Keys
  PROVE  ~\E i \in 1..Len(Line(k)) : Line(k)[i] = c
PROOF
<1>1. jobs[k] \in Seq(Clients) /\ Len(jobs[k]) \in Nat
  BY LenProperties DEF IInv, TypeOK
<1>2. CASE \E h \in Clients : HolderOfKey(h, k)
  <2>1. PICK h \in Clients : HolderOfKey(h, k)
    BY <1>2
  <2>2. Line(k) = <<h>> \o jobs[k]
    BY <2>1 DEF LineShape
  <2>3. /\ Len(Line(k)) = Len(jobs[k]) + 1
        /\ Line(k)[1] = h
        /\ \A i \in 1..Len(jobs[k]) : Line(k)[i + 1] = jobs[k][i]
    BY <1>1, <2>2, LineOps
  <2>4. \A i \in 1..Len(jobs[k]) : jobs[k][i] # c
    BY DEF IInv, QueuesHoldTheWaiting
  <2>5. ASSUME NEW i \in 1..Len(Line(k)) PROVE Line(k)[i] # c
    <3>1. CASE i = 1
      BY <2>1, <2>3, <3>1 DEF HolderOfKey
    <3>2. CASE i # 1
      <4>1. i - 1 \in 1..Len(jobs[k]) /\ (i - 1) + 1 = i
        BY <1>1, <2>3, <3>2
      <4>2. QED
        BY <2>3, <2>4, <4>1
    <3>3. QED
      BY <3>1, <3>2
  <2>6. QED
    BY <2>5
<1>3. CASE \A h \in Clients : ~HolderOfKey(h, k)
  <2>1. Line(k) = <<>>
    BY <1>3 DEF LineShape
  <2>2. QED
    BY <2>1
<1>4. QED
  BY <1>2, <1>3

(* A line whose holder and queue stay as they are stays as it is.          *)
LEMMA SameLine ==
  ASSUME LineShape, LineShape', NEW k \in Keys, jobs'[k] = jobs[k],
         \A d \in Clients : HolderOfKey(d, k)' <=> HolderOfKey(d, k)
  PROVE  Line(k)' = Line(k)
PROOF
<1>1. CASE \E h \in Clients : HolderOfKey(h, k)
  <2>1. PICK h \in Clients : HolderOfKey(h, k)
    BY <1>1
  <2>2. HolderOfKey(h, k)'
    BY <2>1
  <2>3. Line(k) = <<h>> \o jobs[k]
    BY <2>1 DEF LineShape
  <2>4. Line(k)' = <<h>> \o jobs'[k]
    BY <2>2 DEF LineShape
  <2>5. QED
    BY <2>3, <2>4
<1>2. CASE \A h \in Clients : ~HolderOfKey(h, k)
  BY <1>2 DEF LineShape
<1>3. QED
  BY <1>1, <1>2

(* Every step of the lock is a step of the abstract mutex, or changes      *)
(* nothing it can see.                                                     *)
LEMMA MutexStep ==
  ASSUME IInv, LineShape, LineShape', [Next]_vars
  PROVE  [Mutex!Next]_<<[k \in Keys |-> Line(k)], destroyed>>
PROOF
<1> DEFINE lines == [k \in Keys |-> Line(k)]
<1>t. /\ \A k \in Keys : jobs[k] \in Seq(Clients)
      /\ pc \in [Clients -> {"out", "queued", "holding", "refused", "unlocked"}]
      /\ key \in [Clients -> Keys \cup {NoKey}]
      /\ jobs \in [Keys -> Seq(Clients)]
  BY DEF IInv, TypeOK
<1>q. ASSUME \A k \in Keys : \A d \in Clients : HolderOfKey(d, k)' <=> HolderOfKey(d, k),
             jobs' = jobs, destroyed' = destroyed
      PROVE  UNCHANGED <<lines, destroyed>>
  <2>1. \A k \in Keys : Line(k)' = Line(k)
    BY <1>q, SameLine
  <2>2. QED
    BY <1>q, <2>1
<1>j. ASSUME NEW c \in Clients, NEW k \in Keys, ~destroyed, pc[c] = "out", destroyed' = destroyed,
             Line(k)' = Append(Line(k), c), \A l \in Keys \ {k} : Line(l)' = Line(l)
      PROVE  Mutex!Next
  <2>1. \A l \in Keys : ~Mutex!InLine(c, l)
    <3>1. \A l \in Keys : ~\E i \in 1..Len(Line(l)) : Line(l)[i] = c
      BY <1>j, OutsideLine
    <3>2. QED
      BY <3>1 DEF Mutex!InLine
  <2>2. lines' = [lines EXCEPT ![k] = Append(@, c)]
    BY <1>j
  <2>3. Mutex!Join(c, k)
    BY <1>j, <2>1, <2>2 DEF Mutex!Join
  <2>4. QED
    BY <2>3 DEF Mutex!Next
<1>1. ASSUME NEW c \in Clients, Refuse(c) \/ RunUnlocked(c) \/ Return(c)
      PROVE  UNCHANGED <<lines, destroyed>>
  <2>1. jobs' = jobs /\ destroyed' = destroyed
    BY <1>1 DEF Refuse, RunUnlocked, Return
  <2>2. \A d \in Clients : /\ pc'[d] = "holding" <=> pc[d] = "holding"
                           /\ pc[d] = "holding" => key'[d] = key[d]
    BY <1>1, <1>t DEF Refuse, RunUnlocked, Return
  <2>3. QED
    BY <1>q, <2>1, <2>2 DEF HolderOfKey
<1>2. ASSUME NEW c \in Clients, NEW k \in Keys, Enqueue(c, k) PROVE Mutex!Next
  <2>p. /\ pc[c] = "out" /\ pc'[c] = "queued" /\ key'[c] = k
        /\ \A d \in Clients \ {c} : pc'[d] = pc[d] /\ key'[d] = key[d]
        /\ k \in busy /\ ~destroyed /\ destroyed' = destroyed
        /\ jobs'[k] = Append(jobs[k], c) /\ \A l \in Keys \ {k} : jobs'[l] = jobs[l]
    BY <1>2, <1>t DEF Enqueue, Queued
  <2>1. \A l \in Keys : \A d \in Clients : HolderOfKey(d, l)' <=> HolderOfKey(d, l)
    BY <2>p DEF HolderOfKey
  <2>2. \A l \in Keys \ {k} : Line(l)' = Line(l)
    BY <2>p, <2>1, SameLine
  <2>3. PICK h \in Clients : HolderOfKey(h, k)
    BY <2>p DEF IInv, BusyIsHeld
  <2>4. HolderOfKey(h, k)'
    BY <2>1, <2>3
  <2>5. Line(k) = <<h>> \o jobs[k]
    BY <2>3 DEF LineShape
  <2>6. Line(k)' = <<h>> \o Append(jobs[k], c)
    BY <2>p, <2>4 DEF LineShape
  <2>7. Append(<<h>> \o jobs[k], c) = <<h>> \o Append(jobs[k], c)
    BY <1>t, LineOps
  <2>8. QED
    BY <1>j, <2>p, <2>2, <2>5, <2>6, <2>7
<1>3. ASSUME NEW c \in Clients, NEW k \in Keys, Acquire(c, k) PROVE Mutex!Next
  <2>p. /\ pc[c] = "out" /\ pc'[c] = "holding" /\ key'[c] = k
        /\ \A d \in Clients \ {c} : pc'[d] = pc[d] /\ key'[d] = key[d]
        /\ k \notin busy /\ ~destroyed /\ destroyed' = destroyed /\ jobs' = jobs
    BY <1>3, <1>t DEF Acquire
  <2>1. \A l \in Keys \ {k} : \A d \in Clients : HolderOfKey(d, l)' <=> HolderOfKey(d, l)
    BY <2>p DEF HolderOfKey
  <2>2. \A l \in Keys \ {k} : Line(l)' = Line(l)
    BY <2>p, <2>1, SameLine
  <2>3. \A d \in Clients : ~HolderOfKey(d, k)
    BY <2>p DEF IInv, BusyIsHeld, HolderOfKey
  <2>4. Line(k) = <<>> /\ jobs[k] = <<>>
    BY <2>3 DEF LineShape
  <2>5. HolderOfKey(c, k)'
    BY <2>p DEF HolderOfKey
  <2>6. Line(k)' = <<c>> \o <<>>
    <3>1. Line(k)' = <<c>> \o jobs'[k]
      BY <2>5 DEF LineShape
    <3>2. QED
      BY <2>p, <2>4, <3>1
  <2>7. <<c>> \o <<>> = <<c>> /\ Append(<<>>, c) = <<c>>
    <3>1. <<c>> \in Seq(Clients) /\ <<>> \in Seq(Clients)
      BY EmptySeq
    <3>2. <<c>> \o <<>> = <<c>> /\ Append(<<>>, c) = <<>> \o <<c>> /\ <<>> \o <<c>> = <<c>>
      BY <3>1, ConcatEmptySeq, AppendIsConcat
    <3>3. QED
      BY <3>2
  <2>8. QED
    BY <1>j, <2>p, <2>2, <2>4, <2>6, <2>7
<1>4. ASSUME NEW c \in Clients, Unlock(c) PROVE Mutex!Next
  <2>0. PICK k \in Keys : k = key[c]
    BY <1>4 DEF Unlock, IInv, KeyedCalls
  <2>p. pc[c] = "holding" /\ k = key[c] /\ destroyed' = destroyed /\ HolderOfKey(c, k)
    BY <1>4, <2>0 DEF Unlock, HolderOfKey
  <2>1. Line(k) = <<c>> \o jobs[k]
    BY <2>p DEF LineShape
  <2>2. Line(k) # <<>> /\ Head(Line(k)) = c /\ Tail(Line(k)) = jobs[k]
    <3>1. jobs[k] \in Seq(Clients)
      BY <1>t
    <3>2. <<c>> \o jobs[k] # <<>> /\ Head(<<c>> \o jobs[k]) = c /\ Tail(<<c>> \o jobs[k]) = jobs[k]
      BY <3>1, LineOps
    <3>3. QED
      BY <2>1, <3>2
  <2>3. Line(k)' = jobs[k] /\ \A l \in Keys \ {k} : Line(l)' = Line(l)
    <3>1. CASE jobs[k] = <<>>
      <4>1. /\ pc'[c] = "out" /\ jobs' = jobs
            /\ \A d \in Clients \ {c} : pc'[d] = pc[d] /\ key'[d] = key[d]
        BY <1>4, <1>t, <2>0, <3>1 DEF Unlock
      <4>2. \A d \in Clients : ~HolderOfKey(d, k)'
        BY <2>p, <4>1 DEF HolderOfKey, IInv, OneHolderPerKey
      <4>3. Line(k)' = <<>>
        BY <2>p, <4>2 DEF LineShape
      <4>4. \A l \in Keys \ {k} : \A d \in Clients : HolderOfKey(d, l)' <=> HolderOfKey(d, l)
        BY <2>p, <4>1 DEF HolderOfKey
      <4>5. \A l \in Keys \ {k} : Line(l)' = Line(l)
        BY <4>1, <4>4, SameLine
      <4>6. QED
        BY <3>1, <4>3, <4>5
    <3>2. CASE jobs[k] # <<>>
      <4>0. jobs[k] \in Seq(Clients)
        BY <1>t, <2>p
      <4>h. PICK h \in Clients : h = Head(jobs[k])
        BY <3>2, <4>0, HeadTailProperties
      <4>1. h = jobs[k][1] /\ 1 \in 1..Len(jobs[k])
        BY <3>2, <4>0, <4>h, EmptySeq
      <4>2. pc[h] = "queued" /\ key[h] = k /\ h # c
        BY <2>p, <4>1 DEF IInv, QueuesHoldTheWaiting
      <4>3. /\ pc'[c] = "out" /\ pc'[h] = "holding" /\ key'[h] = k
            /\ \A d \in Clients \ {c, h} : pc'[d] = pc[d] /\ key'[d] = key[d]
            /\ jobs'[k] = Tail(jobs[k]) /\ \A l \in Keys \ {k} : jobs'[l] = jobs[l]
        BY <1>4, <1>t, <2>p, <3>2, <4>h, <4>2 DEF Unlock, HandOver
      <4>4. HolderOfKey(h, k)'
        BY <4>3 DEF HolderOfKey
      <4>5. Line(k)' = <<h>> \o Tail(jobs[k])
        <5>1. Line(k)' = <<h>> \o jobs'[k]
          BY <2>p, <4>1, <4>4 DEF LineShape
        <5>2. QED
          BY <4>3, <5>1
      <4>6. <<h>> \o Tail(jobs[k]) = jobs[k]
        <5> DEFINE s == Tail(jobs[k])
        <5>1. /\ s \in Seq(Clients) /\ Len(s) = Len(jobs[k]) - 1
              /\ \A i \in 1..Len(s) : s[i] = jobs[k][i + 1]
          BY <3>2, <4>0, HeadTailProperties
        <5>2. Len(jobs[k]) \in Nat
          BY <4>0, LenProperties
        <5>3. /\ <<h>> \o s \in Seq(Clients) /\ Len(<<h>> \o s) = Len(s) + 1
              /\ (<<h>> \o s)[1] = h /\ \A i \in 1..Len(s) : (<<h>> \o s)[i + 1] = s[i]
          BY <4>1, <5>1, LineOps
        <5>4. Len(<<h>> \o s) = Len(jobs[k])
          BY <5>1, <5>2, <5>3
        <5>5. ASSUME NEW i \in 1..Len(<<h>> \o s) PROVE (<<h>> \o s)[i] = jobs[k][i]
          <6>1. CASE i = 1
            BY <4>1, <5>3, <6>1
          <6>2. CASE i # 1
            <7>1. i - 1 \in 1..Len(s) /\ (i - 1) + 1 = i
              BY <5>1, <5>2, <5>4, <5>5, <6>2
            <7>2. QED
              BY <5>1, <5>3, <7>1
          <6>3. QED
            BY <6>1, <6>2
        <5>6. QED
          BY <4>0, <5>3, <5>4, <5>5, SeqEqual
      <4>7. \A l \in Keys \ {k} : \A d \in Clients : HolderOfKey(d, l)' <=> HolderOfKey(d, l)
        BY <2>p, <4>2, <4>3 DEF HolderOfKey
      <4>8. \A l \in Keys \ {k} : Line(l)' = Line(l)
        BY <4>3, <4>7, SameLine
      <4>9. QED
        BY <4>5, <4>6, <4>8
    <3>3. QED
      BY <3>1, <3>2
  <2>4. lines' = [lines EXCEPT ![k] = Tail(@)]
    BY <2>p, <2>2, <2>3
  <2>5. Mutex!Leave(c, k)
    BY <2>p, <2>2, <2>4 DEF Mutex!Leave, Mutex!Owns
  <2>6. QED
    BY <2>p, <2>5 DEF Mutex!Next
<1>5. ASSUME Destroy PROVE Mutex!Next
  <2>p. /\ ~destroyed /\ destroyed' /\ \A k \in Keys : jobs'[k] = <<>>
        /\ \A d \in Clients : pc'[d] = "holding" <=> pc[d] = "holding"
        /\ key' = key
    BY <1>5, <1>t DEF Destroy
  <2>1. ASSUME NEW k \in Keys
        PROVE  Line(k)' = SubSeq(Line(k), 1, IF Line(k) = <<>> THEN 0 ELSE 1)
    <3>0. \A d \in Clients : HolderOfKey(d, k)' <=> HolderOfKey(d, k)
      BY <2>p DEF HolderOfKey
    <3>1. CASE \E h \in Clients : HolderOfKey(h, k)
      <4>1. PICK h \in Clients : HolderOfKey(h, k)
        BY <3>1
      <4>2. HolderOfKey(h, k)'
        BY <3>0, <4>1
      <4>3. Line(k) = <<h>> \o jobs[k]
        BY <4>1 DEF LineShape
      <4>4. Line(k)' = <<h>> \o <<>>
        <5>1. Line(k)' = <<h>> \o jobs'[k]
          BY <4>2 DEF LineShape
        <5>2. QED
          BY <2>p, <5>1
      <4>5. <<h>> \in Seq(Clients) /\ <<h>> \o <<>> = <<h>>
        BY ConcatEmptySeq
      <4>6. Line(k) # <<>> /\ SubSeq(Line(k), 1, 1) = <<h>>
        <5>1. jobs[k] \in Seq(Clients)
          BY <1>t
        <5>2. <<h>> \o jobs[k] # <<>> /\ SubSeq(<<h>> \o jobs[k], 1, 1) = <<h>>
          BY <5>1, LineOps
        <5>3. QED
          BY <4>3, <5>2
      <4>7. QED
        BY <4>4, <4>5, <4>6
    <3>2. CASE \A h \in Clients : ~HolderOfKey(h, k)
      <4>1. Line(k) = <<>>
        BY <3>2 DEF LineShape
      <4>2. Line(k)' = <<>>
        BY <3>0, <3>2 DEF LineShape
      <4>3. SubSeq(<<>>, 1, 0) = <<>>
        BY SubSeqEmpty
      <4>4. QED
        BY <4>1, <4>2, <4>3
    <3>3. QED
      BY <3>1, <3>2
  <2>2. lines' = [k \in Keys |-> SubSeq(lines[k], 1, IF lines[k] = <<>> THEN 0 ELSE 1)]
    BY <2>1
  <2>3. Mutex!Close
    BY <2>p, <2>2 DEF Mutex!Close
  <2>4. QED
    BY <2>3 DEF Mutex!Next
<1>6. CASE UNCHANGED vars
  BY <1>6, <1>q DEF vars, HolderOfKey
<1>7. QED
  BY <1>1, <1>2, <1>3, <1>4, <1>5, <1>6 DEF Next

(* The lock implements the abstract mutex: each key is handed over in the  *)
(* order of the calls that asked for it, whatever the other keys do.       *)
THEOREM RefinesFifoMutex == Spec => ImplementsFifoMutex
PROOF
<1>1. Init => Mutex!Init
  <2>1. ASSUME Init PROVE \A k \in Keys : Line(k) = <<>>
    BY <2>1, InitIInv, LineHasShape DEF LineShape, Init, HolderOfKey
  <2>2. QED
    BY <2>1 DEF Init, Mutex!Init
<1>2. Spec => []LineShape
  BY Invariance, LineHasShape, PTL
<1>3. IInv /\ LineShape /\ LineShape' /\ [Next]_vars
        => [Mutex!Next]_<<[k \in Keys |-> Line(k)], destroyed>>
  BY MutexStep
<1>4. QED
  BY Invariance, <1>1, <1>2, <1>3, PTL
     DEF Spec, ImplementsFifoMutex, Mutex!Spec, Mutex!mutexVars
=============================================================================
