----------------------------- MODULE MappedLock -----------------------------
(***************************************************************************)
(* The MappedLock of lib/utils/lock.js: one FIFO mutex per key, created on *)
(* demand.  The wallet uses it to read each account once, the wallet       *)
(* database to open each wallet once.                                      *)
(*                                                                         *)
(* pc is as in module Lock, with "unlocked" for a call that passed a null  *)
(* key: its promise resolves to a no-op and it runs without any lock.      *)
(***************************************************************************)
EXTENDS Naturals, Sequences, FiniteSets

CONSTANTS
  Clients,      \* calls that take the lock
  Keys,         \* what they lock (wallet ids, account indexes)
  NoKey         \* the null key, not in Keys

VARIABLES
  busy,         \* MappedLock.busy: keys that are held
  jobs,         \* MappedLock.jobs: the queue of each key (absent: <<>>)
  destroyed,    \* MappedLock.destroyed
  pc,           \* what each client's promise is doing
  key           \* the key each client passed to lock()

vars == <<busy, jobs, destroyed, pc, key>>

-----------------------------------------------------------------------------
Init ==
  /\ busy = {}
  /\ jobs = [k \in Keys |-> <<>>]
  /\ destroyed = FALSE
  /\ pc = [c \in Clients |-> "out"]
  /\ key = [c \in Clients |-> NoKey]

Refuse(c) ==
  /\ pc[c] = "out"
  /\ destroyed
  /\ pc' = [pc EXCEPT ![c] = "refused"]
  /\ UNCHANGED <<busy, jobs, destroyed, key>>

(* lock(null): the caller gets a no-op unlocker.                           *)
RunUnlocked(c) ==
  /\ pc[c] = "out"
  /\ ~destroyed
  /\ pc' = [pc EXCEPT ![c] = "unlocked"]
  /\ UNCHANGED <<busy, jobs, destroyed, key>>

Queued(k, c) == Append(jobs[k], c)

Enqueue(c, k) ==
  /\ pc[c] = "out"
  /\ ~destroyed
  /\ k \in busy
  /\ jobs' = [jobs EXCEPT ![k] = Queued(k, c)]
  /\ pc' = [pc EXCEPT ![c] = "queued"]
  /\ key' = [key EXCEPT ![c] = k]
  /\ UNCHANGED <<busy, destroyed>>

Acquire(c, k) ==
  /\ pc[c] = "out"
  /\ ~destroyed
  /\ k \notin busy
  /\ busy' = busy \cup {k}
  /\ pc' = [pc EXCEPT ![c] = "holding"]
  /\ key' = [key EXCEPT ![c] = k]
  /\ UNCHANGED <<jobs, destroyed>>

\* Mutant: the key looks free while its next holder comes.
HandOverFree(k) ==
  /\ jobs' = [jobs EXCEPT ![k] = Tail(@)]
  /\ busy' = busy \ {k}

(* The key is given up, then taken again for the first job of its queue.   *)
HandOver(k) ==
  /\ ~destroyed
  /\ jobs' = [jobs EXCEPT ![k] = Tail(@)]
  /\ busy' = busy \cup {k}

(* unlocker(): without a waiting job the key is forgotten.                 *)
Unlock(c) ==
  /\ pc[c] = "holding"
  /\ destroyed \/ key[c] \in busy
  /\ IF jobs[key[c]] = <<>>
     THEN /\ busy' = busy \ {key[c]}
          /\ pc' = [pc EXCEPT ![c] = "out"]
          /\ UNCHANGED jobs
     ELSE /\ HandOver(key[c])
          /\ pc' = [pc EXCEPT ![c] = "out", ![Head(jobs[key[c]])] = "holding"]
  /\ key' = [key EXCEPT ![c] = NoKey]
  /\ UNCHANGED destroyed

Destroy ==
  /\ ~destroyed
  /\ destroyed' = TRUE
  /\ busy' = {}
  /\ jobs' = [k \in Keys |-> <<>>]
  /\ pc' = [c \in Clients |-> IF pc[c] = "queued" THEN "refused" ELSE pc[c]]
  /\ UNCHANGED key

(* A call that was refused, or that held nothing, ends.                    *)
Return(c) ==
  /\ pc[c] \in {"refused", "unlocked"}
  /\ pc' = [pc EXCEPT ![c] = "out"]
  /\ key' = [key EXCEPT ![c] = NoKey]
  /\ UNCHANGED <<busy, jobs, destroyed>>

Next ==
  \/ \E c \in Clients :
       \/ Refuse(c) \/ RunUnlocked(c) \/ Unlock(c) \/ Return(c)
       \/ \E k \in Keys : Enqueue(c, k) \/ Acquire(c, k)
  \/ Destroy

Spec == Init /\ [][Next]_vars

(* Every locked method ends: its body is a try whose finally unlocks.      *)
Fairness == \A c \in Clients : WF_vars(Unlock(c))

FairSpec == Spec /\ Fairness

-----------------------------------------------------------------------------
TypeOK ==
  /\ busy \subseteq Keys
  /\ jobs \in [Keys -> Seq(Clients)]
  /\ destroyed \in BOOLEAN
  /\ pc \in [Clients -> {"out", "queued", "holding", "refused", "unlocked"}]
  /\ key \in [Clients -> Keys \cup {NoKey}]

(* At most one call runs under each key, also once the lock was destroyed. *)
OneHolderPerKey ==
  \A c, d \in Clients :
    pc[c] = "holding" /\ pc[d] = "holding" /\ key[c] = key[d] => c = d

(* A key is marked busy exactly while somebody holds it, and only a busy   *)
(* key has a queue, which holds the calls that wait for it, each once:     *)
(* no queue is left behind with nobody to serve it.                        *)
QueuesAreServed ==
  /\ ~destroyed => busy = {k \in Keys : \E c \in Clients : pc[c] = "holding" /\ key[c] = k}
  /\ \A k \in Keys :
       /\ jobs[k] # <<>> => k \in busy
       /\ \A c \in Clients :
            pc[c] = "queued" /\ key[c] = k <=> \E i \in DOMAIN jobs[k] : jobs[k][i] = c
       /\ \A i, j \in DOMAIN jobs[k] : jobs[k][i] = jobs[k][j] => i = j

(* Every call that waits is eventually let in or refused, whatever the     *)
(* calls on the other keys do.                                             *)
CallsSettle ==
  \A c \in Clients : pc[c] = "queued" ~> pc[c] # "queued"

Holders(k) == {c \in Clients : pc[c] = "holding" /\ key[c] = k}

Line(k) ==
  (IF Holders(k) = {} THEN <<>> ELSE <<CHOOSE c \in Holders(k) : TRUE>>) \o jobs[k]

Mutex == INSTANCE FifoMutex WITH
           line <- [k \in Keys |-> Line(k)], closed <- destroyed

(* Every key is handed over strictly in the order of the calls that asked  *)
(* for it, and independently of the other keys.                            *)
ImplementsFifoMutex == Mutex!Spec
=============================================================================
