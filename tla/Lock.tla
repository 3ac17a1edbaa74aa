-------------------------------- MODULE Lock --------------------------------
(***************************************************************************)
(* The Lock of lib/utils/lock.js: a promise-based mutex with a FIFO queue  *)
(* of jobs and, when it is "named", a count of queued jobs per name.  The  *)
(* chain, the pool and the mempool all serialise their work through one:   *)
(* the mempool shares the chain's (mempool.js: this.locker =               *)
(* chain.locker).                                                          *)
(*                                                                         *)
(* A client is one asynchronous call of a locked method.  pc says what its *)
(* promise is doing:                                                       *)
(*   "out"      the method is not running                                  *)
(*   "queued"   lock() returned a promise that is still pending            *)
(*   "holding"  the promise gave the unlocker; the method body runs        *)
(*   "refused"  the promise was rejected; the method ends with an error    *)
(* An unnamed lock is the case Names = {}.                                 *)
(***************************************************************************)
EXTENDS Naturals, Sequences, FiniteSets

CONSTANTS
  Clients,      \* calls that take the lock
  Names,        \* job names (block and transaction hashes)
  NoName        \* the name of an unnamed job (null)

ASSUME NoNameAssumption == NoName \notin Names

VARIABLES
  busy,         \* Lock.busy
  current,      \* Lock.current: name of the job that holds the lock
  jobs,         \* Lock.jobs
  map,          \* Lock.map: queued jobs per name
  destroyed,    \* Lock.destroyed
  pc,           \* what each client's promise is doing
  name          \* the name each client passed to lock()

lockVars == <<busy, current, jobs, map, destroyed>>
vars == <<busy, current, jobs, map, destroyed, pc, name>>

JobNames == Names \cup {NoName}

Job(c, n) == [client |-> c, name |-> n]

Has(n) == current = n \/ map[n] > 0

HasPending(n) == map[n] > 0

-----------------------------------------------------------------------------
Init ==
  /\ busy = FALSE
  /\ current = NoName
  /\ jobs = <<>>
  /\ map = [n \in Names |-> 0]
  /\ destroyed = FALSE
  /\ pc = [c \in Clients |-> "out"]
  /\ name = [c \in Clients |-> NoName]

(* lock() on a lock that was destroyed.                                    *)
Refuse(c) ==
  /\ pc[c] = "out"
  /\ destroyed
  /\ pc' = [pc EXCEPT ![c] = "refused"]
  /\ UNCHANGED <<lockVars, name>>

\* Mutant: the last to come is served first.
QueuedFirst(j) == <<j>> \o jobs

Queued(j) == Append(jobs, j)

(* lock() while another call holds it: count the name, queue a job.        *)
Enqueue(c, n) ==
  /\ pc[c] = "out"
  /\ ~destroyed
  /\ busy
  /\ map' = [m \in Names |-> IF m = n THEN map[m] + 1 ELSE map[m]]
  /\ jobs' = Queued(Job(c, n))
  /\ pc' = [pc EXCEPT ![c] = "queued"]
  /\ name' = [name EXCEPT ![c] = n]
  /\ UNCHANGED <<busy, current, destroyed>>

(* lock() on a free lock.                                                  *)
Acquire(c, n) ==
  /\ pc[c] = "out"
  /\ ~destroyed
  /\ ~busy
  /\ busy' = TRUE
  /\ current' = n
  /\ pc' = [pc EXCEPT ![c] = "holding"]
  /\ name' = [name EXCEPT ![c] = n]
  /\ UNCHANGED <<jobs, map, destroyed>>

\* Mutants of HandOver: the lock looks free; the job is not shifted; the
\* name is forgotten though other jobs have it.
HandOverFree ==
  /\ map' = [m \in Names |-> IF m = Head(jobs).name THEN map[m] - 1 ELSE map[m]]
  /\ jobs' = Tail(jobs) /\ busy' = FALSE /\ current' = Head(jobs).name
HandOverTwice ==
  /\ map' = [m \in Names |-> IF m = Head(jobs).name THEN map[m] - 1 ELSE map[m]]
  /\ jobs' = jobs /\ busy' = TRUE /\ current' = Head(jobs).name
HandOverForgetting ==
  /\ map' = [m \in Names |-> IF m = Head(jobs).name THEN 0 ELSE map[m]]
  /\ jobs' = Tail(jobs) /\ busy' = TRUE /\ current' = Head(jobs).name

(* The state unlock() leaves behind when a job waits, and when none does.  *)
HandOver ==
  /\ ~destroyed
  /\ map' = [m \in Names |->
               IF m = Head(jobs).name THEN map[m] - 1 ELSE map[m]]
  /\ jobs' = Tail(jobs)
  /\ busy' = TRUE
  /\ current' = Head(jobs).name

Free ==
  /\ busy' = FALSE
  /\ current' = NoName
  /\ UNCHANGED <<jobs, map>>

(* The unlocker, called once by the finally clause of the method.          *)
Unlock(c) ==
  /\ pc[c] = "holding"
  /\ destroyed \/ busy
  /\ IF jobs = <<>>
     THEN /\ Free
          /\ pc' = [pc EXCEPT ![c] = "out"]
     ELSE /\ HandOver
          /\ pc' = [pc EXCEPT ![c] = "out", ![Head(jobs).client] = "holding"]
  /\ name' = [name EXCEPT ![c] = NoName]
  /\ UNCHANGED destroyed

(* destroy(): every queued job is rejected; the holder, if there is one,   *)
(* goes on running.                                                        *)
Destroy ==
  /\ ~destroyed
  /\ destroyed' = TRUE
  /\ busy' = FALSE
  /\ jobs' = <<>>
  /\ map' = [n \in Names |-> 0]
  /\ current' = NoName
  /\ pc' = [c \in Clients |-> IF pc[c] = "queued" THEN "refused" ELSE pc[c]]
  /\ UNCHANGED name

(* The method whose promise was rejected gives its caller the error.       *)
Return(c) ==
  /\ pc[c] = "refused"
  /\ pc' = [pc EXCEPT ![c] = "out"]
  /\ name' = [name EXCEPT ![c] = NoName]
  /\ UNCHANGED lockVars

Next ==
  \/ \E c \in Clients :
       \/ Refuse(c) \/ Unlock(c) \/ Return(c)
       \/ \E n \in JobNames : Enqueue(c, n) \/ Acquire(c, n)
  \/ Destroy

Spec == Init /\ [][Next]_vars

(* Every locked method ends: its body is a try whose finally unlocks.      *)
Fairness == \A c \in Clients : WF_vars(Unlock(c))

FairSpec == Spec /\ Fairness

-----------------------------------------------------------------------------
TypeOK ==
  /\ busy \in BOOLEAN
  /\ current \in JobNames
  /\ jobs \in Seq([client : Clients, name : JobNames])
  /\ map \in [Names -> Nat]
  /\ destroyed \in BOOLEAN
  /\ pc \in [Clients -> {"out", "queued", "holding", "refused"}]
  /\ name \in [Clients -> JobNames]

(* At most one call runs under the lock, even while the lock is being      *)
(* destroyed under the one that holds it.                                  *)
MutualExclusion ==
  \A c, d \in Clients : pc[c] = "holding" /\ pc[d] = "holding" => c = d

(* A call that waits has exactly one job in the queue, and a job belongs   *)
(* to a call that waits: unlock() can neither wake a call twice nor leave  *)
(* one behind.                                                             *)
JobsAreTheWaiting ==
  /\ \A c \in Clients : pc[c] = "queued" <=> \E i \in DOMAIN jobs : jobs[i] = Job(c, name[c])
  /\ \A i, j \in DOMAIN jobs : jobs[i].client = jobs[j].client => i = j

(* has(hash) and hasPending(hash), which the chain uses to recognise a     *)
(* block it is already processing, answer for exactly the calls that hold  *)
(* or await the lock under that name.                                      *)
NamesAreExact ==
  ~destroyed =>
    \A n \in Names :
      /\ Has(n) <=> \E c \in Clients : name[c] = n /\ pc[c] \in {"queued", "holding"}
      /\ HasPending(n) <=> \E c \in Clients : name[c] = n /\ pc[c] = "queued"

(* The lock's books agree with the calls they are about: queue and counts. *)
BooksAgree == TypeOK /\ JobsAreTheWaiting /\ NamesAreExact

(* The asserts of unlock(): the holder finds the lock busy or destroyed,   *)
(* and jobs are only ever queued on a lock that is busy.                   *)
UnlockAssertions ==
  /\ (\E c \in Clients : pc[c] = "holding") => destroyed \/ busy
  /\ jobs # <<>> => busy /\ ~destroyed
  /\ \A i \in DOMAIN jobs : jobs[i].name # NoName => map[jobs[i].name] > 0

(* Every call that waits is eventually let in or refused.                  *)
CallsSettle ==
  \A c \in Clients : pc[c] = "queued" ~> pc[c] # "queued"

(* The holder, then the jobs in order: the line of the abstract mutex.     *)
Holders == {c \in Clients : pc[c] = "holding"}

Line ==
  (IF Holders = {} THEN <<>> ELSE <<CHOOSE c \in Holders : TRUE>>)
    \o [i \in DOMAIN jobs |-> jobs[i].client]

Mutex == INSTANCE FifoMutex WITH
           Keys <- {"lock"}, line <- [k \in {"lock"} |-> Line], closed <- destroyed

(* The lock hands itself over strictly in the order of the calls to        *)
(* lock(), and to nobody once it is destroyed.                             *)
ImplementsFifoMutex == Mutex!Spec
=============================================================================
