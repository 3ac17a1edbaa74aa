----------------------------- MODULE MCServices -----------------------------
(***************************************************************************)
(* The parts that hand out work or exclusive access, one to a behaviour,   *)
(* since they share nothing: kind says which.                              *)
(*   Lock, MappedLock  four calls and two names or keys: a holder, a queue *)
(*                     of three in which names repeat, calls without name  *)
(*   WalletCalls       one caller for the node's transactions, one that    *)
(*                     spends and one that opens and closes the master key *)
(*   CPUMiner          two calls of stop(), errors and new tips            *)
(*   WorkerPool        two slots, two jobs at a time, a third worker to    *)
(*                     replace one that dies                               *)
(***************************************************************************)
EXTENDS Lock

CONSTANTS
  Kinds,        \* the parts that are explored
  Apart         \* of WalletCalls: operations that are not called together

VARIABLES
  kind,
  mbusy, mjobs, mdestroyed, mpc, mkey,
  call, line, gone, batch, master,
  running, stopping, loop, job, dead, stops, waiting,
  nonce, children, proc, pending, asked, answers

mappedVars == <<mbusy, mjobs, mdestroyed, mpc, mkey>>
walletVars == <<call, line, gone, batch, master>>
minerVars == <<running, stopping, loop, job, dead, stops, waiting>>
workerVars == <<nonce, children, proc, pending, asked, answers>>

Mapped == INSTANCE MappedLock WITH
  Keys <- Names, NoKey <- NoName,
  busy <- mbusy, jobs <- mjobs, destroyed <- mdestroyed, pc <- mpc, key <- mkey

WalletOps ==
  [node |-> {"block"},
   payer |-> {"send", "createAccount", "unlock"},
   keeper |-> {"lock", "encrypt", "decrypt", "destroy", "unlock", "setLookahead"}]

Wallet == INSTANCE WalletCalls WITH
  Calls <- DOMAIN WalletOps, Ops <- WalletOps, Timeouts <- {"soon", "never"}

Miner == INSTANCE CPUMiner WITH Stops <- 2, Faults <- {"error", "tip"}, line <- stops

WorkerProcesses == INSTANCE WorkerPool WITH Jobs <- 1..2, Size <- 2, Workers <- {"w1", "w2", "w3"}

-----------------------------------------------------------------------------
ServicesInit ==
  /\ kind \in Kinds
  /\ Init /\ Mapped!Init /\ Wallet!Init /\ Miner!Init /\ WorkerProcesses!Init

ServicesNext ==
  /\ \/ /\ kind = "Lock" /\ Next
        /\ UNCHANGED <<mappedVars, walletVars, minerVars, workerVars>>
     \/ /\ kind = "MappedLock" /\ Mapped!Next
        /\ UNCHANGED <<vars, walletVars, minerVars, workerVars>>
     \/ /\ kind = "WalletCalls" /\ Wallet!Next
        /\ UNCHANGED <<vars, mappedVars, minerVars, workerVars>>
     \/ /\ kind = "CPUMiner" /\ Miner!Next
        /\ UNCHANGED <<vars, mappedVars, walletVars, workerVars>>
     \/ /\ kind = "WorkerPool" /\ WorkerProcesses!Next
        /\ UNCHANGED <<vars, mappedVars, walletVars, minerVars>>
  /\ UNCHANGED kind

(* None of these is enabled in a part that is not being explored: it       *)
(* stays in its initial state, where nobody has called it.                 *)
ServicesFairness ==
  /\ Fairness /\ Mapped!Fairness /\ Wallet!Fairness
  /\ Miner!Fairness /\ WorkerProcesses!Fairness

ServicesSpec ==
  /\ ServicesInit
  /\ [][ServicesNext]_<<vars, mappedVars, walletVars, minerVars, workerVars, kind>>
  /\ ServicesFairness

-----------------------------------------------------------------------------
(* A MappedLock serves each key strictly in the order of the calls (as     *)
(* ImplementsFifoMutex of module Lock says of a Lock), has at most one     *)
(* holder of it, and leaves no queue behind without a holder to serve it.  *)
MappedLockServes ==
  /\ Mapped!ImplementsFifoMutex
  /\ [](Mapped!TypeOK /\ Mapped!OneHolderPerKey /\ Mapped!QueuesAreServed)

(* The wallet's key in memory has a timer that will destroy it, unless an  *)
(* unlock asked for none or the wallet was destroyed under it; no call     *)
(* finds a batch open that is not setLookahead's, or misses the key it has *)
(* just unlocked.  This holds under any interleaving of the calls but for  *)
(* send with lock or destroy, which Apart keeps from being called together *)
(* (they wait for each other: LockReturns).  The miner and the worker pool *)
(* keep their types.                                                       *)
CallAssertionsHold ==
  /\ Wallet!TypeOK /\ Wallet!KeyHasDeadline /\ Wallet!AssertionsHold
  /\ Miner!TypeOK /\ WorkerProcesses!TypeOK

(* Every call that waits for either lock is eventually let in or refused,  *)
(* and the wallet's calls never wait for one another in a circle, as long  *)
(* as those that Apart names are kept apart.  The miner never runs two     *)
(* loops, and a stop() that waits for one returns.  Every worker process   *)
(* is in a slot, where destroy() reaches it, and every job is answered or  *)
(* rejected.                                                               *)
CallsEnd ==
  /\ CallsSettle /\ Mapped!CallsSettle /\ Wallet!CallsEnd
  /\ Miner!MinerStops /\ WorkerProcesses!WorkersServe

(* lock() returns: without Apart it does not.                              *)
LockReturns == Wallet!LockReturns
=============================================================================
