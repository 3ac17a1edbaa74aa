------------------------------ MODULE CPUMiner ------------------------------
(***************************************************************************)
(* The CPU miner (src/lib/mining/cpuminer.js): a loop that creates a job,  *)
(* mines it and adds the block to the chain, and the calls and events that *)
(* come between its awaits: start, stop, a new tip, a new transaction.     *)
(***************************************************************************)
EXTENDS Naturals, Sequences

CONSTANTS
  Stops,       \* callers of stop()
  Faults       \* a subset of {"error", "tip"}: what may go wrong

VARIABLES
  running, stopping,
  loop,        \* where _start waits: "off", "creating", "mining" or "adding"
  job,         \* whether this.job is set: it is the job of the loop
  dead,        \* whether the loop's job was destroyed
  line,        \* the calls of stop() that hold or await the lock
  waiting      \* stopJob: whether the holder awaits the end of the loop

vars == <<running, stopping, loop, job, dead, line, waiting>>

Init ==
  /\ running = FALSE /\ stopping = FALSE
  /\ loop = "off" /\ job = FALSE /\ dead = FALSE
  /\ line = <<>> /\ waiting = FALSE

(* start(): asserts that the miner is not running.                         *)
Start ==
  /\ ~running
  /\ running' = TRUE /\ stopping' = FALSE
  /\ loop' = "creating" /\ job' = FALSE /\ dead' = FALSE
  /\ UNCHANGED <<line, waiting>>

(* The next round of the loop.                                             *)
Continue ==
  /\ loop' = "creating" /\ job' = FALSE /\ dead' = FALSE
  /\ UNCHANGED <<running, stopping, line, waiting>>

(* The loop ends and wakes the stop() that waits, which finishes at once.  *)
End ==
  /\ loop' = "off"
  /\ IF waiting
     THEN /\ waiting' = FALSE /\ line' = Tail(line)
          /\ running' = FALSE /\ stopping' = FALSE /\ job' = FALSE
          /\ UNCHANGED dead
     ELSE UNCHANGED <<running, stopping, job, dead, line, waiting>>

Go(where) ==
  /\ loop' = where
  /\ UNCHANGED <<running, stopping, job, dead, line, waiting>>

(* createJob returned, or failed.  The job it returned to a loop that is   *)
(* told to stop stays in place, unless a stop() waits, which clears it.    *)
Created ==
  /\ loop = "creating"
  /\ \/ stopping /\ End
     \/ /\ stopping /\ ~waiting /\ loop' = "off" /\ job' = TRUE /\ dead' = FALSE
        /\ UNCHANGED <<running, stopping, line, waiting>>
     \/ /\ ~stopping /\ loop' = "mining" /\ job' = TRUE /\ dead' = FALSE
        /\ UNCHANGED <<running, stopping, line, waiting>>

(* mineAsync returned: without a block because the job was destroyed, or   *)
(* with one, even if it was.                                               *)
Mined ==
  /\ loop = "mining"
  /\ \/ stopping /\ dead /\ End
     \/ ~stopping /\ dead /\ Continue
     \/ ~stopping /\ Go("adding")
     \/ stopping /\ End

(* chain.add returned: an entry, or null when the block was not connected, *)
(* for which the loop goes round before it looks whether it must stop.     *)
Added ==
  /\ loop = "adding"
  /\ \/ stopping /\ End
     \/ Continue

(* An error other than a VerifyError ends the loop; running stays.         *)
Error ==
  /\ "error" \in Faults /\ loop # "off"
  /\ End

-----------------------------------------------------------------------------
(* stop() takes the lock.  Its assertions fail in a call that finds the    *)
(* miner stopping, or the job destroyed; the latter leaves it stopping.    *)
StopCall ==
  /\ Len(line) < Stops
  /\ line' = Append(line, "stop")
  /\ UNCHANGED <<running, stopping, loop, job, dead, waiting>>

\* Mutant: the job goes on.
KeepJob == dead' = dead /\ job' = FALSE

DropJob ==
  /\ dead' = (dead \/ job)
  /\ job' = FALSE

Wait ==
  /\ stopping' = TRUE /\ waiting' = TRUE
  /\ DropJob
  /\ UNCHANGED <<running, loop, line>>

Stop ==
  /\ line # <<>> /\ ~waiting
  /\ \/ /\ ~running \/ stopping
        /\ line' = Tail(line)
        /\ UNCHANGED <<running, stopping, loop, job, dead, waiting>>
     \/ /\ running /\ ~stopping /\ job /\ dead
        /\ stopping' = TRUE /\ line' = Tail(line)
        /\ UNCHANGED <<running, loop, job, dead, waiting>>
     \/ running /\ ~stopping /\ ~(job /\ dead) /\ Wait

(* A new tip at the height that is being mined destroys the job, which     *)
(* stays in place; a second one fails the assertion of CPUJob.destroy.     *)
Tip ==
  /\ "tip" \in Faults /\ job /\ ~dead
  /\ dead' = TRUE
  /\ UNCHANGED <<running, stopping, loop, job, line, waiting>>

(* A new transaction replaces a job older than ten seconds.                *)
NotifyEntry ==
  /\ running /\ job /\ ~dead
  /\ DropJob
  /\ UNCHANGED <<running, stopping, loop, line, waiting>>

-----------------------------------------------------------------------------
Next ==
  \/ Start \/ Created \/ Mined \/ Added \/ Error
  \/ StopCall \/ Stop \/ Tip \/ NotifyEntry

(* The template, the nonces of one job and the chain come to an end; a     *)
(* block need not be found.                                                *)
Fairness ==
  /\ WF_vars(Created) /\ WF_vars(Mined /\ dead) /\ WF_vars(Added)
  /\ WF_vars(Stop)

Spec == Init /\ [][Next]_vars /\ Fairness

-----------------------------------------------------------------------------
TypeOK ==
  /\ {running, stopping, job, dead, waiting} \subseteq BOOLEAN
  /\ loop \in {"off", "creating", "mining", "adding"}
  /\ Len(line) <= Stops

(* While a loop is alive, start() is refused: there are never two.         *)
LoopIsRunning == loop # "off" => running

(* A stop() that waits for a loop that is alive returns, in whatever state *)
(* of its job the loop was found.                                          *)
StopReturns == waiting /\ loop # "off" ~> ~waiting

MinerStops == []LoopIsRunning /\ StopReturns
=============================================================================
