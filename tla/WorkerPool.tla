----------------------------- MODULE WorkerPool -----------------------------
(***************************************************************************)
(* The pool of worker processes (src/lib/workers/workerpool.js): jobs are  *)
(* dealt round the slots, a slot without a worker spawns one, and a worker *)
(* may fail, or die and be heard of twice, at any moment.                  *)
(***************************************************************************)
EXTENDS Naturals, FiniteSets

CONSTANTS
  Jobs,        \* packets in use at one time: their ids do not repeat
  Size,        \* options.size
  Workers      \* worker objects in use at one time, a bound

VARIABLES
  nonce,       \* the next slot
  children,    \* [slots -> the worker in it, or None]
  proc,        \* [Workers -> "none", "up", "dead", "exited"]
  pending,     \* [Jobs -> the worker whose pending map has it, or None]
  asked,       \* [Jobs -> the worker whose process has it to do, or None]
  answers      \* [Jobs -> the worker whose answer is on its way, or None]

vars == <<nonce, children, proc, pending, asked, answers>>

None == "none"
Slots == 0..(Size - 1)

Init ==
  /\ nonce = 0
  /\ children = [i \in Slots |-> None]
  /\ proc = [w \in Workers |-> "none"]
  /\ pending = [j \in Jobs |-> None]
  /\ asked = [j \in Jobs |-> None]
  /\ answers = [j \in Jobs |-> None]

Without(f, w) == [j \in Jobs |-> IF f[j] = w THEN None ELSE f[j]]

(* A worker object nothing refers to any more.                             *)
Unused(w) ==
  /\ proc[w] = "none"
  /\ \A i \in Slots : children[i] # w
  /\ \A j \in Jobs : w \notin {pending[j], asked[j], answers[j]}

(* execute: alloc takes the next slot and spawns its worker if there is    *)
(* none; the packet goes to the process, dead or alive.                    *)
Execute(j) ==
  /\ {pending[j], asked[j], answers[j]} = {None}
  /\ \E w \in Workers :
       /\ IF children[nonce] # None
          THEN w = children[nonce] /\ UNCHANGED <<children, proc>>
          ELSE /\ Unused(w)
               /\ children' = [children EXCEPT ![nonce] = w]
               /\ proc' = [proc EXCEPT ![w] = "up"]
       /\ pending' = [pending EXCEPT ![j] = w]
       /\ asked' = [asked EXCEPT ![j] = IF proc'[w] = "up" THEN w ELSE None]
  /\ nonce' = (nonce + 1) % Size
  /\ UNCHANGED answers

(* The process has done the job and written the answer.                    *)
Answer(j) ==
  /\ asked[j] # None
  /\ answers' = [answers EXCEPT ![j] = asked[j]]
  /\ asked' = [asked EXCEPT ![j] = None]
  /\ UNCHANGED <<nonce, children, proc, pending>>

KillJobs(w) == pending' = Without(pending, w)

(* A packet: resolveJob or rejectJob.  The answer to a job that was killed *)
(* throws, which is an error of the worker and kills its other jobs.       *)
Packet(j) ==
  /\ answers[j] # None
  /\ answers' = [answers EXCEPT ![j] = None]
  /\ IF pending[j] = answers[j] THEN pending' = [pending EXCEPT ![j] = None]
     ELSE KillJobs(answers[j])
  /\ UNCHANGED <<nonce, children, proc, asked>>

(* An error of the worker or its pipes; it stays in its slot.              *)
Error(w) ==
  /\ proc[w] \in {"up", "dead"}
  /\ KillJobs(w)
  /\ UNCHANGED <<nonce, children, proc, asked, answers>>

(* The process dies, or destroy() kills it.                                *)
Die(w) ==
  /\ proc[w] = "up"
  /\ proc' = [proc EXCEPT ![w] = "dead"]
  /\ asked' = Without(asked, w)
  /\ UNCHANGED <<nonce, children, pending, answers>>

(* The 'exit' of a worker: its jobs are rejected, and its slot is empty    *)
(* unless somebody else is in it by now.                                   *)
Gone(w) ==
  /\ KillJobs(w)
  /\ children' = [i \in Slots |-> IF children[i] = w THEN None ELSE children[i]]

(* The process's exit emits it; answers may still be in the pipe.          *)
Exit(w) ==
  /\ proc[w] = "dead"
  /\ proc' = [proc EXCEPT ![w] = "exited"]
  /\ Gone(w)
  /\ UNCHANGED <<nonce, asked, answers>>

(* The end of its pipes emits it again.                                    *)
Close(w) ==
  /\ proc[w] = "exited"
  /\ \A j \in Jobs : answers[j] # w
  /\ proc' = [proc EXCEPT ![w] = "none"]
  /\ Gone(w)
  /\ UNCHANGED <<nonce, asked, answers>>

-----------------------------------------------------------------------------
Next ==
  \/ \E j \in Jobs : Execute(j) \/ Answer(j) \/ Packet(j)
  \/ \E w \in Workers : Error(w) \/ Die(w) \/ Exit(w) \/ Close(w)

(* Every job a live process has is done in the end, what was written is    *)
(* read, and a death is heard of.                                          *)
Fairness ==
  /\ \A j \in Jobs : WF_vars(Answer(j)) /\ WF_vars(Packet(j))
  /\ \A w \in Workers : WF_vars(Exit(w)) /\ WF_vars(Close(w))

Spec == Init /\ [][Next]_vars /\ Fairness

-----------------------------------------------------------------------------
TypeOK ==
  /\ nonce \in Slots
  /\ children \in [Slots -> Workers \cup {None}]
  /\ proc \in [Workers -> {"none", "up", "dead", "exited"}]
  /\ {pending, asked, answers} \subseteq [Jobs -> Workers \cup {None}]

(* The pool's processes are the ones in its slots: never more than its     *)
(* size, and none that destroy() would not reach.                          *)
ProcessesHaveSlots ==
  \A w \in Workers : proc[w] = "up" => \E i \in Slots : children[i] = w

(* Every job ends: it is answered, or rejected when its worker fails.      *)
JobsEnd == \A j \in Jobs : pending[j] # None ~> pending[j] = None

WorkersServe == []ProcessesHaveSlots /\ JobsEnd
=============================================================================
