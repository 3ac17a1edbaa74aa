----------------------------- MODULE FifoMutex -----------------------------
(***************************************************************************)
(* What lib/utils/lock.js promises the methods that take its locks: for    *)
(* every key there is one line of calls, the call at its head owns the     *)
(* key, ownership passes strictly in order of arrival, and once the lock   *)
(* is destroyed nobody else is ever let in.                                *)
(*                                                                         *)
(* The module is the abstract side of two refinements: Lock (one key) and  *)
(* MappedLock (one line per key).                                          *)
(***************************************************************************)
EXTENDS Naturals, Sequences

CONSTANTS
  Clients,      \* calls that compete for the lock
  Keys          \* what they compete for

VARIABLES
  line,         \* line[k]: the calls that own or await key k, in order
  closed        \* no call may join a line any more

mutexVars == <<line, closed>>

InLine(c, k) == \E i \in 1..Len(line[k]) : line[k][i] = c

Owns(c, k) == line[k] # <<>> /\ Head(line[k]) = c

Init ==
  /\ line = [k \in Keys |-> <<>>]
  /\ closed = FALSE

(* A call joins the end of the line.                                       *)
Join(c, k) ==
  /\ ~closed
  /\ \A l \in Keys : ~InLine(c, l)
  /\ line' = [line EXCEPT ![k] = Append(@, c)]
  /\ UNCHANGED closed

(* The owner leaves; the next call in line owns the key.                   *)
Leave(c, k) ==
  /\ Owns(c, k)
  /\ line' = [line EXCEPT ![k] = Tail(@)]
  /\ UNCHANGED closed

(* The lock is destroyed: owners stay until they leave, everyone behind    *)
(* them is turned away.                                                    *)
Close ==
  /\ ~closed
  /\ closed' = TRUE
  /\ line' = [k \in Keys |-> SubSeq(line[k], 1, IF line[k] = <<>> THEN 0 ELSE 1)]

Next ==
  \/ \E c \in Clients, k \in Keys : Join(c, k) \/ Leave(c, k)
  \/ Close

Spec == Init /\ [][Next]_mutexVars
=============================================================================
