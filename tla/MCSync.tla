------------------------------- MODULE MCSync -------------------------------
(***************************************************************************)
(* What a node keeps up with the network by, one part to a behaviour, as   *)
(* these parts share nothing: kind says which.                             *)
(*   Pool        two hosts, both dialled, one block, one transaction, two  *)
(*               packets at a time, and a chain that may find itself synced*)
(*               with its first block.  That is enough for a loader to be  *)
(*               replaced, lost and found again, for a peer to leave while *)
(*               its packet is handled, for both peers to offer or to owe  *)
(*               the same block, and for stopSync to come between any two  *)
(*               of those steps.                                           *)
(*   Disturbed   the same pool with no transaction, but a host that may    *)
(*               connect to us as well, a chain that is reset once, compact*)
(*               blocks that close the pool and, if it starts synced, ones *)
(*               that come unasked (options.blockMode)                     *)
(*   HeaderSync  two checkpoints, three and two blocks apart, packets of   *)
(*               two headers and requests of two blocks, so that each takes*)
(*               more than one, and two disturbances                       *)
(*   HostList    four hosts and three buckets of one, so that one that     *)
(*               loses its used bucket finds its fresh one full, comes to  *)
(*               be in two fresh ones and is evicted from either; two of a *)
(*               bucket would take five hosts, which adds states only      *)
(***************************************************************************)
EXTENDS Network

CONSTANT Kinds           \* the parts that are explored

VARIABLE kind

poolVars == allVars
headerVars == <<tip, orphans, resetting, checkpoints, headers, headerFails, on, loader,
                loaderSyncing, own, resyncs, wire, wanted, adding, faults>>
hostVars == <<book, fresh, used, refs, isUsed, totalFresh, totalUsed>>

(* The bucket that a host is moved to once it has been connected to.       *)
MCUsedBucket == [h \in Hosts |-> IF h <= 2 THEN 1 ELSE 2]

(* Of the pool: what it does while nothing disturbs it, and what it does   *)
(* of which transactions are no part.                                      *)
Undisturbed ==
  /\ inbound' = {} /\ resets' = resets
  /\ \A k \in DOMAIN queue' : queue'[k].op # "close"
BlocksOnly == \A k \in DOMAIN queue' : queue'[k].items \subseteq Blocks

-----------------------------------------------------------------------------
(* A part that is not explored stays in one of its initial states.         *)
NetInit ==
  /\ kind \in Kinds
  /\ Init /\ Headers!Init /\ Addresses!Init
  /\ blockMode = 1 => kind = "Disturbed" /\ synced
  /\ kind \notin {"Pool", "Disturbed"} => ~synced

NetNext ==
  /\ \/ kind = "Pool" /\ Next /\ Undisturbed /\ UNCHANGED <<headerVars, hostVars>>
     \/ kind = "Disturbed" /\ Next /\ BlocksOnly /\ UNCHANGED <<headerVars, hostVars>>
     \/ kind = "HeaderSync" /\ Headers!Next /\ UNCHANGED <<poolVars, hostVars>>
     \/ kind = "HostList" /\ Addresses!Next /\ UNCHANGED <<poolVars, headerVars>>
  /\ UNCHANGED kind

(* In a part that is not explored no loader syncs, and none of the fair    *)
(* actions is enabled.                                                     *)
NetFairness == Fairness /\ Headers!Fairness

NetSpec ==
  /\ NetInit /\ [][NetNext]_<<poolVars, headerVars, hostVars, kind>>
  /\ NetFairness

=============================================================================
