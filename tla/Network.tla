------------------------------- MODULE Network -------------------------------
(***************************************************************************)
(* What a node keeps up with the network by (src/lib/net): the pool of     *)
(* peers (Pool), the headers that come first (HeaderSync) and the address  *)
(* book (HostList).  The three share nothing that one of them relies on:   *)
(* of the loader HeaderSync has what the sync by headers sees of it.       *)
(***************************************************************************)
EXTENDS Pool

CONSTANTS
  Checkpoints, Height, PacketSize, MaxRequest, MaxFails, MaxFaults,
  Hosts, Buckets, UsedBucket, MaxEntries, MaxRefs

VARIABLES
  tip, orphans, resetting, checkpoints, headers, headerFails, on, loader,
  loaderSyncing, own, resyncs, wire, wanted, adding, faults,
  book, fresh, used, refs, isUsed, totalFresh, totalUsed

Headers == INSTANCE HeaderSync WITH
  syncing <- on, peerSyncing <- loaderSyncing, asked <- wanted

Addresses == INSTANCE HostList

(* The header chain is what the chain needs next, and only a disturbance   *)
(* makes the pool take a peer for a bad one (resetChain, handleHeaders and *)
(* resolveChain of pool.js).                                               *)
HeadersKept == Headers!HeadersKept

(* The sync by headers comes to its end.                                   *)
HeaderSyncEnds == Headers!HeaderSyncEnds

(* The address book, its buckets and its totals agree (hostlist.js).       *)
BookKept == Addresses!BookKept
=============================================================================
