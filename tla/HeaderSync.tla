----------------------------- MODULE HeaderSync -----------------------------
(***************************************************************************)
(* Headers-first synchronisation up to the last checkpoint (resetChain,    *)
(* handleHeaders, resolveChain, switchSync of src/lib/net/pool.js): the    *)
(* loader is asked for headers up to the next checkpoint, then for the     *)
(* blocks they announce, and each block that connects must be the next of  *)
(* the header chain.  The chain (blockchain/chain.js) is its height, since *)
(* a loader that is not punished serves the one chain the checkpoints are  *)
(* of; what else may come from it is BadHeaders.  Pool has the peers that  *)
(* are not the loader, timers, and what follows once checkpoints is off.   *)
(***************************************************************************)
EXTENDS SequencesExt, FiniteSetsExt, Integers

CONSTANTS
  Checkpoints,     \* heights: network.checkpoints
  Height,          \* of the chain the peers serve
  PacketSize,      \* headers in a packet (2000)
  MaxRequest,      \* blocks in a getdata of resolveHeaders (50000)
  MaxFails,        \* Pool.MAX_HEADER_FAILS
  MaxFaults        \* bound: losses of a loader, restarts, resets, bad headers

VARIABLES
  tip, orphans,    \* the chain's height, and the blocks above that wait
  resetting,       \* chain.reset has moved the tip, 'reset' is not emitted yet
  checkpoints,     \* whether headers come first
  headers,         \* headerChain, headerNext (0: none) and headerTip
  headerFails,
  syncing,
  loader,          \* whether a loader has shaken hands
  peerSyncing,     \* its flag syncing
  own, resyncs,    \* calls that await a locator: its sendSync, and resync
  wire,            \* what the loader was asked and has not answered
  asked,           \* its blockMap, and the pool's
  adding,          \* the block whose handler holds the lock
  faults

chainVars == <<tip, orphans, resetting>>
headerVars == <<checkpoints, headers>>
peerVars == <<loader, peerSyncing, own, wire, asked>>
vars == <<chainVars, headerVars, peerVars, headerFails, syncing, resyncs, adding, faults>>

None == [block |-> 0, mine |-> FALSE]
LastCheckpoint == Max(Checkpoints)

(* getNextTip                                                              *)
NextTip(h) == Min({c \in Checkpoints : c > h})

NoHeaders == [first |-> 0, last |-> 0, next |-> 0, tip |-> 0]
Anchored(h) == [first |-> h, last |-> h, next |-> 0, tip |-> NextTip(h)]

Init ==
  /\ tip = 0 /\ orphans = {} /\ resetting = FALSE
  /\ checkpoints = TRUE /\ headers = Anchored(0) /\ headerFails = 0
  /\ syncing = FALSE /\ loader = FALSE /\ peerSyncing = FALSE
  /\ own = FALSE /\ resyncs = {} /\ wire = <<>> /\ asked = {}
  /\ adding = None /\ faults = 0

Fault == faults < MaxFaults /\ faults' = faults + 1

-----------------------------------------------------------------------------
(* resetChain: the header chain begins again at the tip h.                 *)
ResetChain(h) ==
  /\ checkpoints' = (h < LastCheckpoint)
  /\ headers' = IF h < LastCheckpoint THEN Anchored(h) ELSE NoHeaders

(* switchSync: from here on inv packets tell of blocks.                    *)
SwitchSync ==
  /\ checkpoints' = FALSE /\ headers' = NoHeaders
  /\ UNCHANGED peerVars

\* Mutant: the headers of a lost loader are kept for the next one.
LeaveHeaders(h) ==
  /\ loader' = FALSE /\ peerSyncing' = FALSE /\ own' = FALSE
  /\ wire' = <<>> /\ asked' = {}
  /\ UNCHANGED headerVars

(* The loader is destroyed: handleClose.                                   *)
Leave(h) ==
  /\ loader' = FALSE /\ peerSyncing' = FALSE /\ own' = FALSE
  /\ wire' = <<>> /\ asked' = {}
  /\ ResetChain(h)

(* A header that does not follow, or not the checkpoint's.                 *)
BadHeader ==
  /\ headerFails' = headerFails + 1
  /\ IF headerFails + 1 < MaxFails THEN Leave(tip) ELSE SwitchSync

GetHeaders(w, from, stop) == Append(w, [op |-> "headers", from |-> from, stop |-> stop])

Asks(heights) ==
  [i \in 1..Cardinality(heights) |->
     [op |-> "block", from |-> SetToSortSeq(heights, <)[i], stop |-> 0]]

(* resolveHeaders and getBlock: the blocks of the next headers are asked   *)
(* for, as many as fit into a request.                                     *)
ResolveHeaders(h, w) ==
  LET to == Min({h.last, h.next + MaxRequest - 1})
      new == {b \in h.next..to : h.next # 0} \ asked
  IN  /\ headers' = [h EXCEPT !.next = IF @ = 0 \/ to = h.last THEN 0 ELSE to + 1]
      /\ asked' = asked \cup new /\ wire' = w \o Asks(new)

-----------------------------------------------------------------------------
\* Mutant: the loader counts as syncing before it was asked, and never is.
NewLoaderMarked ==
  /\ ~loader /\ loader' = TRUE /\ peerSyncing' = syncing
  /\ UNCHANGED <<chainVars, headerVars, own, wire, asked, headerFails, syncing, resyncs, adding, faults>>

(* A peer becomes the loader: sendSync.                                    *)
NewLoader ==
  /\ ~loader /\ loader' = TRUE
  /\ own' = syncing /\ peerSyncing' = syncing
  /\ UNCHANGED <<chainVars, headerVars, wire, asked, headerFails, syncing, resyncs, adding, faults>>

StartSync ==
  /\ ~syncing /\ syncing' = TRUE
  /\ resyncs' = IF checkpoints THEN resyncs \cup {"others"} ELSE resyncs
  /\ UNCHANGED <<chainVars, headerVars, peerVars, headerFails, adding, faults>>

(* As in Pool, not while a loader that does not sync owes a block.         *)
StopSync ==
  /\ syncing /\ syncing' = FALSE /\ (peerSyncing \/ asked = {})
  /\ peerSyncing' = FALSE /\ asked' = {}
  /\ IF checkpoints THEN Fault ELSE UNCHANGED faults
  /\ UNCHANGED <<chainVars, headerVars, loader, own, wire, headerFails, resyncs, adding>>

(* Locators are made under the chain's lock.                               *)
ChainFree == ~resetting /\ adding = None

Sends ==
  /\ peerSyncing' = TRUE
  /\ wire' = GetHeaders(wire, tip, headers.tip)

SendSync ==
  /\ own /\ ChainFree /\ own' = FALSE
  /\ IF syncing THEN Sends ELSE UNCHANGED <<peerSyncing, wire>>
  /\ UNCHANGED <<chainVars, headerVars, loader, asked, headerFails, syncing, resyncs, adding, faults>>

(* resync: to a peer that syncs already only if it is forced.              *)
Resync ==
  /\ ChainFree
  /\ \E r \in resyncs :
       /\ resyncs' = resyncs \ {r}
       /\ IF loader /\ syncing /\ (r = "forced" \/ ~peerSyncing)
          THEN Sends ELSE UNCHANGED <<peerSyncing, wire>>
  /\ UNCHANGED <<chainVars, headerVars, loader, own, asked, headerFails, syncing, adding, faults>>

-----------------------------------------------------------------------------
(* Chain.reset, and the pool that hears of it.                             *)
Reset ==
  /\ ChainFree /\ "forced" \notin resyncs /\ Fault
  /\ \E h \in 0..(tip - 1) : tip' = h
  /\ resetting' = TRUE
  /\ UNCHANGED <<orphans, headerVars, peerVars, headerFails, syncing, resyncs, adding>>

ResetEvent ==
  /\ resetting /\ resetting' = FALSE /\ orphans' = {}
  /\ ResetChain(tip)
  /\ resyncs' = IF syncing THEN resyncs \cup {"forced"} ELSE resyncs
  /\ UNCHANGED <<tip, peerVars, headerFails, syncing, adding, faults>>

-----------------------------------------------------------------------------
(* The loader answers in order, and the pool's lock lets in one packet     *)
(* after the other.                                                        *)
Answered(op) == wire # <<>> /\ adding = None /\ Head(wire).op = op

HandleHeaders ==
  /\ Answered("headers")
  /\ LET from == Head(wire).from
         stop == Head(wire).stop
         to == Min({Height, from + PacketSize} \cup (IF stop > from THEN {stop} ELSE {}))
         h == [headers EXCEPT !.last = to, !.next = IF @ = 0 THEN from + 1 ELSE @]
     IN  \/ /\ ~syncing \/ to = from
            /\ wire' = Tail(wire)
            /\ UNCHANGED <<headerVars, loader, peerSyncing, own, asked, headerFails, adding>>
         \/ /\ syncing /\ to > from /\ from # headers.last /\ BadHeader /\ UNCHANGED adding
         \/ /\ syncing /\ to > from /\ from = headers.last
            /\ IF from < headers.tip /\ headers.tip <= to
               THEN ResolveHeaders([h EXCEPT !.first = @ + 1], Tail(wire))
               ELSE /\ headers' = h /\ wire' = GetHeaders(Tail(wire), to, headers.tip)
                    /\ UNCHANGED asked
            /\ UNCHANGED <<checkpoints, loader, peerSyncing, own, headerFails, adding>>
  /\ UNCHANGED <<chainVars, syncing, resyncs, faults>>

BadHeaders ==
  /\ loader /\ syncing /\ adding = None /\ Fault /\ BadHeader
  /\ UNCHANGED <<chainVars, syncing, resyncs, adding>>

(* _addBlock: a block nobody asked for is punished.                        *)
TakeBlock ==
  /\ Answered("block")
  /\ LET b == Head(wire).from
     IN  \/ /\ ~syncing /\ wire' = Tail(wire)
            /\ UNCHANGED <<headerVars, loader, peerSyncing, own, asked, adding>>
         \/ syncing /\ b \notin asked /\ Leave(tip) /\ UNCHANGED adding
         \/ /\ syncing /\ b \in asked
            /\ asked' = asked \ {b} /\ wire' = Tail(wire)
            /\ adding' = [block |-> b, mine |-> TRUE]
            /\ UNCHANGED <<headerVars, loader, peerSyncing, own>>
  /\ UNCHANGED <<chainVars, headerFails, syncing, resyncs, faults>>

(* resolveChain: the block must be the first of the header chain.  At a    *)
(* checkpoint the next headers are asked for, at the last one the sync     *)
(* goes on without them.                                                   *)
ResolveChain(b, h) ==
  LET next == NextTip(b)
  IN  \/ b # headers.first /\ Leave(h)
      \/ b = headers.first /\ b >= LastCheckpoint /\ SwitchSync
      \/ /\ b = headers.first /\ b < LastCheckpoint
         /\ IF b = headers.tip
            THEN /\ headers' = [headers EXCEPT !.tip = next]
                 /\ wire' = GetHeaders(wire, b, next)
                 /\ UNCHANGED asked
            ELSE ResolveHeaders([headers EXCEPT !.first = @ + 1], wire)
         /\ UNCHANGED <<checkpoints, loader, peerSyncing, own>>

(* chain.add: a block the chain has is rejected, one above the next waits  *)
(* as an orphan, and the next one connects with the orphans it was missing.*)
(* What is left of the handler needs no I/O.                               *)
AddBlock ==
  /\ adding # None /\ ~resetting /\ adding' = None
  /\ LET b == adding.block
         upTo == Max({h \in b..Height : \A k \in (b + 1)..h : k \in orphans})
     IN  IF b = tip + 1
         THEN /\ tip' = upTo /\ orphans' = orphans \ (b..upTo)
              /\ IF adding.mine THEN ResolveChain(b, upTo) ELSE UNCHANGED <<headerVars, peerVars>>
         ELSE /\ orphans' = IF b > tip THEN orphans \cup {b} ELSE orphans
              /\ UNCHANGED <<tip, headerVars, peerVars>>
  /\ UNCHANGED <<resetting, headerFails, syncing, resyncs, faults>>

(* The socket closes, at any moment.                                       *)
Close ==
  /\ loader /\ Fault /\ Leave(tip)
  /\ adding' = [adding EXCEPT !.mine = FALSE]
  /\ UNCHANGED <<chainVars, headerFails, syncing, resyncs>>

(* maybeTimeout: a loader that has nothing left to answer sends no block.  *)
Stall ==
  /\ loader /\ peerSyncing /\ ~own /\ wire = <<>> /\ adding = None /\ Leave(tip)
  /\ UNCHANGED <<chainVars, headerFails, syncing, resyncs, adding, faults>>

-----------------------------------------------------------------------------
(* What calls, answers and timers do, and another peer once one is lost.   *)
Progress ==
  \/ NewLoader \/ SendSync \/ Resync \/ ResetEvent
  \/ HandleHeaders \/ TakeBlock \/ AddBlock \/ Stall

Next ==
  \/ checkpoints /\ (Progress \/ Reset \/ BadHeaders \/ Close)
  \/ StartSync \/ StopSync

(* While the pool syncs, something of that happens.                        *)
Fairness == WF_vars(syncing /\ checkpoints /\ Progress)

Spec == Init /\ [][Next]_vars /\ Fairness

-----------------------------------------------------------------------------
TypeOK ==
  /\ tip \in 0..Height /\ orphans \subseteq 1..Height
  /\ {checkpoints, syncing, loader, peerSyncing, own, resetting} \subseteq BOOLEAN
  /\ asked \subseteq 1..Height /\ resyncs \subseteq {"others", "forced"}
  /\ headerFails \in 0..MaxFails /\ faults \in 0..MaxFaults

(* The header chain is never empty, never ahead of what the chain needs    *)
(* next, and what is not asked for yet is at its end: resolveChain finds a *)
(* node, getNextTip a checkpoint, and every block comes into its turn.  A  *)
(* peer that serves the right chain is taken for a bad one only after a    *)
(* disturbance (pool.js:2159), which costs two peers at most, so that no   *)
(* node gives up the checkpoints that is not disturbed MAX_HEADER_FAILS/2  *)
(* times.                                                                  *)
HeadersFollowChain ==
  checkpoints /\ ~resetting =>
    /\ headers.first <= headers.last /\ headers.first <= tip + 1
    /\ headers.next # 0 => headers.next \in (headers.first)..headers.last

FailsAreFaults == headerFails <= 2 * faults

HeadersKept == TypeOK /\ HeadersFollowChain /\ FailsAreFaults

(* Headers come to the last checkpoint, whatever was lost on the way.      *)
HeaderSyncEnds == checkpoints /\ syncing ~> ~checkpoints \/ ~syncing
=============================================================================
