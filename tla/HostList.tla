------------------------------ MODULE HostList ------------------------------
(***************************************************************************)
(* The address book of the pool (src/lib/net/hostlist.js): hosts heard of  *)
(* are in fresh buckets, hosts that shook hands in used buckets, each of a *)
(* limited size.  Times and the stochastic tests are left open: any entry  *)
(* may be stale, any may be the oldest, any repetition may be ignored.     *)
(***************************************************************************)
EXTENDS Integers, Functions, FiniteSetsExt

CONSTANTS
  Hosts,
  Buckets,       \* 1..options.maxBuckets
  UsedBucket,    \* [Hosts -> Buckets]: the hash of the address
  MaxEntries,    \* options.maxEntries
  MaxRefs        \* HostList.MAX_REFS

VARIABLES
  book,          \* the map: each host's fresh bucket, the hash of its address
                 \* and of who told us of it
  fresh, used,   \* [Buckets -> SUBSET Hosts]
  refs,          \* [Hosts -> refCount]
  isUsed,        \* the hosts flagged used
  totalFresh, totalUsed

vars == <<book, fresh, used, refs, isUsed, totalFresh, totalUsed>>

Init ==
  /\ book = <<>>
  /\ fresh = [b \in Buckets |-> {}] /\ used = [b \in Buckets |-> {}]
  /\ refs = [h \in Hosts |-> 0] /\ isUsed = {}
  /\ totalFresh = 0 /\ totalUsed = 0

IsFull == totalFresh + totalUsed >= Cardinality(Buckets) * MaxEntries

-----------------------------------------------------------------------------
(* evictFresh: everything stale and, if anything is left, the oldest.      *)
Evictions(b) ==
  IF Cardinality(fresh[b]) < MaxEntries THEN {{}}
  ELSE {gone \in SUBSET fresh[b] : gone # {}}

\* Mutant: an evicted host leaves the map, whatever bucket still has it.
AllForgotten(gone) == gone

Forgotten(gone) == {h \in gone : refs[h] = 1}

Put(h, b, counted) ==
  \E gone \in Evictions(b) :
    /\ fresh' = [fresh EXCEPT ![b] = (@ \ gone) \cup {h}]
    /\ refs' = [k \in Hosts |-> refs[k] + (IF k = h THEN 1 ELSE 0)
                                        - (IF k \in gone THEN 1 ELSE 0)]
    /\ book' = [k \in (DOMAIN book \ Forgotten(gone)) \cup {h} |-> IF k = h THEN b ELSE book[k]]
    /\ totalFresh' = totalFresh + counted - Cardinality(Forgotten(gone))
    /\ UNCHANGED <<used, isUsed, totalUsed>>

(* add() of a host that is not known; who told us decides on the bucket.   *)
Add(h) ==
  /\ h \notin DOMAIN book /\ ~IsFull
  /\ \E b \in Buckets : Put(h, b, 1)

(* add() of one that is: it goes to its bucket if markAck put it into      *)
(* another one.                                                            *)
AddAgain(h) ==
  /\ h \in DOMAIN book \ isUsed /\ refs[h] < MaxRefs /\ h \notin fresh[book[h]]
  /\ Put(h, book[h], 0)

(* ban() removes the host.                                                 *)
Remove(h) ==
  /\ h \in DOMAIN book /\ book' = Restrict(book, DOMAIN book \ {h})
  /\ IF h \in isUsed
     THEN /\ used' = [b \in Buckets |-> used[b] \ {h}]
          /\ totalUsed' = totalUsed - 1
          /\ isUsed' = isUsed \ {h}
          /\ UNCHANGED <<fresh, refs, totalFresh>>
     ELSE /\ fresh' = [b \in Buckets |-> fresh[b] \ {h}]
          /\ refs' = [refs EXCEPT ![h] = 0]
          /\ totalFresh' = totalFresh - 1
          /\ UNCHANGED <<used, isUsed, totalUsed>>

(* markAck: a host that shook hands goes to its used bucket.  In a full    *)
(* one it takes the place of the oldest, which goes to its fresh bucket or,*)
(* if that is full, to the last one the host was in.                       *)
MarkAck(h) ==
  LET left == [b \in Buckets |-> fresh[b] \ {h}]
      old == CHOOSE b \in Buckets : h \in fresh[b] /\ \A c \in Buckets : h \in fresh[c] => c <= b
      mine == UsedBucket[h]
  IN  /\ h \in DOMAIN book \ isUsed
      /\ \/ /\ Cardinality(used[mine]) < MaxEntries
            /\ used' = [used EXCEPT ![mine] = @ \cup {h}]
            /\ fresh' = left /\ refs' = [refs EXCEPT ![h] = 0]
            /\ isUsed' = isUsed \cup {h}
            /\ totalFresh' = totalFresh - 1 /\ totalUsed' = totalUsed + 1
         \/ /\ Cardinality(used[mine]) >= MaxEntries
            /\ \E evicted \in used[mine] :
                 LET b == IF Cardinality(left[book[evicted]]) < MaxEntries
                          THEN book[evicted] ELSE old
                 IN  /\ used' = [used EXCEPT ![mine] = (@ \ {evicted}) \cup {h}]
                     /\ fresh' = [left EXCEPT ![b] = @ \cup {evicted}]
                     /\ refs' = [refs EXCEPT ![h] = 0, ![evicted] = @ + 1]
                     /\ isUsed' = (isUsed \cup {h}) \ {evicted}
            /\ UNCHANGED <<totalFresh, totalUsed>>
      /\ UNCHANGED book

(* fromJSON of what toJSON wrote: the counts come from the buckets.        *)
Reload ==
  /\ refs' = [h \in Hosts |-> Cardinality({b \in Buckets : h \in fresh[b]})]
  /\ isUsed' = UNION {used[b] : b \in Buckets}
  /\ totalFresh' = Cardinality(UNION {fresh[b] : b \in Buckets})
  /\ totalUsed' = Cardinality(UNION {used[b] : b \in Buckets})
  /\ UNCHANGED <<book, fresh, used>>

Next ==
  \/ \E h \in Hosts : Add(h) \/ AddAgain(h) \/ Remove(h) \/ MarkAck(h)
  \/ Reload

Spec == Init /\ [][Next]_vars

-----------------------------------------------------------------------------
(* A host is in the map exactly if buckets hold it: fresh ones, as many as *)
(* it counts, or its used one; and the totals are the numbers of hosts, so *)
(* that getHost, which draws until it finds one, ends (hostlist.js:433)    *)
(* and the assertions of add, remove, markAck, toArray and fromJSON hold.  *)
BookKept ==
  LET inFresh(h) == {b \in Buckets : h \in fresh[b]}
      inUsed(h) == {b \in Buckets : h \in used[b]}
  IN  /\ \A h \in Hosts :
           /\ h \in DOMAIN book <=> inFresh(h) # {} \/ inUsed(h) # {}
           /\ refs[h] = Cardinality(inFresh(h)) /\ refs[h] <= MaxRefs
           /\ IF h \in isUsed THEN inUsed(h) = {UsedBucket[h]} /\ refs[h] = 0
              ELSE inUsed(h) = {}
      /\ totalUsed = Cardinality(isUsed)
      /\ totalFresh = Cardinality(DOMAIN book \ isUsed)
      /\ \A b \in Buckets :
           Cardinality(fresh[b]) <= MaxEntries /\ Cardinality(used[b]) <= MaxEntries
=============================================================================
