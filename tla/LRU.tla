-------------------------------- MODULE LRU --------------------------------
(***************************************************************************)
(* The cache of src/lib/utils/lru.js in front of the chain's and the       *)
(* wallet's databases: a map whose items are linked in the order of their  *)
(* last use, evicted from its head, with a batch that follows a batch of   *)
(* the database.  A value is its size.                                     *)
(***************************************************************************)
EXTENDS SequencesExt, FiniteSets, Integers

CONSTANTS
  Keys, None,
  Sizes,                 \* sizes of values, by _getSize
  Capacity,
  MaxOps                 \* bound: operations of a batch

VARIABLES
  lru,                   \* map (0: no item), next, prev, head, tail, size, items
  pending                \* the batch, a sequence of <<key, size>>; size 0 removes

vars == <<lru, pending>>

NoBatch == <<<<None, 0>>>>
Null == [k \in Keys |-> None]

Empty ==
  [map |-> [k \in Keys |-> 0], next |-> Null, prev |-> Null,
   head |-> None, tail |-> None, size |-> 0, items |-> 0]

Init == lru = Empty /\ pending = NoBatch

-----------------------------------------------------------------------------
(* _removeList: the neighbours are linked, the item's own links cut.       *)
RemoveList(l, k) ==
  LET p == l.prev[k]
      n == l.next[k]
      head == IF k = l.head THEN n ELSE l.head
      tail == IF k # l.tail THEN l.tail ELSE IF p # None THEN p ELSE head
  IN  [l EXCEPT !.head = head, !.tail = tail,
         !.next = [x \in Keys |-> IF x = k THEN None ELSE IF x = p THEN n ELSE @[x]],
         !.prev = [x \in Keys |-> IF x = k THEN None ELSE IF x = n THEN p ELSE @[x]]]

(* _insertList after the tail.                                             *)
AppendList(l, k) ==
  IF l.tail = None THEN [l EXCEPT !.head = k, !.tail = k]
  ELSE [l EXCEPT !.next[k] = l.next[l.tail], !.prev[k] = l.tail,
                 !.next[l.tail] = k, !.tail = k]

(* _compact: from the head on, until the rest fits.                        *)
RECURSIVE DropFrom(_, _)
DropFrom(l, k) ==
  CASE k = None -> [l EXCEPT !.head = None, !.tail = None]
    [] k # None /\ l.size <= Capacity -> [l EXCEPT !.head = k, !.prev[k] = None]
    [] OTHER ->
         DropFrom([l EXCEPT !.size = @ - l.map[k], !.items = @ - 1, !.map[k] = 0,
                            !.next[k] = None, !.prev[k] = None], l.next[k])

\* Mutant: the new head keeps its link to an item that is gone.
RECURSIVE DropLinked(_, _)
DropLinked(l, k) ==
  CASE k = None -> [l EXCEPT !.head = None, !.tail = None]
    [] k # None /\ l.size <= Capacity -> [l EXCEPT !.head = k]
    [] OTHER ->
         DropLinked([l EXCEPT !.size = @ - l.map[k], !.items = @ - 1, !.map[k] = 0,
                              !.next[k] = None, !.prev[k] = None], l.next[k])

CompactLinked(l) == IF l.size <= Capacity THEN l ELSE DropLinked(l, l.head)

Compact(l) == IF l.size <= Capacity THEN l ELSE DropFrom(l, l.head)

Used(l, k) == AppendList(RemoveList(l, k), k)

SetItem(l, k, n) ==
  LET sized == [l EXCEPT !.map[k] = n, !.size = @ - l.map[k] + n]
  IN  IF l.map[k] # 0 THEN Compact(Used(sized, k))
      ELSE Compact([AppendList(sized, k) EXCEPT !.items = @ + 1])

RemoveItem(l, k) ==
  IF l.map[k] = 0 THEN l
  ELSE RemoveList([l EXCEPT !.size = @ - l.map[k], !.items = @ - 1, !.map[k] = 0], k)

Apply(l, op) == IF op[2] = 0 THEN RemoveItem(l, op[1]) ELSE SetItem(l, op[1], op[2])

-----------------------------------------------------------------------------
Set(k, n) == lru' = SetItem(lru, k, n) /\ UNCHANGED pending
Get(k) == lru.map[k] # 0 /\ lru' = Used(lru, k) /\ UNCHANGED pending
RemoveKey(k) == lru' = RemoveItem(lru, k) /\ UNCHANGED pending
Reset == lru' = Empty /\ UNCHANGED pending

Start == pending = NoBatch /\ pending' = <<>> /\ UNCHANGED lru

(* push, and unpush with size 0.                                           *)
Push(k, n) ==
  /\ pending # NoBatch /\ Len(pending) < MaxOps
  /\ pending' = Append(pending, <<k, n>>)
  /\ UNCHANGED lru

Clear == pending # NoBatch /\ pending' = <<>> /\ UNCHANGED lru
Drop == pending # NoBatch /\ pending' = NoBatch /\ UNCHANGED lru

Commit ==
  /\ pending # NoBatch /\ pending' = NoBatch
  /\ lru' = FoldLeft(Apply, lru, pending)

Next ==
  \/ \E k \in Keys : Get(k) \/ RemoveKey(k) \/ \E n \in Sizes : Set(k, n)
  \/ \E k \in Keys, n \in Sizes \cup {0} : Push(k, n)
  \/ Reset \/ Start \/ Clear \/ Drop \/ Commit

Spec == Init /\ [][Next]_vars

-----------------------------------------------------------------------------
(* The items from the head on.                                             *)
RECURSIVE Walk(_, _)
Walk(l, k) == IF k = None THEN <<>> ELSE <<<<k, l.map[k]>>>> \o Walk(l, l.next[k])
Order == Walk(lru, lru.head)

(* The links go both ways, from the head to the tail and over all items,   *)
(* and the books agree: the assertions of _insertList, _removeList and     *)
(* keys (lru.js:243, 286) hold, and no item is lost to eviction.           *)
ListKept ==
  LET in == {k \in Keys : lru.map[k] # 0}
  IN  /\ ToSet(Order) = {<<k, lru.map[k]>> : k \in in} /\ Len(Order) = lru.items
      /\ lru.items = Cardinality(in) /\ lru.size <= Capacity
      /\ lru.size = FoldLeft(LAMBDA n, x : n + x[2], 0, Order)
      /\ lru.tail = IF in = {} THEN None ELSE Last(Order)[1]
      /\ \A k \in Keys :
           /\ k \notin in => lru.prev[k] = None /\ lru.next[k] = None
           /\ lru.prev[k] = IF \E x \in in : lru.next[x] = k
                            THEN CHOOSE x \in in : lru.next[x] = k ELSE None

Cache == INSTANCE RecencyCache WITH used <- Order, batch <- pending

(* The list evicts what was used longest ago and no more than it must, and *)
(* a batch takes effect in its order or not at all.                        *)
ImplementsCache == Cache!Spec
=============================================================================
