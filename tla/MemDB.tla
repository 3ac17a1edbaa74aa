------------------------------- MODULE MemDB -------------------------------
(***************************************************************************)
(* The database in memory (src/lib/db/memdb.js): a red-black tree          *)
(* (src/lib/utils/rbt.js) that batches insert into and delete from, and    *)
(* iterators over ranges of a snapshot of it.  A node is called by the key *)
(* it holds.                                                               *)
(***************************************************************************)
EXTENDS SequencesExt, FiniteSetsExt, Integers

CONSTANTS
  N,                     \* the keys are 1..N
  MaxOps                 \* bound: operations of a batch

VARIABLES
  tree,                  \* root, child, parent, red; val is the value of a node
  stored                 \* history: the keys that were put and not deleted

vars == <<tree, stored>>

Keys == 1..N
Nil == 0                 \* the sentinel: black, shared, its parent is written to
Sides == {"left", "right"}
Other(s) == IF s = "left" THEN "right" ELSE "left"

Nobody == [k \in 0..N |-> Nil]
Empty ==
  [root |-> Nil, child |-> [s \in Sides |-> Nobody], parent |-> Nobody, red |-> {},
   val |-> Nobody]

Init == tree = Empty /\ stored = {}

-----------------------------------------------------------------------------
(* The side of its parent that x is on, as the code asks for it.           *)
SideOf(t, x) == IF x = t.child.left[t.parent[x]] THEN "left" ELSE "right"

(* What x was to its parent, y becomes.                                    *)
Replace(t, x, y) ==
  IF t.parent[x] = Nil THEN [t EXCEPT !.root = y]
  ELSE [t EXCEPT !.child[SideOf(t, x)][t.parent[x]] = y]

(* rotl (s = "left") and rotr.                                             *)
Rotate(t, x, s) ==
  LET y == t.child[Other(s)][x]
      z == t.child[s][y]
      t1 == [t EXCEPT !.child[Other(s)][x] = z]
      t2 == IF z = Nil THEN t1 ELSE [t1 EXCEPT !.parent[z] = x]
      t3 == Replace([t2 EXCEPT !.parent[y] = t.parent[x]], x, y)
  IN  [t3 EXCEPT !.child[s][y] = x, !.parent[x] = y]

Blacken(t, ks) == [t EXCEPT !.red = @ \ ks]
Redden(t, k) == [t EXCEPT !.red = @ \cup {k}]

RECURSIVE InsertFixup(_, _)
InsertFixup(t, x) ==
  LET p == t.parent[x]
      g == t.parent[p]
      s == SideOf(t, p)
      uncle == t.child[Other(s)][g]
  IN  IF x = t.root \/ p \notin t.red THEN Blacken(t, {t.root})
      ELSE IF uncle \in t.red
      THEN InsertFixup(Redden(Blacken(t, {p, uncle}), g), g)
      ELSE LET inner == x = t.child[Other(s)][p]
               t1 == IF inner THEN Rotate(t, p, s) ELSE t
               y == IF inner THEN p ELSE x
               q == t1.parent[y]
               h == t1.parent[q]
           IN  InsertFixup(Rotate(Redden(Blacken(t1, {q}), h), h, Other(s)), y)

(* Where a new key goes: its parent, Nil in an empty tree.                 *)
RECURSIVE Place(_, _, _)
Place(t, k, x) ==
  LET next == t.child[IF k < x THEN "left" ELSE "right"][x]
  IN  IF x = Nil \/ next = Nil THEN x ELSE Place(t, k, next)

Insert(t, k) ==
  LET p == Place(t, k, t.root)
      node == [t EXCEPT !.parent[k] = p, !.val[k] = k,
                        !.child.left[k] = Nil, !.child.right[k] = Nil]
  IN  IF t.val[k] # Nil THEN t
      ELSE IF p = Nil THEN InsertFixup(Redden([node EXCEPT !.root = k], k), k)
      ELSE InsertFixup(Redden(
             [node EXCEPT !.child[IF k < p THEN "left" ELSE "right"][p] = k], k), k)

-----------------------------------------------------------------------------
RECURSIVE Outermost(_, _, _), Climb(_, _, _)
Outermost(t, x, s) ==
  IF x = Nil \/ t.child[s][x] = Nil THEN x ELSE Outermost(t, t.child[s][x], s)

Climb(t, x, s) ==
  LET y == t.parent[x]
  IN  IF y # Nil /\ x = t.child[s][y] THEN Climb(t, y, s) ELSE y

(* successor (s = "right") and predecessor.                                *)
Neighbour(t, x, s) ==
  IF t.child[s][x] # Nil THEN Outermost(t, t.child[s][x], Other(s)) ELSE Climb(t, x, s)

(* From x, which is one black short, up to the root.                       *)
RECURSIVE RemoveFixup(_, _)
RemoveFixup(t, x) ==
  IF x = t.root \/ x \in t.red THEN Blacken(t, {x})
  ELSE
    LET s == SideOf(t, x)
        o == Other(s)
        p == t.parent[x]
        w0 == t.child[o][p]
        t1 == IF w0 \in t.red THEN Rotate(Redden(Blacken(t, {w0}), p), p, s) ELSE t
        w1 == t1.child[o][p]
        near == t1.child[s][w1]
        far == t1.child[o][w1]
    IN  IF near \notin t1.red /\ far \notin t1.red
        THEN RemoveFixup(Redden(t1, w1), p)
        ELSE LET t2 == IF far \in t1.red THEN t1
                       ELSE Rotate(Redden(Blacken(t1, {near}), w1), w1, o)
                 w2 == t2.child[o][p]
                 t3 == IF p \in t2.red THEN Redden(t2, w2) ELSE Blacken(t2, {w2})
                 t4 == Blacken(t3, {p, t3.child[o][w2]})
             IN  RemoveFixup(Rotate(t4, p, s), Rotate(t4, p, s).root)

(* The node of y takes the place of z: z.key = y.key, z.value = y.value.   *)
Renamed(t, z, y) ==
  LET R(x) == IF x = z THEN y ELSE x
  IN  [root |-> R(t.root),
       child |-> [s \in Sides |-> [x \in 0..N |-> R(t.child[s][IF x = y THEN z ELSE x])]],
       parent |-> [x \in 0..N |-> R(t.parent[IF x = y THEN z ELSE x])],
       red |-> {x \in Keys : (IF x = y THEN z ELSE x) \in t.red},
       val |-> t.val]

(* A key that is gone leaves nothing behind.                               *)
Cleared(t, k) ==
  [t EXCEPT !.child.left[k] = Nil, !.child.right[k] = Nil, !.parent[k] = Nil,
            !.red = @ \ {k}, !.val[k] = Nil]

(* removeNode and, with the search before it, remove.                      *)
RemoveNode(t, z) ==
  LET two == t.child.left[z] # Nil /\ t.child.right[z] # Nil
      y == IF two THEN Neighbour(t, z, "right") ELSE z
      x == IF t.child.left[y] = Nil THEN t.child.right[y] ELSE t.child.left[y]
      spliced == Replace([t EXCEPT !.parent[x] = t.parent[y]], y, x)
      black == y \notin t.red
      named == IF y = z THEN spliced ELSE Renamed(spliced, z, y)
  IN  Cleared(IF black THEN RemoveFixup(named, x) ELSE named, z)

Delete(t, k) == IF t.val[k] = Nil THEN t ELSE RemoveNode(t, k)

Change(t, op) == IF op[1] = "put" THEN Insert(t, op[2]) ELSE Delete(t, op[2])

(* Batch.write: the operations in their order, with nothing in between.    *)
Write(ops) ==
  /\ tree' = FoldLeft(Change, tree, ops)
  /\ stored' = FoldLeft(LAMBDA ks, op : IF op[1] = "put" THEN ks \cup {op[2]} ELSE ks \ {op[2]},
                        stored, ops)

Next == \E ops \in SeqOf({"put", "del"} \X Keys, MaxOps) : Write(ops)

Spec == Init /\ [][Next]_vars

-----------------------------------------------------------------------------
(* Iterators.  Nil stands for a bound that is not given.                   *)
Options ==
  {o \in [start : 0..N, end : 0..N, gt : BOOLEAN, lt : BOOLEAN, reverse : BOOLEAN,
          limit : {-1, 2}] :
     (o.gt => o.start # Nil) /\ (o.lt => o.end # Nil)}

(* seekMin (s = "left"): the least key from k on; seekMax.                 *)
RECURSIVE Seek(_, _, _, _, _)
Seek(t, k, s, x, best) ==
  IF x = Nil THEN best
  ELSE IF x = k THEN x
  ELSE IF (s = "left") = (x > k) THEN Seek(t, k, s, t.child[s][x], x)
  ELSE Seek(t, k, s, t.child[Other(s)][x], best)

\* Mutant: whatever it would start at is passed over.
FirstButOne(t, o) ==
  LET from == IF o.reverse THEN o.end ELSE o.start
      open == IF o.reverse THEN o.lt ELSE o.gt
      ahead == IF o.reverse THEN "left" ELSE "right"
      x == Seek(t, from, Other(ahead), t.root, Nil)
  IN  IF from = Nil THEN Outermost(t, t.root, Other(ahead))
      ELSE IF open /\ x # Nil THEN Neighbour(t, x, ahead) ELSE x

(* init: an exclusive bound at which it would start is passed over.        *)
First(t, o) ==
  LET from == IF o.reverse THEN o.end ELSE o.start
      open == IF o.reverse THEN o.lt ELSE o.gt
      ahead == IF o.reverse THEN "left" ELSE "right"
      x == Seek(t, from, Other(ahead), t.root, Nil)
  IN  IF from = Nil THEN Outermost(t, t.root, Other(ahead))
      ELSE IF open /\ x = from THEN Neighbour(t, x, ahead) ELSE x

Beyond(o, k) ==
  IF o.reverse THEN o.start # Nil /\ (k < o.start \/ (o.gt /\ k = o.start))
  ELSE o.end # Nil /\ (k > o.end \/ (o.lt /\ k = o.end))

(* next, until it has nothing more to give.                                *)
RECURSIVE From(_, _, _, _)
From(t, o, x, total) ==
  IF x = Nil \/ Beyond(o, x) \/ total = o.limit THEN <<>>
  ELSE <<t.val[x]>> \o From(t, o, Neighbour(t, x, IF o.reverse THEN "left" ELSE "right"), total + 1)

Listed(t, o) == From(t, o, First(t, o), 0)

-----------------------------------------------------------------------------
RECURSIVE BlackHeight(_, _)
BlackHeight(t, x) ==
  IF x = Nil THEN 1
  ELSE LET l == BlackHeight(t, t.child.left[x])
           r == BlackHeight(t, t.child.right[x])
       IN  IF l = r /\ l > 0 THEN l + (IF x \in t.red THEN 0 ELSE 1) ELSE -1

(* After any history of batches the tree is a red-black tree: no path from *)
(* the root is more than twice as long as another, which removeFixup has   *)
(* to restore.                                                             *)
Balanced ==
  /\ BlackHeight(tree, tree.root) > 0 /\ tree.root \notin tree.red
  /\ \A k \in stored : k \in tree.red => tree.parent[k] \notin tree.red
  /\ \A k \in stored, s \in Sides :
       LET x == tree.child[s][k] IN x # Nil => tree.parent[x] = k

(* An iterator gives the keys of its range and no others, in order, each   *)
(* with its own value, as many as it may.                                  *)
RangesExact ==
  \A o \in Options :
    LET range == {k \in stored :
                    /\ o.start # Nil => k >= o.start /\ (o.gt => k # o.start)
                    /\ o.end # Nil => k <= o.end /\ (o.lt => k # o.end)}
        sorted == SetToSortSeq(range, LAMBDA a, b : IF o.reverse THEN a > b ELSE a < b)
    IN  Listed(tree, o) =
          IF o.limit = -1 \/ o.limit >= Len(sorted) THEN sorted ELSE SubSeq(sorted, 1, o.limit)

DatabaseKept == Balanced /\ RangesExact
=============================================================================
