---------------------------- MODULE RecencyCache ----------------------------
(***************************************************************************)
(* What a cache of limited size promises: the keys that were used last, as *)
(* many as fit, and a batch of changes that is applied in its order or not *)
(* at all.                                                                 *)
(***************************************************************************)
EXTENDS SequencesExt, Integers

CONSTANTS
  Keys,
  Sizes,       \* sizes of values: the value of a key is its size here
  Capacity,
  MaxOps,      \* bound: operations of a batch
  NoBatch

VARIABLES
  used,        \* <<key, size>> of what is cached, the key used last at the end
  batch        \* operations to come, or NoBatch

vars == <<used, batch>>

Total(s) == FoldLeft(LAMBDA n, x : n + x[2], 0, s)
Without(k) == SelectSeq(used, LAMBDA x : x[1] # k)

(* The latest that fit together.                                           *)
Fitting(s) ==
  LET fit == {n \in 0..Len(s) : Total(SubSeq(s, n + 1, Len(s))) <= Capacity}
      skipped == CHOOSE n \in fit : \A m \in fit : n <= m
  IN  SubSeq(s, skipped + 1, Len(s))

After(s, op) ==
  LET rest == SelectSeq(s, LAMBDA x : x[1] # op[1])
  IN  IF op[2] = 0 THEN rest ELSE Fitting(Append(rest, op))

Init == used = <<>> /\ batch = NoBatch

Set(k, n) == used' = After(used, <<k, n>>) /\ UNCHANGED batch
RemoveKey(k) == used' = After(used, <<k, 0>>) /\ UNCHANGED batch
Reset == used' = <<>> /\ UNCHANGED batch

Get(k) ==
  \E i \in DOMAIN used :
    used[i][1] = k /\ used' = Append(Without(k), used[i]) /\ UNCHANGED batch

Collect(ops) == batch' = ops /\ UNCHANGED used

Commit ==
  /\ batch # NoBatch /\ batch' = NoBatch
  /\ used' = FoldLeft(After, used, batch)

Next ==
  \/ \E k \in Keys : RemoveKey(k) \/ Get(k) \/ \E n \in Sizes : Set(k, n)
  \/ \E k \in Keys : \E n \in Sizes \cup {0} :
       batch # NoBatch /\ Collect(Append(batch, <<k, n>>))
  \/ Reset \/ Commit \/ Collect(<<>>) \/ Collect(NoBatch)

Spec == Init /\ [][Next]_vars
=============================================================================
