------------------------------ MODULE Template ------------------------------
(***************************************************************************)
(* createBlock and assemble of src/lib/mining/miner.js: which transactions *)
(* of the mempool go into a block, and in which order, by a heap           *)
(* (src/lib/utils/heap.js) that is ordered by priority first and by fee    *)
(* rate from some weight on.  createBlock awaits between taking the tip of *)
(* the chain and assembling; assemble runs at once, an action for each     *)
(* item it takes off the heap.                                             *)
(***************************************************************************)
EXTENDS SequencesExt, FiniteSetsExt, Integers

CONSTANTS
  N,               \* the transactions are 1..N, in the order of the mempool
  Inputs,          \* [1..N -> a sequence of the transactions it spends]
  Weight,          \* [1..N -> Nat]
  Reserved, MinWeight, MaxWeight, PriorityWeight, PriorityThreshold,
  Facts,           \* what else they may be: rate (the higher one of rate and
                   \* descRate) and priority of each, which are free, which final
  MaxMoves         \* bound: blocks that come while createBlock awaits

VARIABLES
  fact,            \* a member of Facts
  tips,            \* blocks since the call: made (its tip), chain, mempool
  pool,            \* the entries of the mempool
  phase,           \* "asked", "assembling", "done" or "failed"
  priority,        \* the order of the heap: by priority, else by rate
  heap,
  missing,         \* [1..N -> depCount]
  items, weight    \* the template

vars == <<fact, tips, pool, phase, priority, heap, missing, items, weight>>

Entries == 1..N
ParentsOf(t) == ToSet(Inputs[t])

-----------------------------------------------------------------------------
(* cmpRate and cmpPriority.                                                *)
Higher(a, b) ==
  \/ fact.rate[a] > fact.rate[b]
  \/ fact.rate[a] = fact.rate[b] /\ fact.priority[a] > fact.priority[b]

Before(byPriority, a, b) ==
  IF byPriority /\ fact.priority[a] # fact.priority[b]
  THEN fact.priority[a] > fact.priority[b]
  ELSE Higher(a, b)

Swap(h, i, j) == [h EXCEPT ![i] = h[j], ![j] = h[i]]

(* down(i, n), with places counted from one.                               *)
RECURSIVE Down(_, _, _, _)
Down(p, h, i, n) ==
  LET l == 2 * i
      j == IF l + 1 <= n /\ ~Before(p, h[l], h[l + 1]) THEN l + 1 ELSE l
  IN  IF l > n \/ ~Before(p, h[j], h[i]) THEN h ELSE Down(p, Swap(h, i, j), j, n)

RECURSIVE Up(_, _, _)
Up(p, h, i) ==
  LET j == i \div 2
  IN  IF i = 1 \/ ~Before(p, h[i], h[j]) THEN h ELSE Up(p, Swap(h, j, i), j)

Put(p, h, t) == Up(p, Append(h, t), Len(h) + 1)

(* shift: the first and the last change places, and the last goes.         *)
Rest(p, h) == Front(Down(p, Swap(h, 1, Len(h)), 1, Len(h) - 1))

\* Mutant: set() without init(): the items stay where they were.
Unsorted(p, h) == h

(* init.                                                                   *)
Sorted(p, h) ==
  FoldLeft(LAMBDA g, i : Down(p, g, i, Len(h)), h, Reverse([i \in 1..(Len(h) \div 2) |-> i]))

-----------------------------------------------------------------------------
Init ==
  /\ fact \in Facts
  /\ tips = [made |-> 0, chain |-> 0, mempool |-> 0]
  /\ pool = Entries
  /\ phase = "asked"
  /\ priority = (PriorityWeight > 0)
  /\ heap = <<>> /\ missing = [t \in Entries |-> 0]
  /\ items = <<>> /\ weight = Reserved

(* Meanwhile the chain takes a block, and the mempool is told of it.       *)
ChainMoves ==
  /\ phase = "asked" /\ tips.chain = tips.mempool /\ tips.chain < MaxMoves
  /\ tips' = [tips EXCEPT !.chain = @ + 1]
  /\ UNCHANGED <<fact, pool, phase, priority, heap, missing, items, weight>>

MempoolFollows ==
  /\ phase = "asked" /\ tips.chain # tips.mempool
  /\ tips' = [tips EXCEPT !.mempool = tips.chain]
  /\ \E mined \in SUBSET pool :
       /\ \A t \in mined : ParentsOf(t) \cap pool \subseteq mined
       /\ pool' = pool \ mined
  /\ UNCHANGED <<fact, phase, priority, heap, missing, items, weight>>

(* Each input that spends an entry counts, and only who has none is queued.*)
Assemble ==
  /\ phase = "asked"
  /\ IF tips.mempool # tips.chain
     THEN phase' = "failed" /\ UNCHANGED <<missing, heap>>
     ELSE LET inPool(t) == Len(SelectSeq(Inputs[t], LAMBDA s : s \in pool))
              ready == SelectSeq([t \in Entries |-> t], LAMBDA t : t \in pool /\ inPool(t) = 0)
          IN  /\ phase' = "assembling"
              /\ missing' = [t \in Entries |-> IF t \in pool THEN inPool(t) ELSE 0]
              /\ heap' = FoldLeft(LAMBDA h, t : Put(priority, h, t), <<>>, ready)
  /\ UNCHANGED <<fact, tips, pool, priority, items, weight>>

(* What is taken off the heap and left out does not come back.             *)
TooMuch(t) == t \notin fact.final \/ weight + Weight[t] > MaxWeight
TooCheap(t) == ~priority /\ t \in fact.free /\ weight + Weight[t] >= MinWeight

LeaveOut ==
  /\ phase = "assembling" /\ heap # <<>>
  /\ TooMuch(Head(heap)) \/ TooCheap(Head(heap))
  /\ heap' = Rest(priority, heap)
  /\ UNCHANGED <<fact, tips, pool, phase, priority, missing, items, weight>>

Switches(t) ==
  priority /\ (weight + Weight[t] > PriorityWeight \/ fact.priority[t] < PriorityThreshold)

SwitchToRate ==
  /\ phase = "assembling" /\ heap # <<>>
  /\ ~TooMuch(Head(heap)) /\ Switches(Head(heap))
  /\ priority' = FALSE
  /\ heap' = Put(FALSE, Sorted(FALSE, Rest(TRUE, heap)), Head(heap))
  /\ UNCHANGED <<fact, tips, pool, phase, missing, items, weight>>

Take ==
  /\ phase = "assembling" /\ heap # <<>>
  /\ LET t == Head(heap)
         spends(d) == Len(SelectSeq(Inputs[d], LAMBDA s : s = t))
         freed == SelectSeq([d \in Entries |-> d],
                    LAMBDA d : d \in pool /\ spends(d) > 0 /\ missing[d] = spends(d))
     IN  /\ ~TooMuch(t) /\ ~TooCheap(t) /\ ~Switches(t)
         /\ items' = Append(items, t) /\ weight' = weight + Weight[t]
         /\ missing' = [d \in Entries |-> IF d \in pool THEN missing[d] - spends(d) ELSE 0]
         /\ heap' = FoldLeft(LAMBDA h, d : Put(priority, h, d), Rest(priority, heap), freed)
  /\ UNCHANGED <<fact, tips, pool, phase, priority>>

Finish ==
  /\ phase = "assembling" /\ heap = <<>>
  /\ phase' = "done"
  /\ UNCHANGED <<fact, tips, pool, priority, heap, missing, items, weight>>

(* The next call finds the same pool again.                                *)
NextCall ==
  /\ phase \in {"done", "failed"}
  /\ tips' = [made |-> 0, chain |-> 0, mempool |-> 0] /\ pool' = Entries
  /\ phase' = "asked" /\ priority' = (PriorityWeight > 0)
  /\ heap' = <<>> /\ missing' = [t \in Entries |-> 0]
  /\ items' = <<>> /\ weight' = Reserved
  /\ UNCHANGED fact

Next ==
  \/ ChainMoves \/ MempoolFollows \/ Assemble
  \/ LeaveOut \/ SwitchToRate \/ Take \/ Finish \/ NextCall

Spec == Init /\ [][Next]_vars

-----------------------------------------------------------------------------
(* The best item is always at the front, also after the order has changed. *)
HeapInOrder ==
  \A i \in DOMAIN heap : i > 1 => ~Before(priority, heap[i], heap[i \div 2])

(* The block can be mined on top of the tip that the mempool had: each     *)
(* transaction comes once, after all those it spends from.  It is not too  *)
(* heavy, and what is left out did not fit, is not final, is free where    *)
(* free ones are not taken, or spends from something that was left out.    *)
TemplateSound ==
  /\ HeapInOrder
  /\ \A i \in DOMAIN items :
       /\ ParentsOf(items[i]) \cap pool \subseteq {items[j] : j \in 1..(i - 1)}
       /\ \A j \in 1..(i - 1) : items[i] # items[j]
  /\ weight <= MaxWeight
  /\ weight = FoldLeft(LAMBDA n, t : n + Weight[t], Reserved, items)
  /\ phase = "done" =>
       \A t \in pool \ ToSet(items) :
         \/ TooMuch(t) \/ TooCheap(t)
         \/ (ParentsOf(t) \cap pool) \ ToSet(items) # {}
=============================================================================
