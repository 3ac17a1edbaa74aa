---------------------------- MODULE WalletLedger ----------------------------
(***************************************************************************)
(* What the transaction database of a wallet promises, however it keeps    *)
(* its records: the wallet knows a set of transactions that do not         *)
(* double-spend one another, some of them at a height, and its balance is  *)
(* a function of that set.  Transactions enter, are confirmed, lose their  *)
(* confirmation and leave one by one, and none leaves before those that    *)
(* spend it.  Module TXDB implements it.                                   *)
(***************************************************************************)
EXTENDS Integers, FiniteSets, FiniteSetsExt

CONSTANTS
  Txs, Outs,     \* transactions and outpoints
  Creator,       \* [Outs -> Txs \cup {None}]
  Spends,        \* [Txs -> SUBSET Outs]
  Mine,          \* the outputs that are the wallet's
  Value,         \* [Outs -> Nat]
  MaxHeight, None

VARIABLES
  height,        \* of each known transaction, -1 while it is unconfirmed
  balance

ledgerVars == <<height, balance>>

Known(f) == {t \in Txs : f[t] # None}
Mined(f) == {t \in Known(f) : f[t] # -1}

(* The wallet's outputs that a set of transactions makes, unspent by it.   *)
Unspent(made, spending) ==
  {o \in Mine : Creator[o] \in made /\ \A t \in spending : o \notin Spends[t]}

Sum(outs) == MapThenSumSet(LAMBDA o : Value[o], outs)

BalanceOf(f) ==
  [tx |-> Cardinality(Known(f)),
   coin |-> Cardinality(Unspent(Known(f), Known(f))),
   unconfirmed |-> Sum(Unspent(Known(f), Known(f))),
   confirmed |-> Sum(Unspent(Mined(f), Mined(f)))]

Now(t, h) ==
  /\ height' = [height EXCEPT ![t] = h]
  /\ balance' = BalanceOf(height')

Init ==
  /\ height \in [Txs -> {0, None}]
  /\ balance = BalanceOf(height)

Enter(t, h) ==
  /\ height[t] = None
  /\ \A u \in Known(height) : Spends[u] \cap Spends[t] = {}
  /\ Now(t, h)

Confirm(t, h) == height[t] = -1 /\ Now(t, h)

Unconfirm(t) == t \in Mined(height) /\ Now(t, -1)

Leave(t) ==
  /\ t \in Known(height)
  /\ \A u \in Known(height) : \A o \in Spends[u] : Creator[o] # t
  /\ Now(t, None)

Next ==
  \E t \in Txs :
    \/ \E h \in 0..MaxHeight : Enter(t, h) \/ Confirm(t, h)
    \/ Enter(t, -1) \/ Unconfirm(t) \/ Leave(t)

Spec == Init /\ [][Next]_ledgerVars
=============================================================================
