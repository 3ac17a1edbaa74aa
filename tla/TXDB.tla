-------------------------------- MODULE TXDB --------------------------------
(***************************************************************************)
(* The transaction database of one wallet (src/lib/wallet/txdb.js): the    *)
(* records it keeps of transactions, credits and spends, and the balance   *)
(* it maintains beside them.                                               *)
(*                                                                         *)
(* An operation runs under the wallet's writeLock and is one batch, except *)
(* that a removal is one batch for each transaction it erases, and that an *)
(* insertion first removes what conflicts with it.  An action is a batch.  *)
(* Within a transaction the outpoints it spends are distinct, so that its  *)
(* inputs and its outputs may be taken all at once.                        *)
(*                                                                         *)
(* The secondary indices (m, p, h and those by account) follow the         *)
(* transaction records and are left out; the outpoint map o has an entry   *)
(* exactly where there is a credit; with one wallet the global block map   *)
(* has the content of the wallet's block records.                          *)
(***************************************************************************)
EXTENDS Integers, Sequences, FiniteSets, SequencesExt, FiniteSetsExt, Functions

CONSTANTS
  Txs,           \* the transactions
  Outs,          \* outpoints, those of transactions outside Txs included
  Creator,       \* [Outs -> Txs \cup {None}]
  Inputs,        \* [Txs -> Seq(Outs)]; none for a coinbase
  Mine,          \* the outputs that pay an address of the wallet
  Value,         \* [Outs -> Nat]
  Replaceable,   \* transactions that signal replace-by-fee
  Unverifiable,  \* transactions whose inputs fail verifyInput
  MaxHeight,     \* bound: block heights are 0..MaxHeight
  None

In(t) == Range(Inputs[t])
OutsOf(t) == {o \in Outs : Creator[o] = t}

(* A transaction descends from itself and from those whose outputs its     *)
(* ancestors or it spend.                                                  *)
Descends(t, u) ==
  \A S \in SUBSET Txs :
    u \in S /\ (\A x \in Txs : (\E o \in In(x) : Creator[o] \in S) => x \in S) => t \in S

(* No two inputs of a transaction are spent by one other transaction, nor  *)
(* by one and a descendant of it: a removal of the conflicts then meets    *)
(* none of them twice.                                                     *)
ConflictsApart ==
  \A t \in Txs : \A i, j \in DOMAIN Inputs[t] : i # j =>
    \A u, v \in Txs \ {t} :
      Inputs[t][i] \in In(u) /\ Inputs[t][j] \in In(v) => ~Descends(u, v)

(* A transaction is named by a hash of what it spends: none comes before   *)
(* itself.                                                                 *)
ASSUME TXAssumption ==
  /\ None \notin Txs /\ None \notin -1..MaxHeight /\ MaxHeight \in Nat
  /\ None \notin [height : -1..MaxHeight, spent : BOOLEAN]
  /\ Creator \in [Outs -> Txs \cup {None}]
  /\ Inputs \in [Txs -> Seq(Outs)]
  /\ Mine \subseteq Outs /\ Value \in [Outs -> Nat]
  /\ Replaceable \subseteq Txs
  /\ \A t \in Txs : IsFiniteSet(OutsOf(t)) /\ In(t) \cap OutsOf(t) = {}
  /\ \A t, u \in Txs : Descends(t, u) /\ Descends(u, t) => t = u

VARIABLES
  rec,       \* t: the height of each known transaction, -1 when unconfirmed
  credit,    \* c: the coins of the wallet, with height and spent flag
  spender,   \* s: which transaction spends an outpoint
  undo,      \* d: the height in the undo coin of a transaction's input
  rbf,       \* r: unconfirmed replaceable transactions, seen and ignored
  blocks,    \* b: the transactions confirmed at a height, in order
  R,         \* the balance on disk
  state,     \* the balance in memory
  job,       \* the operation that holds writeLock
  alarm      \* assertions of the code that failed

vars == <<rec, credit, spender, undo, rbf, blocks, R, state, job, alarm>>
records == <<rec, credit, spender, undo, rbf, blocks, R>>

Heights == 0..MaxHeight
Unconfirmed == -1
MyOuts(t) == OutsOf(t) \cap Mine
Known == {t \in Txs : rec[t] # None}
Credits == {o \in Outs : credit[o] # None}
Total(outs) == MapThenSumSet(LAMBDA o : Value[o], outs)

Credit == [height : Heights \cup {Unconfirmed}, spent : BOOLEAN]
Wtx == [tx : Txs, height : Heights \cup {Unconfirmed}]
Balance == [tx : Int, coin : Int, unconfirmed : Int, confirmed : Int]

Idle == [op |-> "none"]
Job ==
  [op : {"add", "unconfirm", "remove"}, user : BOOLEAN, tx : Txs,
   height : Heights \cup {Unconfirmed}, roots : SUBSET (Nat \X Wtx), path : Seq(Wtx)]
  \cup [op : {"none", "threw"}]

(* How the balance changes: a set of the wallet's coins comes or goes, for *)
(* both figures or for one of them.                                        *)
Coins(bal, add, del) ==
  [bal EXCEPT !.coin = @ + Cardinality(add) - Cardinality(del),
              !.unconfirmed = @ + Total(add) - Total(del)]
Mined(bal, add, del) == [bal EXCEPT !.confirmed = @ + Total(add) - Total(del)]

-----------------------------------------------------------------------------
(* The batch is written, and the state it carries replaces the one in      *)
(* memory.                                                                 *)
Commit(balance) == R' = balance /\ state' = balance

(* BlockRecord: add, remove and removeSlow of a transaction.               *)
AddBlock(t, h) == blocks' = [blocks EXCEPT ![h] = Append(@, t)]
Without(txs, t) ==
  IF t \in Range(txs) THEN RemoveAt(txs, CHOOSE i \in DOMAIN txs : txs[i] = t) ELSE txs
RemoveBlockSlow(t, h) ==
  blocks' = IF h = Unconfirmed THEN blocks ELSE [blocks EXCEPT ![h] = Without(@, t)]

HasUndo(t) == {o \in In(t) : undo[t][o] # None}

(* updateSpentCoin: the undo coin that the spender of an output keeps.     *)
UndoOfSpenders(outs, h) ==
  [t \in Txs |-> [o \in Outs |->
     IF o \in outs /\ spender[o] = t /\ undo[t][o] # None
     THEN h ELSE undo[t][o]]]
-----------------------------------------------------------------------------
(* isRBF: t signals, or spends what an ignored replaceable one creates.    *)
IsRBF(t) == t \in Replaceable \/ \E o \in In(t) : Creator[o] \in rbf

\* Mutant: double spenders stay.
NoConflicts(t) == {}

(* removeConflicts: the spender of each input that another one spends, so  *)
(* one that two inputs share once for each of them.                        *)
Conflicts(t) ==
  {<<i, [tx |-> spender[Inputs[t][i]], height |-> rec[spender[Inputs[t][i]]]]>> :
     i \in {j \in DOMAIN Inputs[t] : spender[Inputs[t][j]] \notin {None, t}}}

ConfirmedConflict(t) == \E root \in Conflicts(t) : root[2].height # Unconfirmed

(* An unconfirmed transaction gives way to a confirmed double spender.     *)
Removes(t, h) ==
  /\ rec[t] = None
  /\ h = Unconfirmed => ~IsRBF(t) /\ ~ConfirmedConflict(t)

(* The next transaction to remove goes on the path.                        *)
Removing(j) ==
  LET first == CHOOSE root \in j.roots : \A r \in j.roots : root[1] <= r[1]
  IN  IF j.path = <<>> /\ j.roots # {}
      THEN [j EXCEPT !.path = <<first[2]>>, !.roots = @ \ {first}]
      ELSE j

NewJob(op, t, h, roots, user) ==
  Removing([op |-> op, user |-> user, tx |-> t, height |-> h,
            roots |-> roots, path |-> <<>>])

Add(t, h, user) ==
  /\ job = Idle
  /\ job' = NewJob("add", t, h, IF Removes(t, h) THEN Conflicts(t) ELSE {}, user)
  /\ UNCHANGED <<records, state, alarm>>

Unconfirm(t) ==
  /\ job = Idle
  /\ job' = NewJob("unconfirm", t, Unconfirmed, {}, FALSE)
  /\ UNCHANGED <<records, state, alarm>>

(* remove and abandon, and each transaction that zap removes.              *)
RemoveTX(t) ==
  /\ job = Idle /\ rec[t] # None
  /\ job' = NewJob("remove", t, rec[t], {<<1, [tx |-> t, height |-> rec[t]]>>}, TRUE)
  /\ UNCHANGED <<records, state, alarm>>

Done == job' = Idle
Throws(what) ==
  /\ alarm' = alarm \cup what
  /\ job' = IF job.user THEN Idle ELSE [op |-> "threw"]
  /\ UNCHANGED <<records, state>>

-----------------------------------------------------------------------------
(* removeRecursive: what spends an output of a transaction is removed      *)
(* before it, with the height its record had when it was read.             *)
Working(op) == job.op = op /\ job.path = <<>>

Descend ==
  /\ job.op \in {"add", "remove"} /\ job.path # <<>>
  /\ \E o \in OutsOf(Last(job.path).tx) :
       /\ spender[o] # None
       /\ job' = [job EXCEPT !.path =
                    Append(@, [tx |-> spender[o], height |-> rec[spender[o]]])]
  /\ UNCHANGED <<records, state, alarm>>

\* Mutant: the credits that t created stay.
RestoredOnly(t) ==
  [o \in Outs |->
     IF o \in HasUndo(t) THEN [height |-> undo[t][o], spent |-> FALSE]
     ELSE credit[o]]

(* The coins a transaction gives back, and their undo coins.               *)
Restored(t) ==
  [o \in Outs |->
     IF o \in HasUndo(t) THEN [height |-> undo[t][o], spent |-> FALSE]
     ELSE IF o \in MyOuts(t) THEN None
     ELSE credit[o]]

(* erase, once nothing spends the transaction any more.                    *)
Erase ==
  /\ job.op \in {"add", "remove"} /\ job.path # <<>>
  /\ LET t == Last(job.path).tx
         h == Last(job.path).height
         back == HasUndo(t)
         bal == Coins(state, back, MyOuts(t))
     IN  /\ \A o \in OutsOf(t) : spender[o] = None
         /\ credit' = Restored(t)
         /\ spender' = [o \in Outs |-> IF o \in In(t) THEN None ELSE spender[o]]
         /\ undo' = [undo EXCEPT ![t] = [o \in Outs |-> None]]
         /\ rbf' = rbf \ {t}
         /\ rec' = [rec EXCEPT ![t] = None]
         /\ RemoveBlockSlow(t, h)
         /\ Commit([IF h = Unconfirmed THEN bal ELSE Mined(bal, back, MyOuts(t))
                    EXCEPT !.tx = @ - 1])
  /\ LET j == Removing([job EXCEPT !.path = Front(@)])
     IN  job' = IF j.op = "remove" /\ j.path = <<>> THEN Idle ELSE j
  /\ UNCHANGED alarm

-----------------------------------------------------------------------------
(* _add ends without a write: the transaction is known and this does not   *)
(* confirm it, or a confirmed one spends its inputs.                       *)
Ignored(t, h) ==
  \/ rec[t] # None /\ (rec[t] # Unconfirmed \/ h = Unconfirmed)
  \/ rec[t] = None /\ h = Unconfirmed /\ ~IsRBF(t) /\ ConfirmedConflict(t)

Ignore ==
  /\ Working("add") /\ Ignored(job.tx, job.height)
  /\ Done
  /\ UNCHANGED <<records, state, alarm>>

(* An unconfirmed replaceable transaction leaves its hash behind.          *)
IndexRBF ==
  /\ Working("add")
  /\ rec[job.tx] = None /\ job.height = Unconfirmed /\ IsRBF(job.tx)
  /\ rbf' = rbf \cup {job.tx}
  /\ Done
  /\ UNCHANGED <<rec, credit, spender, undo, blocks, R, state, alarm>>

Inserting(t, h) ==
  Working("add") /\ rec[t] = None /\ (h = Unconfirmed => ~IsRBF(t) /\ ~ConfirmedConflict(t))

Spendable(t) == In(t) \cap Credits

(* verifyInput is asked of unconfirmed transactions only.                  *)
Verifies(t, h) == h # Unconfirmed \/ t \notin Unverifiable \/ Spendable(t) = {}

Ours(t) == Spendable(t) \cup MyOuts(t) # {}

(* insert finds nothing of the wallet's, or an input that fails: the batch *)
(* is cleared, but the conflicts are gone already.                         *)
Reject ==
  /\ Inserting(job.tx, job.height)
  /\ ~Ours(job.tx) \/ ~Verifies(job.tx, job.height)
  /\ Done
  /\ UNCHANGED <<records, state, alarm>>

(* resolveInput: outputs that a known transaction spent before the wallet  *)
(* knew them for its own.                                                  *)
Resolved(t) == {o \in MyOuts(t) : spender[o] # None /\ undo[spender[o]][o] = None}

InsertTX ==
  LET t == job.tx
      h == job.height
      spent == Spendable(t)
      resolved == Resolved(t)
      new == MyOuts(t) \ resolved
      pending == {o \in resolved : rec[spender[o]] = Unconfirmed}
      bal == [Coins(state, new, spent) EXCEPT !.tx = @ + 1]
  IN
  /\ Inserting(t, h) /\ Ours(t) /\ Verifies(t, h)
  /\ rec' = [rec EXCEPT ![t] = h]
  /\ credit' = [o \in Outs |->
       IF o \in spent
       THEN IF h = Unconfirmed THEN [credit[o] EXCEPT !.spent = TRUE] ELSE None
       ELSE IF o \in new THEN [height |-> h, spent |-> FALSE]
       ELSE IF o \in pending THEN [height |-> h, spent |-> TRUE]
       ELSE credit[o]]
  /\ spender' = [o \in Outs |-> IF o \in In(t) THEN t ELSE spender[o]]
  /\ undo' = [u \in Txs |-> [o \in Outs |->
       IF u = t /\ o \in spent THEN credit[o].height
       ELSE IF o \in resolved /\ spender[o] = u THEN h
       ELSE undo[u][o]]]
  /\ IF h = Unconfirmed
     THEN Commit(bal) /\ UNCHANGED <<rbf, blocks>>
     ELSE /\ Commit(Mined(bal, new \cup pending, spent))
          /\ rbf' = rbf \ {t}
          /\ AddBlock(t, h)
  /\ Done
  /\ UNCHANGED alarm

-----------------------------------------------------------------------------
Confirming(t, h) == Working("add") /\ rec[t] = Unconfirmed /\ h # Unconfirmed

(* Inputs with an undo coin, and those whose coin turned up since.         *)
Late(t) == (In(t) \cap Credits) \ HasUndo(t)

ConfirmAssertions(t) ==
  {x \in {"coin.height", "credit"} :
     \/ /\ x = "coin.height"
        /\ \/ \E o \in HasUndo(t) : undo[t][o] = Unconfirmed
           \/ \E o \in Late(t) : credit[o].height = Unconfirmed
     \/ x = "credit" /\ MyOuts(t) \cap Credits # MyOuts(t)}

ConfirmThrows ==
  /\ Confirming(job.tx, job.height)
  /\ ConfirmAssertions(job.tx) # {}
  /\ Throws(ConfirmAssertions(job.tx))

(* _confirm: coins spent by t go for good, its own get their height.       *)
ConfirmTX ==
  LET t == job.tx
      h == job.height
      late == Late(t)
      gone == HasUndo(t) \cup late
      mempool == {o \in MyOuts(t) : credit[o].spent}
  IN
  /\ Confirming(t, h)
  /\ ConfirmAssertions(t) = {}
  /\ rec' = [rec EXCEPT ![t] = h]
  /\ credit' = [o \in Outs |->
       IF o \in gone THEN None
       ELSE IF o \in MyOuts(t) THEN [credit[o] EXCEPT !.height = h]
       ELSE credit[o]]
  /\ spender' = [o \in Outs |-> IF o \in late THEN t ELSE spender[o]]
  /\ undo' = [UndoOfSpenders(mempool, h) EXCEPT
       ![t] = [o \in Outs |-> IF o \in late THEN credit[o].height ELSE @[o]]]
  /\ rbf' = rbf \ {t}
  /\ AddBlock(t, h)
  /\ Commit(Mined(Coins(state, {}, late), MyOuts(t), gone))
  /\ Done
  /\ UNCHANGED alarm

-----------------------------------------------------------------------------
DisconnectAssertions(t) ==
  {x \in {"coin.height", "last hash"} :
     \/ x = "coin.height" /\ \E o \in HasUndo(t) : undo[t][o] = Unconfirmed
     \/ x = "last hash" /\ blocks[rec[t]] # <<>> /\ Last(blocks[rec[t]]) # t}

Disconnecting(t) == Working("unconfirm") /\ rec[t] \in Heights

DisconnectThrows ==
  /\ Disconnecting(job.tx)
  /\ DisconnectAssertions(job.tx) # {}
  /\ Throws(DisconnectAssertions(job.tx))

(* What disconnect writes into the undo coins of spent outputs: the height *)
(* the block had.                                                          *)
OldHeight(h) == h

(* disconnect: spent coins come back as spent in the mempool.              *)
DisconnectTX ==
  LET t == job.tx
      h == rec[t]
      back == HasUndo(t)
      kept == MyOuts(t) \cap Credits
      reheight == {o \in MyOuts(t) : o \in kept => credit[o].spent}
  IN
  /\ Disconnecting(t)
  /\ DisconnectAssertions(t) = {}
  /\ rec' = [rec EXCEPT ![t] = Unconfirmed]
  /\ credit' = [o \in Outs |->
       IF o \in back THEN [height |-> undo[t][o], spent |-> TRUE]
       ELSE IF o \in kept THEN [credit[o] EXCEPT !.height = Unconfirmed]
       ELSE credit[o]]
  /\ undo' = UndoOfSpenders(reheight, OldHeight(h))
  /\ blocks' = IF blocks[h] = <<>> THEN blocks ELSE [blocks EXCEPT ![h] = Front(@)]
  /\ Commit(Mined(state, back, kept))
  /\ Done
  /\ UNCHANGED <<spender, rbf, alarm>>

(* _unconfirm of a transaction that is gone or is unconfirmed already.     *)
NothingToUnconfirm ==
  /\ Working("unconfirm") /\ rec[job.tx] \notin Heights
  /\ Done
  /\ UNCHANGED <<records, state, alarm>>

-----------------------------------------------------------------------------
\* Mutant: the count of a transaction that was not written stays in memory.
KeepPending == state' = [state EXCEPT !.tx = @ + 1]

KeepState == UNCHANGED state

(* The batch of the operation under way cannot be written: nothing of it   *)
(* is kept, in memory or on disk.                                          *)
CommitFails ==
  /\ job.op \in {"add", "unconfirm", "remove"}
  /\ job' = IF job.user THEN Idle ELSE [op |-> "threw"]
  /\ KeepState
  /\ UNCHANGED <<records, alarm>>

Step ==
  \/ Descend \/ Erase \/ Ignore \/ IndexRBF \/ Reject \/ InsertTX
  \/ ConfirmTX \/ ConfirmThrows \/ DisconnectTX \/ DisconnectThrows
  \/ NothingToUnconfirm

-----------------------------------------------------------------------------
(* The promise of module WalletLedger: heights and balance, whatever the   *)
(* records beside them.                                                    *)
Ledger == INSTANCE WalletLedger WITH
  Spends <- [t \in Txs |-> In(t)], height <- rec, balance <- R
=============================================================================
