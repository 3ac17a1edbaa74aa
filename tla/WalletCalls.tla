---------------------------- MODULE WalletCalls ----------------------------
(***************************************************************************)
(* The calls of one wallet (src/lib/wallet/wallet.js) that run at the same *)
(* time, the locks they take and the master key (masterkey.js) they open   *)
(* and close.  A call is a program of steps; a step between two awaits is  *)
(* one action.  A lock is the line of module Lock: first come, first       *)
(* served, the head of the line holds it.                                  *)
(***************************************************************************)
EXTENDS SequencesExt, FiniteSets

CONSTANTS
  Calls,       \* callers, each making one call after another
  Ops,         \* [Calls -> SUBSET the operations]: what each of them calls
  Apart,       \* sets of two operations that are not called together
  Timeouts     \* of unlock: a subset of {"soon", "never"}; "never" is -1

VARIABLES
  call,        \* what each caller is doing: the operation and what is left of it
  line,        \* the calls that hold or await each lock
  gone,        \* the locks that were destroyed
  batch,       \* whose batch is open, if any: wallet.current
  master       \* the master key

vars == <<call, line, gone, batch, master>>

Locks == {"tx", "fund", "write", "key"}

-----------------------------------------------------------------------------
(* What the calls do.  Under(l, body) is the code's                        *)
(* lock; try { body } finally { unlock }.                                  *)
Do(what) == <<<<"do", what>>>>
Under(l, body) == <<<<"take", l>>>> \o body \o <<<<"give", l>>>>

UnlockKey == Under("key", Do("unlock"))
LockKey == Under("key", Do("lock"))
Batch == Do("start") \o Do("commit")

\* Mutant: the wallet writes without its writeLock.
AddTXUnlocked == Under("tx", Batch)

AddTX == Under("tx", Under("write", Batch))

Write == Under("write", Batch)
CreateAccount == Under("write", UnlockKey \o Do("derive") \o Batch)
Send == Under("fund", UnlockKey \o Do("sign") \o AddTX)
EncryptWallet == Under("write", Under("key", Do("encrypt")) \o Batch)
DecryptWallet == Under("write", Under("key", Do("decrypt")) \o Batch)
LockWallet == Under("write", Under("fund", LockKey))
DestroyWallet == Under("write", Under("fund", LockKey \o Do("destroy")))
SetLookahead == Under("write", <<>>) \o Batch     \* returns a promise nobody awaits

Programs ==
  [block |-> AddTX, write |-> Write, createAccount |-> CreateAccount,
   send |-> Send, encrypt |-> EncryptWallet, decrypt |-> DecryptWallet,
   unlock |-> UnlockKey, lock |-> LockWallet, destroy |-> DestroyWallet,
   setLookahead |-> SetLookahead]

-----------------------------------------------------------------------------
Idle == [op |-> "none", todo |-> <<>>]

Init ==
  /\ call = [c \in Calls |-> Idle]
  /\ line = [l \in Locks |-> <<>>]
  /\ gone = {}
  /\ batch = {}
  /\ \E e \in BOOLEAN : master = [encrypted |-> e, key |-> ~e, timer |-> "none"]

Holds(c, l) == line[l] # <<>> /\ Head(line[l]) = c

(* An error leaves through the finally clauses of the locks that are held. *)
Unwind(c) == SelectSeq(call[c].todo, LAMBDA s : s[1] = "give" /\ Holds(c, s[2]))

At(c, s) == call[c] # Idle /\ Head(call[c].todo) = s
Left(c, todo) == IF todo = <<>> THEN Idle ELSE [call[c] EXCEPT !.todo = todo]
Proceed(c) == call' = [call EXCEPT ![c] = Left(c, Tail(call[c].todo))]
Fail(c) == call' = [call EXCEPT ![c] = Left(c, Unwind(c))]

Start(c, o) ==
  /\ call[c] = Idle
  /\ \A d \in Calls : {o, call[d].op} \notin Apart
  /\ call' = [call EXCEPT ![c] = [op |-> o, todo |-> Programs[o]]]
  /\ UNCHANGED <<line, gone, batch, master>>

(* lock.lock(): refused, let in at once or put in the line.                *)
Ask(c, l) ==
  /\ At(c, <<"take", l>>) /\ c \notin Range(line[l])
  /\ \/ l \in gone /\ Fail(c) /\ UNCHANGED line
     \/ /\ l \notin gone
        /\ line' = [line EXCEPT ![l] = Append(@, c)]
        /\ IF line[l] = <<>> THEN Proceed(c) ELSE UNCHANGED call
  /\ UNCHANGED <<gone, batch, master>>

Enter(c, l) ==
  /\ At(c, <<"take", l>>) /\ Holds(c, l)
  /\ Proceed(c)
  /\ UNCHANGED <<line, gone, batch, master>>

Give(c, l) ==
  /\ At(c, <<"give", l>>)
  /\ line' = [line EXCEPT ![l] = Tail(@)]
  /\ Proceed(c)
  /\ UNCHANGED <<gone, batch, master>>

-----------------------------------------------------------------------------
(* The wallet's batch.                                                     *)
StartBatch(c) ==
  /\ At(c, <<"do", "start">>)
  /\ IF batch = {} THEN batch' = {c} /\ Proceed(c)
     ELSE Fail(c) /\ UNCHANGED batch         \* 'WDB: Batch already started.'
  /\ UNCHANGED <<line, gone, master>>

Commit(c) ==
  /\ At(c, <<"do", "commit">>)
  /\ batch' = {}
  /\ Proceed(c)
  /\ UNCHANGED <<line, gone, master>>

(* Deriving an account or signing needs the key in memory.                 *)
UseKey(c) ==
  /\ At(c, <<"do", "derive">>) \/ At(c, <<"do", "sign">>)
  /\ IF master.key THEN Proceed(c) ELSE Fail(c)
  /\ UNCHANGED <<line, gone, batch, master>>

-----------------------------------------------------------------------------
(* The master key.  A new timer replaces the old one; "none" and "never"   *)
(* are both a timer of null, the second one because an unlock asked for it.*)
Timer(timeout) == IF timeout = "never" THEN "never" ELSE "armed"

Opened(m, timeout) == [m EXCEPT !.key = TRUE, !.timer = Timer(timeout)]

(* _unlock: with the key in memory the timer starts again, otherwise the   *)
(* passphrase is tried; it may be wrong or missing.                        *)
Unlock(c) ==
  /\ At(c, <<"do", "unlock">>)
  /\ \/ /\ master.key
        /\ \/ ~master.encrypted /\ Proceed(c) /\ UNCHANGED master
           \/ /\ master.encrypted /\ master.timer # "armed"    \* the assertion
              /\ Fail(c) /\ UNCHANGED master
           \/ /\ master.encrypted /\ master.timer = "armed"
              /\ \E t \in Timeouts : master' = Opened(master, t)
              /\ Proceed(c)
     \/ /\ ~master.key
        /\ \/ (\E t \in Timeouts : master' = Opened(master, t)) /\ Proceed(c)
           \/ Fail(c) /\ UNCHANGED master
  /\ UNCHANGED <<line, gone, batch>>

Forgotten(m) == IF m.encrypted THEN [m EXCEPT !.key = FALSE, !.timer = "none"] ELSE m

LockMaster(c) ==
  /\ At(c, <<"do", "lock">>)
  /\ master' = Forgotten(master)
  /\ Proceed(c)
  /\ UNCHANGED <<line, gone, batch>>

Encrypt(c) ==
  /\ At(c, <<"do", "encrypt">>)
  /\ IF master.encrypted THEN Fail(c) /\ UNCHANGED master
     ELSE /\ master' = [encrypted |-> TRUE, key |-> FALSE, timer |-> "none"]
          /\ Proceed(c)
  /\ UNCHANGED <<line, gone, batch>>

(* _decrypt forgets the key before it tries the passphrase.                *)
Decrypt(c) ==
  /\ At(c, <<"do", "decrypt">>)
  /\ \/ master.encrypted /\ Proceed(c)
        /\ master' = [encrypted |-> FALSE, key |-> TRUE, timer |-> "none"]
     \/ Fail(c) /\ master' = Forgotten(master)
  /\ UNCHANGED <<line, gone, batch>>

(* The timer calls lock(), which finds the key's lock free: while a call   *)
(* derives a key there is no timer, and no call awaits anything else there.*)
(* Once the lock is destroyed the call is refused and the key stays.       *)
Timeout ==
  /\ master.timer = "armed" /\ line["key"] = <<>>
  /\ \A c \in Calls : ~At(c, <<"do", "derive">>)
  /\ master' = IF "key" \in gone THEN [master EXCEPT !.timer = "none"]
               ELSE Forgotten(master)
  /\ UNCHANGED <<call, line, gone, batch>>

(* The locks are destroyed, the calls that wait for them rejected.         *)
Destroy(c) ==
  /\ At(c, <<"do", "destroy">>)
  /\ LET dead == {"key", "write", "fund"}
         Cast(l) == Range(line[l]) \ {Head(line[l])}
         out == UNION {Cast(l) : l \in {k \in dead : line[k] # <<>>}}
     IN  /\ gone' = gone \cup dead
         /\ line' = [l \in Locks |-> IF l \in dead /\ line[l] # <<>>
                                     THEN <<Head(line[l])>> ELSE line[l]]
         /\ call' = [d \in Calls |-> IF d = c THEN Left(d, Tail(call[d].todo))
                                     ELSE IF d \in out THEN Left(d, Unwind(d)) ELSE call[d]]
  /\ UNCHANGED <<batch, master>>

-----------------------------------------------------------------------------
Step(c) ==
  \/ \E l \in Locks : Ask(c, l) \/ Enter(c, l) \/ Give(c, l)
  \/ StartBatch(c) \/ Commit(c) \/ UseKey(c)
  \/ Unlock(c) \/ LockMaster(c) \/ Encrypt(c) \/ Decrypt(c) \/ Destroy(c)

Next ==
  \/ \E c \in Calls : Step(c) \/ \E o \in Ops[c] : Start(c, o)
  \/ Timeout

(* Promises settle, key derivations and writes end.                        *)
Fairness == \A c \in Calls : WF_vars(Step(c))
Spec == Init /\ [][Next]_vars /\ Fairness

-----------------------------------------------------------------------------
TypeOK ==
  /\ \A c \in Calls : call[c] = Idle \/ call[c].op \in Ops[c]
  /\ \A l \in Locks : line[l] \in Seq(Calls)
  /\ gone \subseteq Locks /\ batch \subseteq Calls

(* A plaintext key of an encrypted wallet is in memory only while a timer  *)
(* runs that will destroy it (the assertion of _unlock, masterkey.js:190,  *)
(* rests on it), but for two cases: an unlock asked for no timer, or the   *)
(* wallet was destroyed while an unlock held or came by the key's lock,    *)
(* and the timer of that unlock is refused the lock.                       *)
KeyHasDeadline ==
  master.encrypted /\ master.key =>
    master.timer \in {"armed", "never"} \/ "key" \in gone

(* A batch is opened only when none is open ('WDB: Batch already started.',*)
(* walletdb.js:692), unless one of the two is setLookahead's, which works  *)
(* after its writeLock was given back; and the account a call derives finds*)
(* the key it has just unlocked (wallet.js:700).                           *)
AssertionsHold ==
  \A c \in Calls :
    /\ At(c, <<"do", "start">>) =>
         \A d \in batch : "setLookahead" \in {call[c].op, call[d].op}
    /\ At(c, <<"do", "derive">>) => master.key

(* Every call ends: no set of calls waits for one another's locks.         *)
CallsEnd == \A c \in Calls : call[c] # Idle ~> call[c] = Idle

(* "Lock the wallet, destroy decrypted key." (wallet.js:580): lock()       *)
(* returns.                                                                *)
LockReturns == \A c \in Calls : call[c].op = "lock" ~> call[c].op # "lock"
=============================================================================
