---------------------------- MODULE Deployments ----------------------------
(***************************************************************************)
(* The state of a deployment (getState of src/lib/blockchain/chain.js) and *)
(* the cache of the states at the ends of windows (StateCache, deployment  *)
(* table: chaindb.js): in memory, what changed since the last batch, and   *)
(* on disk.  The chain adds and takes back blocks under its lock; the RPC  *)
(* server and the miner ask for the state of the tip without it.  The      *)
(* median time of a block is its height: what varies is the time a         *)
(* deployment has, and which blocks signal.                                *)
(***************************************************************************)
EXTENDS SequencesExt, FiniteSetsExt, Integers

CONSTANTS
  Blocks, Parent,        \* a tree: [Blocks -> Blocks \cup {NoBlock}]
  Level,                 \* [Blocks -> Nat]: their heights
  Trunk,                 \* bound: blocks that no reorganisation takes back
  NoBlock,
  Signals,               \* bound: blocks that may signal
  Period, Threshold,     \* network.minerWindow, activationThreshold
  Configs                \* start and timeout that a node may be built with

VARIABLES
  tip,
  signals,               \* the blocks that signal
  config, table,         \* the deployment, and what the database was made for
  mem, disk,             \* [Ends -> a state, or Unknown]
  updates,               \* changes of mem that no batch has saved
  batch,                 \* the block that comes or goes, and what is saved with it
  ask                    \* [Callers -> how far its getState is]

vars == <<tip, signals, config, table, mem, disk, updates, batch, ask>>

Unknown == "unknown"
Callers == {"chain", "rpc"}

Ends == {b \in Blocks : (Level[b] + 1) % Period = 0}
Nothing == [b \in Ends |-> Unknown]
Time(b) == Level[b]

Line[b \in Blocks] == {b} \cup (IF Parent[b] = NoBlock THEN {} ELSE Line[Parent[b]])

(* The block of a branch at a height, if the branch is that long.          *)
At(b, h) ==
  IF \E a \in Line[b] : Level[a] = h THEN CHOOSE a \in Line[b] : Level[a] = h ELSE NoBlock

Idle == [at |-> "idle", entry |-> NoBlock, height |-> 0, todo |-> <<>>]
NoBatch == [at |-> "none", from |-> NoBlock, to |-> NoBlock, saves |-> Nothing]

Init ==
  /\ tip \in {b \in Blocks : Parent[b] = NoBlock}
  /\ signals \in SUBSET Signals
  /\ config \in Configs /\ table = config
  /\ mem = Nothing /\ disk = Nothing /\ updates = {}
  /\ batch = NoBatch /\ ask = [c \in Callers |-> Idle]

-----------------------------------------------------------------------------
Count(b) ==
  Cardinality({a \in Line[b] \cap signals : Level[a] > Level[b] - Period})

(* One window further: from the state at the end of the one before.        *)
Advance(state, b) ==
  LET over == Time(b) >= config.timeout
  IN  CASE state \in {"DEFINED", "STARTED"} /\ over -> "FAILED"
        [] state = "DEFINED" /\ ~over ->
             IF Time(b) >= config.start THEN "STARTED" ELSE "DEFINED"
        [] state = "STARTED" /\ ~over ->
             IF Count(b) >= Threshold THEN "LOCKED_IN" ELSE "STARTED"
        [] state = "LOCKED_IN" -> "ACTIVE"
        [] OTHER -> state

(* The second loop: the ends that the first one collected, newest first,   *)
(* after a state that it found.  more is what it has cached by itself.     *)
Learn(c, state, todo, more) ==
  LET n == Len(todo)
      states[i \in 0..n] == IF i = 0 THEN state ELSE Advance(states[i - 1], todo[n + 1 - i])
      learnt == [b \in ToSet(todo) |-> states[n + 1 - (CHOOSE i \in 1..n : todo[i] = b)]]
                  @@ [b \in more |-> state]
  IN  /\ mem' = learnt @@ mem
      /\ updates' = updates \cup {b \in DOMAIN learnt : learnt[b] # mem[b]}
      /\ ask' = [ask EXCEPT ![c] = Idle]

(* getAncestor: of a block of the main chain it is what is at that height  *)
(* by the time the database answers, of others it is walked to.            *)
Seek(c, b, h, todo) ==
  ask' = [ask EXCEPT ![c] =
            IF b \in Line[tip] THEN [at |-> "height", entry |-> NoBlock, height |-> h, todo |-> todo]
            ELSE [at |-> "look", entry |-> At(b, h), height |-> 0, todo |-> todo]]

(* getState: the last end of a window; there is none before the first.     *)
Ask(c, b) ==
  LET h == Level[b] - ((Level[b] + 1) % Period)
  IN  CASE h = Level[b] -> ask' = [ask EXCEPT ![c] = [Idle EXCEPT !.at = "look", !.entry = b]]
        [] h < 0 -> UNCHANGED ask
        [] OTHER -> Seek(c, b, h, <<>>)

Found(c) ==
  /\ ask[c].at = "height"
  /\ LET a == At(tip, ask[c].height)
     IN  IF a # NoBlock
         THEN /\ ask' = [ask EXCEPT ![c].at = "look", ![c].entry = a]
              /\ UNCHANGED <<mem, updates>>
         ELSE Learn(c, "DEFINED", ask[c].todo, {})
  /\ UNCHANGED <<tip, signals, config, table, disk, batch>>

(* One round of the first loop.                                            *)
Look(c) ==
  /\ ask[c].at = "look"
  /\ LET e == ask[c].entry
         todo == Append(ask[c].todo, e)
     IN  CASE mem[e] # Unknown -> Learn(c, mem[e], ask[c].todo, {})
           [] mem[e] = Unknown /\ Time(e) < config.start ->
                Learn(c, "DEFINED", ask[c].todo, {e})
           [] mem[e] = Unknown /\ Time(e) >= config.start /\ Level[e] < Period ->
                Learn(c, "DEFINED", todo, {})
           [] OTHER -> Seek(c, e, Level[e] - Period, todo) /\ UNCHANGED <<mem, updates>>
  /\ UNCHANGED <<tip, signals, config, table, disk, batch>>

AskTip ==
  /\ ask["rpc"] = Idle /\ Ask("rpc", tip)
  /\ UNCHANGED <<tip, signals, config, table, mem, disk, updates, batch>>

-----------------------------------------------------------------------------
(* The chain verifies a block, for which it asks for the state of its      *)
(* parent, then saves it and the updates in one batch.                     *)
Verify(b) ==
  /\ batch = NoBatch /\ Parent[b] = tip
  /\ batch' = [NoBatch EXCEPT !.at = "verify", !.from = tip, !.to = b]
  /\ Ask("chain", tip)
  /\ UNCHANGED <<tip, signals, config, table, mem, disk, updates>>

Saves == [b \in Ends |-> IF b \in updates THEN mem[b] ELSE disk[b]]

Save ==
  /\ batch.at = "verify" /\ ask["chain"] = Idle
  /\ \/ batch' = [batch EXCEPT !.at = "write", !.saves = Saves]
     \/ batch' = NoBatch                                   \* a VerifyError
  /\ UNCHANGED <<tip, signals, config, table, mem, disk, updates, ask>>

(* disconnect saves the updates, a batch of reset() does not.              *)
Disconnect ==
  /\ batch = NoBatch /\ tip \notin Trunk
  /\ \E saves \in {Saves, disk} :
       batch' = [at |-> "write", from |-> tip, to |-> Parent[tip], saves |-> saves]
  /\ UNCHANGED <<tip, signals, config, table, mem, disk, updates, ask>>

(* commit: also what was learnt since the batch was made counts as saved.  *)
Commit ==
  /\ batch.at = "write" /\ batch' = NoBatch
  /\ tip' = batch.to /\ disk' = batch.saves /\ updates' = {}
  /\ UNCHANGED <<signals, config, table, mem, ask>>

(* drop, or a write that fails, which does not drop the states.            *)
Fail ==
  /\ batch.at = "write" /\ batch' = NoBatch
  /\ \/ /\ mem' = [b \in Ends |-> IF b \in updates THEN Unknown ELSE mem[b]]
        /\ updates' = {}
     \/ UNCHANGED <<mem, updates>>
  /\ UNCHANGED <<tip, signals, config, table, disk, ask>>

\* Mutant: the states are loaded before it is seen that they are outdated.
LoadFirst(c) ==
  LET kept == IF table = c THEN disk ELSE Nothing
  IN  /\ disk' = kept /\ mem' = disk /\ table' = c

(* open: verifyDeployments, then getStateCache.                            *)
Load(c) ==
  LET kept == IF table = c THEN disk ELSE Nothing
  IN  /\ disk' = kept /\ mem' = kept /\ table' = c

(* The process ends at any moment, and may be started as another version.  *)
Restart ==
  /\ \E c \in Configs : config' = c /\ Load(c)
  /\ updates' = {} /\ batch' = NoBatch /\ ask' = [c \in Callers |-> Idle]
  /\ UNCHANGED <<tip, signals>>

Next ==
  \/ AskTip \/ Save \/ Disconnect \/ Commit \/ Fail \/ Restart
  \/ \E c \in Callers : Found(c) \/ Look(c)
  \/ \E b \in Blocks : Verify(b)

Spec == Init /\ [][Next]_vars

-----------------------------------------------------------------------------
(* What BIP9 says of the end of a window: locked in by the first one that  *)
(* began in time and has the blocks, active ever after, failed when time   *)
(* is up before.                                                           *)
LocksIn(e, c) ==
  /\ Level[e] >= Period /\ Time(At(e, Level[e] - Period)) >= c.start
  /\ Time(e) < c.timeout /\ Count(e) >= Threshold

StateAt(e, c) ==
  CASE \E a \in (Line[e] \cap Ends) \ {e} : LocksIn(a, c) -> "ACTIVE"
    [] LocksIn(e, c) /\ ~\E a \in (Line[e] \cap Ends) \ {e} : LocksIn(a, c) -> "LOCKED_IN"
    [] OTHER -> IF Time(e) >= c.timeout THEN "FAILED"
                ELSE IF Time(e) >= c.start THEN "STARTED" ELSE "DEFINED"

(* Every cached state is the one that BIP9 defines for that block, in      *)
(* memory, on disk and in a batch, whatever was asked while the chain      *)
(* reorganised and whatever version of the node wrote it.                  *)
StatesAreRight ==
  /\ table = config
  /\ \A f \in {mem, disk, batch.saves}, e \in Ends : f[e] \in {Unknown, StateAt(e, config)}
  /\ updates \subseteq {e \in Ends : mem[e] # Unknown}
=============================================================================
