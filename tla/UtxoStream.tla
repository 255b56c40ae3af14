------------------------------ MODULE UtxoStream ------------------------------
(***************************************************************************)
(* How subscribers follow the coin store.  Each Utxos call (a goroutine)   *)
(* registers a streamer, replays the unspent outputs of a leafset snapshot *)
(* and then forwards what utxoHandler hands it over an unbuffered channel. *)
(* utxoHandler is called by three goroutines:                              *)
(*                                                                         *)
(*   mweb       mwebHandler, after each stored batch of coins and after    *)
(*              each stored leafset, holding mwebUtxosCallbacksMtx for a   *)
(*              whole round;                                               *)
(*   mempool    blockHandler, for a transaction a peer relayed, holding    *)
(*              mwebUtxosCallbacksMtx;                                     *)
(*   broadcast  the goroutine the Broadcast call starts, with no mutex.    *)
(*                                                                         *)
(* The coin store moves as ChainView says it does (MwebSync implements it).*)
(***************************************************************************)
EXTENDS BlockTree

CONSTANTS
    Subs,       \* the Utxos calls
    Owned,      \* call |-> the outputs its scan secret can rewind
    From,       \* call |-> FromHeight
    Relays,     \* the outputs seen unconfirmed
    MaxTxs,     \* bound: unconfirmed transactions announced
    MaxRounds,  \* bound: mwebHandler rounds
    Hazards     \* environment behaviours allowed, see below

(* "purge"   a deep reorg may empty the coin store                         *)
(* "dbfail"  inside a notification, the write of the unconfirmed outputs or *)
(*           a read of the coin store may fail: neither stops it            *)
HazardKinds == {"purge", "dbfail"}

(* An output mined a second time on a branch may lose its coin (MinedOnce);  *)
(* FetchLeaves then fails for every leafset with that leaf, so that replays   *)
(* end in an error and notifications send nothing they read.  What streamers  *)
(* are promised holds for trees without such outputs, and is stated for them. *)
ASSUME UtxoStreamAssumption ==
    /\ Owned \in [Subs -> SUBSET Output]
    /\ From \in [Subs -> Nat]
    /\ Relays \subseteq Output
    /\ MaxTxs \in Nat /\ MaxRounds \in Nat
    /\ Hazards \subseteq HazardKinds
    /\ Output \subseteq MinedOnce

Notifiers == {"mweb", "mempool", "broadcast"}
Free == "free"

(* A call of utxoHandler: the outputs with their leaves (leaf 0 when       *)
(* unconfirmed), and the new leafset's block when there is one.            *)
Pairs == (Leaves \cup {0}) \X Output
Calls == [utxos : SUBSET Pairs, lfs : Blocks \cup {None}]
NoCall == [utxos |-> {}, lfs |-> None]

VARIABLES
    leafBlk, leafMap, leavesAt,     \* the coin store
    round, target, todo, rounds,    \* mwebHandler
    txs,                            \* unconfirmed transactions so far
    pool,                           \* the "mweb-mempool" bucket
    callbacksMtx,                   \* blockManager.mwebUtxosCallbacksMtx
    mtx,                            \* Server.mtx
    npc,        \* where each notifier is in utxoHandler
    call,       \* its arguments
    queue,      \* the streamers it still has to notify
    at,         \* the streamer it is notifying, as a set of at most one
    out,        \* what it still has to send to that streamer
    pc,         \* where each Utxos call is
    lfs,        \* its utxoStreamer.lfs
    leaves,     \* utxoStreamer.leaves
    init,       \* utxoStreamer.init
    rest,       \* the leaves it still has to replay
    ctx,        \* "open" or "cancelled"
    got         \* the <<leaf, output>> pairs its client was sent

storeVars  == <<leafBlk, leafMap, leavesAt>>
roundVars  == <<round, target, todo, rounds, txs>>
mtxVars    == <<callbacksMtx, mtx>>
notifyVars == <<npc, call, queue, at, out>>
subVars    == <<pc, lfs, leaves, init, rest, ctx, got>>
(* What no step of a Utxos call, and no step of a notification, changes. *)
sources    == <<storeVars, roundVars, callbacksMtx>>
handler    == <<sources, pool, mtx, notifyVars>>
vars       == <<handler, subVars>>

Init ==
    /\ leafBlk \in {None, Base}
    /\ leafMap = [i \in Leaves |-> IF i \in LeafsetOf(leafBlk) THEN Outs[Base][i] ELSE None]
    /\ leavesAt = [h \in Heights |-> IF leafBlk # None /\ h = 1 THEN Len(Outs[Base]) ELSE 0]
    /\ round = "idle" /\ target = Base /\ todo = {} /\ rounds = 0 /\ txs = 0
    /\ pool = {} /\ callbacksMtx = Free /\ mtx = Free
    /\ npc = [n \in Notifiers |-> "idle"] /\ call = [n \in Notifiers |-> NoCall]
    /\ queue = [n \in Notifiers |-> {}] /\ at = [n \in Notifiers |-> {}]
    /\ out = [n \in Notifiers |-> {}]
    /\ pc = [s \in Subs |-> "new"] /\ lfs = [s \in Subs |-> None]
    /\ leaves = [s \in Subs |-> {}] /\ init = [s \in Subs |-> FALSE]
    /\ rest = [s \in Subs |-> {}] /\ ctx = [s \in Subs |-> "open"]
    /\ got = [s \in Subs |-> {}]

Mine(s, utxos) == {u \in utxos : u[2] \in Owned[s]}
FetchLeaves(L) == {<<i, leafMap[i]>> : i \in {j \in L : leafMap[j] # None}}
-----------------------------------------------------------------------------
(* Utxos *)

(* registerStreamer, under s.mtx. *)
Register(s) ==
    /\ pc[s] = "new"
    /\ mtx = Free
    /\ pc' = [pc EXCEPT ![s] = "heights"]
    /\ UNCHANGED <<handler, lfs, leaves, init, rest, ctx, got>>

(* Mutant: the leaves of FromHeight itself are skipped. *)
CountAt(h) ==
    LET known == {k \in Heights : k <= h /\ leavesAt[k] > 0}
    IN  IF known = {} THEN 0
        ELSE leavesAt[CHOOSE k \in known : \A j \in known : j <= k]

(* The leaf count at the last known height below FromHeight. *)
CountBelow(h) ==
    LET known == {k \in Heights : k < h /\ leavesAt[k] > 0}
    IN  IF known = {} THEN 0
        ELSE leavesAt[CHOOSE k \in known : \A j \in known : j <= k]

ReadHeights(s) ==
    /\ pc[s] = "heights"
    /\ rest' = [rest EXCEPT ![s] = {i \in Leaves : i > CountBelow(From[s])}]
    /\ pc' = [pc EXCEPT ![s] = "leafset"]
    /\ UNCHANGED <<handler, lfs, leaves, init, ctx, got>>

ReadLeafset(s) ==
    /\ pc[s] = "leafset"
    /\ lfs' = [lfs EXCEPT ![s] = leafBlk]
    /\ rest' = [rest EXCEPT ![s] = @ \cap LeafsetOf(leafBlk)]
    /\ pc' = [pc EXCEPT ![s] = "replay"]
    /\ UNCHANGED <<handler, leaves, init, ctx, got>>

(* Leaves are read and sent chunk by chunk; a chunk here is one leaf. *)
Replay(s) ==
    /\ pc[s] = "replay"
    /\ ctx[s] = "open"
    /\ \E i \in rest[s] :
         /\ rest' = [rest EXCEPT ![s] = @ \ {i}]
         /\ got' = [got EXCEPT ![s] = @ \cup Mine(s, FetchLeaves({i}))]
    /\ UNCHANGED <<handler, pc, lfs, leaves, init, ctx>>

SendReplayComplete(s) ==
    /\ pc[s] = "replay"
    /\ rest[s] = {}
    /\ ctx[s] = "open"
    /\ pc' = [pc EXCEPT ![s] = "live"]
    /\ UNCHANGED <<handler, lfs, leaves, init, rest, ctx, got>>

(* Send fails on a cancelled context, the live loop selects on it, and a   *)
(* read of the coin store may fail.  The deferred close(quit) comes first, *)
Leave(s) ==
    /\ \/ pc[s] \in {"replay", "live"} /\ ctx[s] = "cancelled"
       \/ pc[s] \in {"heights", "leafset", "replay"}
    /\ pc' = [pc EXCEPT ![s] = "leaving"]
    /\ rest' = [rest EXCEPT ![s] = {}]
    /\ UNCHANGED <<handler, lfs, leaves, init, ctx, got>>

Quit(s) == pc[s] \in {"leaving", "done"}

(* ... then unregisterStreamer, under s.mtx. *)
Unregister(s) ==
    /\ pc[s] = "leaving"
    /\ mtx = Free
    /\ pc' = [pc EXCEPT ![s] = "done"]
    /\ UNCHANGED <<handler, lfs, leaves, init, rest, ctx, got>>

(* The client closes its subscription. *)
Cancel(s) ==
    /\ pc[s] # "done" /\ ctx[s] = "open"
    /\ ctx' = [ctx EXCEPT ![s] = "cancelled"]
    /\ UNCHANGED <<handler, pc, lfs, leaves, init, rest, got>>
-----------------------------------------------------------------------------
(* utxoHandler, on goroutine n *)

Called(n, c) ==
    /\ npc[n] = "idle"
    /\ npc' = [npc EXCEPT ![n] = "store"]
    /\ call' = [call EXCEPT ![n] = c]
    /\ UNCHANGED <<queue, at, out>>

(* One transaction records the unconfirmed outputs and drops confirmed ones.  *)
(* Its error is not looked at: after a failed write the streamers are told    *)
(* all the same.                                                              *)
Unconfirmed(c) == {u[2] : u \in {v \in c.utxos : v[1] = 0}}
Confirmed(c)   == {u[2] : u \in {v \in c.utxos : v[1] > 0}}
StoreUnconfirmed(n) ==
    /\ npc[n] = "store"
    /\ \/ pool' = (pool \cup Unconfirmed(call[n])) \ Confirmed(call[n])
       \/ "dbfail" \in Hazards /\ pool' = pool
    /\ npc' = [npc EXCEPT ![n] = "lock"]
    /\ UNCHANGED <<sources, mtx, call, queue, at, out, subVars>>

(* Mutant: a streamer is registered only once its replay is over. *)
RegisteredLive == {s \in Subs : pc[s] = "live"}

(* Then s.mtx is taken and the registered streamers are gone through. *)
Registered == {s \in Subs : pc[s] \notin {"new", "done"}}
Lock(n) ==
    /\ npc[n] = "lock"
    /\ mtx = Free
    /\ mtx' = n
    /\ queue' = [queue EXCEPT ![n] = Registered]
    /\ npc' = [npc EXCEPT ![n] = "pick"]
    /\ UNCHANGED <<sources, pool, call, at, out, subVars>>

(* Mutant: no greeting. *)
PickUngreeted(n, s) ==
    /\ npc[n] = "pick"
    /\ s \in queue[n]
    /\ queue' = [queue EXCEPT ![n] = @ \ {s}]
    /\ at' = [at EXCEPT ![n] = {s}]
    /\ npc' = [npc EXCEPT ![n] = "send"]
    /\ out' = [out EXCEPT ![n] = Mine(s, call[n].utxos)]
    /\ UNCHANGED <<sources, pool, mtx, call, subVars>>

(* notify begins on one more streamer: the greeting comes first. *)
Pick(n, s) ==
    /\ npc[n] = "pick"
    /\ s \in queue[n]
    /\ queue' = [queue EXCEPT ![n] = @ \ {s}]
    /\ at' = [at EXCEPT ![n] = {s}]
    /\ npc' = [npc EXCEPT ![n] = IF init[s] THEN "send" ELSE "greet"]
    /\ out' = [out EXCEPT ![n] = Mine(s, call[n].utxos)]
    /\ UNCHANGED <<sources, pool, mtx, call, subVars>>

(* The empty message meets the streamer's receive. *)
Greet(n, s) ==
    /\ npc[n] = "greet" /\ s \in at[n]
    /\ pc[s] = "live"
    /\ init' = [init EXCEPT ![s] = TRUE]
    /\ npc' = [npc EXCEPT ![n] = "send"]
    /\ UNCHANGED <<sources, pool, mtx, call, queue, at, out,
                   pc, lfs, leaves, rest, ctx, got>>

(* Mutant: quit is closed after unregisterStreamer. *)
SkipUnregistered(n, s) ==
    /\ npc[n] = "greet" /\ s \in at[n]
    /\ pc[s] = "done"
    /\ npc' = [npc EXCEPT ![n] = "pick"]
    /\ UNCHANGED <<sources, pool, mtx, call, queue, at, out, subVars>>

(* A streamer that has left before its greeting is skipped. *)
SkipGone(n, s) ==
    /\ npc[n] = "greet" /\ s \in at[n]
    /\ Quit(s)
    /\ npc' = [npc EXCEPT ![n] = "pick"]
    /\ UNCHANGED <<sources, pool, mtx, call, queue, at, out, subVars>>

(* One output meets the streamer's receive and is forwarded to the client,  *)
(* unless that has cancelled.                                               *)
Deliver(n, s, u) ==
    /\ npc[n] \in {"send", "added"} /\ s \in at[n]
    /\ u \in out[n]
    /\ pc[s] = "live"
    /\ out' = [out EXCEPT ![n] = @ \ {u}]
    /\ got' = [got EXCEPT ![s] = IF ctx[s] = "open" THEN @ \cup {u} ELSE @]
    /\ UNCHANGED <<sources, pool, mtx, npc, call, queue, at,
                   pc, lfs, leaves, init, rest, ctx>>

(* Mutant: a plain send, with no case for the quit channel. *)
NeverDrop(n, s, u) == FALSE

(* ... or the quit channel is closed and the output is dropped. *)
Drop(n, s, u) ==
    /\ npc[n] \in {"send", "added"} /\ s \in at[n]
    /\ u \in out[n]
    /\ Quit(s)
    /\ out' = [out EXCEPT ![n] = @ \ {u}]
    /\ UNCHANGED <<sources, pool, mtx, npc, call, queue, at, subVars>>

(* Mutant: leaf indices of unconfirmed outputs are remembered too. *)
SentAll(n) == {u[1] : u \in call[n].utxos}

(* The leaves sent are remembered; with a new leafset, those it adds that   *)
(* were not sent are read from the store.  A failed read sends none.        *)
Sent(n) == {u[1] : u \in {v \in call[n].utxos : v[1] > 0}}
Added(n, s) == (LeafsetOf(call[n].lfs) \ LeafsetOf(lfs[s])) \ (leaves[s] \cup Sent(n))
Remember(n, s) ==
    /\ npc[n] = "send" /\ s \in at[n]
    /\ out[n] = {}
    /\ leaves' = [leaves EXCEPT ![s] = @ \cup Sent(n)]
    /\ IF call[n].lfs = None
         THEN npc' = [npc EXCEPT ![n] = "pick"] /\ out' = out
         ELSE /\ npc' = [npc EXCEPT ![n] = "added"]
              /\ \/ out' = [out EXCEPT ![n] = Mine(s, FetchLeaves(Added(n, s)))]
                 \/ "dbfail" \in Hazards /\ out' = out
    /\ UNCHANGED <<sources, pool, mtx, call, queue, at,
                   pc, lfs, init, rest, ctx, got>>

(* Mutant: the streamer keeps its old leafset. *)
AdvanceLeavesOnly(n, s) ==
    /\ npc[n] = "added" /\ s \in at[n]
    /\ out[n] = {}
    /\ leaves' = [leaves EXCEPT ![s] = {}]
    /\ npc' = [npc EXCEPT ![n] = "pick"]
    /\ UNCHANGED <<sources, pool, mtx, call, queue, at, out,
                   pc, lfs, init, rest, ctx, got>>

Advance(n, s) ==
    /\ npc[n] = "added" /\ s \in at[n]
    /\ out[n] = {}
    /\ lfs' = [lfs EXCEPT ![s] = call[n].lfs]
    /\ leaves' = [leaves EXCEPT ![s] = {}]
    /\ npc' = [npc EXCEPT ![n] = "pick"]
    /\ UNCHANGED <<sources, pool, mtx, call, queue, at, out,
                   pc, init, rest, ctx, got>>

(* Every streamer has been notified: the mutexes are released. *)
Unlock(n) ==
    /\ npc[n] = "pick"
    /\ queue[n] = {}
    /\ mtx' = Free
    /\ npc' = [npc EXCEPT ![n] = "idle"]
    /\ call' = [call EXCEPT ![n] = NoCall]
    /\ at' = [at EXCEPT ![n] = {}]
    /\ LET last == n = "mweb" /\ round = "stored"
       IN  /\ round' = IF last THEN "idle" ELSE round
           /\ target' = IF last THEN Base ELSE target
           /\ callbacksMtx' = IF last \/ n = "mempool" THEN Free ELSE callbacksMtx
    /\ UNCHANGED <<storeVars, todo, rounds, txs, pool, queue, out, subVars>>
-----------------------------------------------------------------------------
(* mwebHandler *)

(* Mutant: a reorg goes straight to its own branch. *)
BeginRoundAnywhere(b) ==
    /\ round = "idle" /\ rounds < MaxRounds
    /\ leavesAt' = [h \in Heights |-> IF h <= Height(b) THEN Len(Outs[Path[b][h]]) ELSE 0]
    /\ target' = b
    /\ todo' = Unspent[b] \ LeafsetOf(leafBlk)
    /\ round' = "prepared"
    /\ rounds' = rounds + 1
    /\ UNCHANGED <<leafBlk, leafMap, txs, pool, mtxVars, notifyVars, subVars>>

(* A round towards block b: leaf counts of its branch are stored, at all    *)
(* heights or only its own, and the leaves the stored leafset lacks are worked out.  *)
BeginRound(b) ==
    /\ round = "idle" /\ rounds < MaxRounds
    /\ leafBlk # None => Comparable(leafBlk, b)
    /\ \E known \in {{Height(b)}, 1..Height(b)} :
         leavesAt' = [h \in Heights |-> IF h \in known THEN Len(Outs[Path[b][h]]) ELSE 0]
    /\ target' = b
    /\ todo' = Unspent[b] \ LeafsetOf(leafBlk)
    /\ round' = "prepared"
    /\ rounds' = rounds + 1
    /\ UNCHANGED <<leafBlk, leafMap, txs, pool, mtxVars, notifyVars, subVars>>

LockCallbacks ==
    /\ round = "prepared"
    /\ callbacksMtx = Free
    /\ callbacksMtx' = "mweb"
    /\ round' = "fetch"
    /\ UNCHANGED <<storeVars, target, todo, rounds, txs, pool, mtx, notifyVars, subVars>>

(* A batch of coins is stored (here one coin), then the callback is made. *)
PutCoins(i) ==
    /\ round = "fetch"
    /\ i \in todo
    /\ leafMap' = [leafMap EXCEPT ![i] = Outs[target][i]]
    /\ todo' = todo \ {i}
    /\ Called("mweb", [utxos |-> {<<i, Outs[target][i]>>}, lfs |-> None])
    /\ UNCHANGED <<leafBlk, leavesAt, round, target, rounds, txs, pool, mtxVars, subVars>>

(* The leafset is stored, the spent coins removed, then the callback is made. *)
PutLeafsetAndPurge ==
    /\ round = "fetch"
    /\ todo = {}
    /\ leafBlk' = target
    /\ leafMap' = [i \in Leaves |-> IF i \in LeafsetOf(leafBlk) \ Unspent[target]
                                      THEN None ELSE leafMap[i]]
    /\ round' = "stored"
    /\ Called("mweb", [utxos |-> {}, lfs |-> target])
    /\ UNCHANGED <<leavesAt, target, todo, rounds, txs, pool, mtxVars, subVars>>

(* A query fails and the round is abandoned; what it stored stays. *)
QueryFails ==
    /\ round = "fetch" /\ npc["mweb"] = "idle" /\ todo # {}
    /\ round' = "idle" /\ target' = Base /\ todo' = {}
    /\ callbacksMtx' = Free
    /\ UNCHANGED <<storeVars, rounds, txs, pool, mtx, notifyVars, subVars>>

(* A deep reorg: no callback tells the streamers. *)
PurgeCoins ==
    /\ "purge" \in Hazards
    /\ round = "idle"
    /\ leafBlk # None
    /\ leafBlk' = None
    /\ leafMap' = [i \in Leaves |-> None]
    /\ leavesAt' = [h \in Heights |-> 0]
    /\ UNCHANGED <<roundVars, pool, mtxVars, notifyVars, subVars>>

(* Mutant: notifyMwebUtxos takes no mutex. *)
RelayedUnlocked(o) ==
    /\ txs < MaxTxs
    /\ txs' = txs + 1
    /\ Called("mempool", [utxos |-> {<<0, o>>}, lfs |-> None])
    /\ UNCHANGED <<storeVars, round, target, todo, rounds, pool, mtxVars, subVars>>

(* An unconfirmed output that a peer relayed: notifyMwebUtxos. *)
Relayed(o) ==
    /\ txs < MaxTxs
    /\ callbacksMtx = Free
    /\ callbacksMtx' = "mempool"
    /\ txs' = txs + 1
    /\ Called("mempool", [utxos |-> {<<0, o>>}, lfs |-> None])
    /\ UNCHANGED <<storeVars, round, target, todo, rounds, pool, mtx, subVars>>

(* ... or that a client of this server sent. *)
Broadcast(o) ==
    /\ txs < MaxTxs
    /\ txs' = txs + 1
    /\ Called("broadcast", [utxos |-> {<<0, o>>}, lfs |-> None])
    /\ UNCHANGED <<storeVars, round, target, todo, rounds, pool, mtxVars, subVars>>
-----------------------------------------------------------------------------
Utxos(s) ==
    \/ Register(s) \/ ReadHeights(s) \/ ReadLeafset(s) \/ Replay(s)
    \/ SendReplayComplete(s) \/ Leave(s) \/ Unregister(s)

Notify(n, s) ==
    \/ Pick(n, s) \/ Greet(n, s) \/ SkipGone(n, s) \/ Remember(n, s) \/ Advance(n, s)
    \/ \E u \in Pairs : Deliver(n, s, u) \/ Drop(n, s, u)

UtxoHandler(n) ==
    StoreUnconfirmed(n) \/ Lock(n) \/ Unlock(n) \/ \E s \in Subs : Notify(n, s)

MwebRound ==
    LockCallbacks \/ (\E i \in Leaves : PutCoins(i)) \/ PutLeafsetAndPurge \/ QueryFails

Next ==
    \/ \E s \in Subs : Utxos(s) \/ Cancel(s)
    \/ \E n \in Notifiers : UtxoHandler(n)
    \/ (\E b \in Blocks : BeginRound(b)) \/ MwebRound \/ PurgeCoins
    \/ \E o \in Relays : Relayed(o) \/ Broadcast(o)

Spec == Init /\ [][Next]_vars

(* Goroutines are scheduled, clients take what they are sent, and a mutex   *)
(* does not starve a goroutine that wants it (Go's do not).                 *)
Fairness ==
    /\ \A s \in Subs : WF_vars(Utxos(s)) /\ SF_vars(Register(s)) /\ SF_vars(Unregister(s))
    /\ \A n \in Notifiers : WF_vars(UtxoHandler(n)) /\ SF_vars(Lock(n))

FairSpec == Spec /\ Fairness
-----------------------------------------------------------------------------
(* Properties *)

TypeOK ==
    /\ leafBlk \in Blocks \cup {None}
    /\ leafMap \in [Leaves -> Output \cup {None}]
    /\ leavesAt \in [Heights -> Nat]
    /\ round \in {"idle", "prepared", "fetch", "stored"}
    /\ target \in Blocks /\ todo \subseteq Leaves
    /\ rounds \in Nat /\ txs \in Nat /\ pool \subseteq Output
    /\ callbacksMtx \in {Free, "mweb", "mempool"} /\ mtx \in {Free} \cup Notifiers
    /\ npc \in [Notifiers -> {"idle", "store", "lock", "pick", "greet", "send", "added"}]
    /\ call \in [Notifiers -> Calls]
    /\ queue \in [Notifiers -> SUBSET Subs] /\ at \in [Notifiers -> SUBSET Subs]
    /\ out \in [Notifiers -> SUBSET Pairs]
    /\ pc \in [Subs -> {"new", "heights", "leafset", "replay", "live", "leaving", "done"}]
    /\ lfs \in [Subs -> Blocks \cup {None}]
    /\ leaves \in [Subs -> SUBSET Leaves] /\ init \in [Subs -> BOOLEAN]
    /\ rest \in [Subs -> SUBSET Leaves] /\ ctx \in [Subs -> {"open", "cancelled"}]
    /\ got \in [Subs -> SUBSET Pairs]

(* A notification touches lfs and leaves of a streamer only once the Utxos  *)
(* call has left them for good, and alone: the two goroutines share these   *)
(* fields with no lock of their own (the greeting and s.mtx are the lock).  *)
Touches(n, s) == npc[n] \in {"send", "added"} /\ s \in at[n]
FieldsGuarded ==
    \A n \in Notifiers, s \in Subs : Touches(n, s) =>
        /\ pc[s] \in {"live", "leaving", "done"}
        /\ \A m \in Notifiers : Touches(m, s) => m = n

(* A live streamer has the stored leafset, except in the middle of the      *)
(* notification that brings it there: the diffs it is sent next start from  *)
(* the right place.  (registerStreamer before GetLeafset, u.lfs = lfs.)     *)
FollowsStore ==
    \A s \in Subs :
        pc[s] = "live" /\ leafBlk # None /\ round # "stored" => lfs[s] = leafBlk

(* No output is ever missed: whatever the client's registration, the        *)
(* rounds, the failed rounds and the reorgs do to one another, a live       *)
(* client has been sent every output it owns, from its height on, that is   *)
(* unspent in the stored leafset, as the leaf it is there.                  *)
Due(s, b) == {i \in LeafsetOf(b) : Outs[b][i] \in Owned[s] /\ MinedAt(b, i) >= From[s]}
NothingMissed ==
    \A s \in Subs :
        pc[s] = "live" /\ ctx[s] = "open" /\ round # "stored" =>
            \A i \in Due(s, leafBlk) : <<i, Outs[leafBlk][i]>> \in got[s]

(* When the replay-complete message is sent, everything due in the snapshot *)
(* has been streamed, or has left the unspent set since.  Said of the       *)
(* message by mwebd.proto, and the clients' cursors depend on it.           *)
ReplayTruth ==
    \A s \in Subs :
        pc[s] = "replay" /\ rest[s] = {} =>
            \A i \in Due(s, lfs[s]) :
                \/ <<i, Outs[lfs[s]][i]>> \in got[s]
                \/ leafBlk # None /\ i \notin LeafsetOf(leafBlk)

(* As long as the database can be written ("dbfail" is not among the        *)
(* hazards: utxoHandler does not look at the error of walletdb.Update),     *)
(* while streamers are told of a relayed output, it is in the mweb-mempool  *)
(* bucket: Create can spend what a client was just told it received.  A     *)
(* confirmation that mwebHandler reports meanwhile must not take it out.    *)
UnconfirmedKnown ==
    npc["mempool"] \notin {"idle", "store"} => Unconfirmed(call["mempool"]) \subseteq pool

(* The coin store that the streamers read behaves as ChainView allows. *)
CV == INSTANCE ChainView WITH
        view <- leafBlk,
        utxos <- {leafMap[i] : i \in {j \in LeafsetOf(leafBlk) : leafMap[j] # None}}
StoreIsChainView == CV!Spec

(* A cancelled Utxos call returns, and s.mtx is never held for good: neither *)
(* a client that is replaying, nor one that leaves between two sends, nor a  *)
(* round that waits for callbacksMtx keeps a notifier at it.                 *)
CancelEnds   == \A s \in Subs : ctx[s] = "cancelled" ~> pc[s] = "done"
MtxReleased  == mtx # Free ~> mtx = Free
=============================================================================
