--------------------------- MODULE UtxoStreamProofs ---------------------------
(***************************************************************************)
(* Theorems about UtxoStream, for any set of subscribers, any tree and any *)
(* bounds.                                                                 *)
(*                                                                         *)
(* The first invariant says who holds which mutex (MtxHeld, CbHeld), which *)
(* arguments a notification can have (CallShape), that only streamers that *)
(* went live are greeted (Greeted), and that a streamer whose leafset is   *)
(* not the stored one is still to be told (Informed).                      *)
(*                                                                         *)
(* The second follows each output due to a client: it is still to be       *)
(* replayed, or on its way in a notification, or among the leaves that the *)
(* notification of the next leafset will read from the store, or sent.     *)
(***************************************************************************)
EXTENDS TLAPS, UtxoStream, BlockTreeProofs

Inside(n)  == npc[n] \in {"pick", "greet", "send", "added"}
Settled(s) == pc[s] \in {"live", "leaving", "done"}

MtxHeld == \A n \in Notifiers : Inside(n) <=> mtx = n

CbHeld ==
    /\ npc["mempool"] # "idle" <=> callbacksMtx = "mempool"
    /\ round \in {"fetch", "stored"} <=> callbacksMtx = "mweb"
    /\ npc["mweb"] # "idle" => round \in {"fetch", "stored"}

CallShape ==
    /\ \A n \in {"mempool", "broadcast"} :
         call[n].lfs = None /\ \A u \in call[n].utxos : u[1] = 0
    /\ round = "stored" =>
         npc["mweb"] # "idle" /\ leafBlk # None /\ call["mweb"].lfs = leafBlk
    /\ round # "stored" => call["mweb"].lfs = None

AtShape ==
    \A n \in Notifiers :
        /\ npc[n] \in {"greet", "send", "added"} => \E s \in Subs : at[n] = {s}
        /\ npc[n] = "added" => call[n].lfs # None

Greeted ==
    /\ \A s \in Subs : init[s] => Settled(s)
    /\ \A n \in Notifiers, s \in Subs : Touches(n, s) => Settled(s)

(* The notification of the stored leafset has still to come to s. *)
Pending(s) ==
    /\ round = "stored"
    /\ \/ npc["mweb"] \in {"store", "lock"}
       \/ s \in queue["mweb"]
       \/ npc["mweb"] \in {"greet", "send", "added"} /\ s \in at["mweb"]

Informed ==
    \A s \in Subs :
        pc[s] \in {"replay", "live"} /\ leafBlk # None /\ lfs[s] # leafBlk => Pending(s)

(* What is still to be fetched is in the target's leafset. *)
TodoShape == todo \subseteq Unspent[target] /\ (round = "stored" => todo = {})

(* Unless the write may have failed, a relayed output is in the bucket. *)
Recorded == "dbfail" \notin Hazards => UnconfirmedKnown

IInv == TypeOK /\ MtxHeld /\ CbHeld /\ CallShape /\ AtShape /\ Greeted
        /\ Informed /\ TodoShape /\ Recorded
-------------------------------------------------------------------------------
(* Frames: a Utxos call changes nothing of the handler's, and nothing but a *)
(* Utxos call or a notification changes a streamer.                         *)

LEMMA UtxosFrame ==
    ASSUME NEW s \in Subs, Utxos(s) \/ Cancel(s)
    PROVE  UNCHANGED handler
BY DEF Utxos, Register, ReadHeights, ReadLeafset, Replay, SendReplayComplete,
       Leave, Unregister, Cancel

Source ==
    \/ (\E b \in Blocks : BeginRound(b)) \/ MwebRound \/ PurgeCoins
    \/ \E o \in Relays : Relayed(o) \/ Broadcast(o)

LEMMA SourceFrame == ASSUME Source PROVE UNCHANGED <<subVars, mtx, pool, queue, at, out>>
BY DEF Source, BeginRound, MwebRound, LockCallbacks, PutCoins, PutLeafsetAndPurge,
       QueryFails, PurgeCoins, Relayed, Broadcast, Called, mtxVars, notifyVars

LEMMA NextCases ==
    ASSUME Next
    PROVE  \/ \E s \in Subs : Utxos(s) \/ Cancel(s)
           \/ \E n \in Notifiers : UtxoHandler(n)
           \/ Source
BY DEF Next, Source
-------------------------------------------------------------------------------
(* Types *)

Steps == {"idle", "store", "lock", "pick", "greet", "send", "added"}

LEMMA LeavesNat == Leaves \subseteq Nat \ {0}
BY OutsType DEF Leaves

LEMMA UtxosType ==
    ASSUME TypeOK, NEW s \in Subs, Utxos(s) \/ Cancel(s)
    PROVE  TypeOK'
<1>1. UNCHANGED handler
  BY UtxosFrame
<1>2. /\ pc' \in [Subs -> {"new", "heights", "leafset", "replay", "live", "leaving", "done"}]
      /\ ctx' \in [Subs -> {"open", "cancelled"}]
      /\ leaves' = leaves /\ init' = init
  BY DEF Utxos, Register, ReadHeights, ReadLeafset, Replay, SendReplayComplete,
         Leave, Unregister, Cancel, TypeOK
<1>3. lfs' \in [Subs -> Blocks \cup {None}] /\ rest' \in [Subs -> SUBSET Leaves]
  <2>1. CASE ReadHeights(s)
    <3>1. {i \in Leaves : i > CountBelow(From[s])} \in SUBSET Leaves
      OBVIOUS
    <3> QED
      BY <2>1, <3>1 DEF ReadHeights, TypeOK
  <2>2. CASE ReadLeafset(s)
    BY <2>2 DEF ReadLeafset, TypeOK
  <2>3. CASE Replay(s)
    BY <2>3 DEF Replay, TypeOK
  <2>4. CASE Leave(s)
    BY <2>4 DEF Leave, TypeOK
  <2>5. CASE ~(ReadHeights(s) \/ ReadLeafset(s) \/ Replay(s) \/ Leave(s))
    BY <2>5 DEF Utxos, Register, SendReplayComplete, Unregister, Cancel, TypeOK
  <2> QED
    BY <2>1, <2>2, <2>3, <2>4, <2>5
<1>4. got' \in [Subs -> SUBSET Pairs]
  <2>1. CASE Replay(s)
    <3>1. PICK i \in rest[s] : got' = [got EXCEPT ![s] = @ \cup Mine(s, FetchLeaves({i}))]
      BY <2>1 DEF Replay
    <3>2. Mine(s, FetchLeaves({i})) \subseteq Pairs
      BY DEF TypeOK, Mine, FetchLeaves, Pairs
    <3> QED
      BY <3>1, <3>2 DEF TypeOK
  <2>2. CASE ~Replay(s)
    BY <2>2 DEF Utxos, Register, ReadHeights, ReadLeafset, SendReplayComplete,
                Leave, Unregister, Cancel, TypeOK
  <2> QED
    BY <2>1, <2>2
<1> QED
  BY <1>1, <1>2, <1>3, <1>4
     DEF TypeOK, handler, sources, storeVars, roundVars, notifyVars

LEMMA HandlerType ==
    ASSUME TypeOK, NEW n \in Notifiers, UtxoHandler(n)
    PROVE  TypeOK'
<1>1. CASE StoreUnconfirmed(n)
  <2>1. call[n].utxos \subseteq Pairs
    BY DEF TypeOK, Calls
  <2>2. Unconfirmed(call[n]) \subseteq Output
    BY <2>1 DEF Unconfirmed, Pairs
  <2> QED
    BY <1>1, <2>2 DEF StoreUnconfirmed, TypeOK, sources, storeVars, roundVars, subVars
<1>2. CASE Lock(n)
  BY <1>2 DEF Lock, Registered, TypeOK, sources, storeVars, roundVars, subVars
<1>3. CASE Unlock(n)
  <2>1. NoCall \in Calls
    BY DEF NoCall, Calls
  <2>2. call' \in [Notifiers -> Calls]
    BY <1>3, <2>1 DEF Unlock, TypeOK
  <2> QED
    BY <1>3, <2>2, BaseType DEF Unlock, TypeOK, storeVars, subVars
<1>4. ASSUME NEW s \in Subs, Notify(n, s) PROVE TypeOK'
  <2>1. CASE Pick(n, s)
    <3>1. Mine(s, call[n].utxos) \subseteq Pairs
      BY DEF Mine, TypeOK, Calls
    <3> QED
      BY <2>1, <3>1 DEF Pick, TypeOK, sources, storeVars, roundVars, subVars
  <2>2. CASE Greet(n, s) \/ SkipGone(n, s)
    BY <2>2 DEF Greet, SkipGone, TypeOK, sources, storeVars, roundVars, subVars
  <2>3. CASE Remember(n, s)
    <3>1. Sent(n) \subseteq Leaves
      <4>1. call[n].utxos \subseteq Pairs
        BY DEF TypeOK, Calls
      <4> QED
        BY <4>1, LeavesNat DEF Sent, Pairs
    <3>2. leaves' \in [Subs -> SUBSET Leaves]
      BY <2>3, <3>1 DEF Remember, TypeOK
    <3>3. Mine(s, FetchLeaves(Added(n, s))) \subseteq Pairs
      <4>1. Added(n, s) \subseteq Leaves
        BY OutsType DEF Added, LeafsetOf, TypeOK, Calls
      <4> QED
        BY <4>1 DEF Mine, FetchLeaves, Pairs, TypeOK
    <3>4. out' \in [Notifiers -> SUBSET Pairs] /\ npc' \in [Notifiers -> Steps]
      BY <2>3, <3>3 DEF Remember, TypeOK, Steps
    <3> QED
      BY <2>3, <3>2, <3>4 DEF Remember, TypeOK, Steps, sources, storeVars, roundVars
  <2>4. CASE Advance(n, s)
    <3>1. call[n].lfs \in Blocks \cup {None}
      BY DEF TypeOK, Calls
    <3> QED
      BY <2>4, <3>1 DEF Advance, TypeOK, sources, storeVars, roundVars
  <2>5. ASSUME NEW u \in Pairs, Deliver(n, s, u) \/ Drop(n, s, u) PROVE TypeOK'
    BY <2>5 DEF Deliver, Drop, TypeOK, sources, storeVars, roundVars, subVars
  <2> QED
    BY <1>4, <2>1, <2>2, <2>3, <2>4, <2>5 DEF Notify
<1> QED
  BY <1>1, <1>2, <1>3, <1>4 DEF UtxoHandler

LEMMA CalledType ==
    ASSUME TypeOK, NEW n \in Notifiers, NEW c \in Calls, Called(n, c)
    PROVE  call' \in [Notifiers -> Calls] /\ npc' \in [Notifiers -> Steps]
BY DEF Called, TypeOK, Steps

LEMMA SourceType ==
    ASSUME TypeOK, TodoShape, Source
    PROVE  TypeOK'
<1>1. UNCHANGED <<subVars, mtx, pool, queue, at, out>>
  BY SourceFrame
<1>2. ASSUME NEW b \in Blocks, BeginRound(b) PROVE TypeOK'
  <2>1. leavesAt' \in [Heights -> Nat]
    <3>1. PICK known \in {{Height(b)}, 1..Height(b)} :
            leavesAt' = [h \in Heights |-> IF h \in known THEN Len(Outs[Path[b][h]]) ELSE 0]
      BY <1>2 DEF BeginRound
    <3>2. \A h \in known : h \in 1..Height(b)
      BY HeightType
    <3>3. \A h \in known : Len(Outs[Path[b][h]]) \in Nat
      BY <3>2, AtType, OutsType
    <3> QED
      BY <3>1, <3>3
  <2>2. todo' \subseteq Leaves
    BY <1>2, OutsType DEF BeginRound
  <2> QED
    BY <1>1, <1>2, <2>1, <2>2 DEF BeginRound, TypeOK, subVars, mtxVars, notifyVars
<1>3. CASE MwebRound
  <2>1. CASE LockCallbacks \/ QueryFails
    BY <1>1, <2>1, BaseType
       DEF LockCallbacks, QueryFails, TypeOK, subVars, storeVars, notifyVars
  <2>2. ASSUME NEW i \in Leaves, PutCoins(i) PROVE TypeOK'
    <3>1. Outs[target][i] \in Output
      BY <2>2, OutsType DEF PutCoins, TodoShape, TypeOK
    <3>2. [utxos |-> {<<i, Outs[target][i]>>}, lfs |-> None] \in Calls
      BY <3>1 DEF Calls, Pairs
    <3>3. call' \in [Notifiers -> Calls] /\ npc' \in [Notifiers -> Steps]
      BY <2>2, <3>2, CalledType DEF PutCoins, Notifiers
    <3>4. leafMap' \in [Leaves -> Output \cup {None}]
      BY <2>2, <3>1 DEF PutCoins, TypeOK
    <3> QED
      BY <1>1, <2>2, <3>3, <3>4 DEF PutCoins, TypeOK, Steps, subVars, mtxVars
  <2>3. CASE PutLeafsetAndPurge
    <3>1. [utxos |-> {}, lfs |-> target] \in Calls
      BY DEF Calls, TypeOK
    <3>2. call' \in [Notifiers -> Calls] /\ npc' \in [Notifiers -> Steps]
      BY <2>3, <3>1, CalledType DEF PutLeafsetAndPurge, Notifiers
    <3>3. leafMap' \in [Leaves -> Output \cup {None}]
      BY <2>3 DEF PutLeafsetAndPurge, TypeOK
    <3> QED
      BY <1>1, <2>3, <3>2, <3>3 DEF PutLeafsetAndPurge, TypeOK, Steps, subVars, mtxVars
  <2> QED
    BY <1>3, <2>1, <2>2, <2>3 DEF MwebRound
<1>4. CASE PurgeCoins
  BY <1>1, <1>4 DEF PurgeCoins, TypeOK, subVars, roundVars, mtxVars, notifyVars
<1>5. ASSUME NEW o \in Relays, Relayed(o) \/ Broadcast(o) PROVE TypeOK'
  <2>1. [utxos |-> {<<0, o>>}, lfs |-> None] \in Calls
    BY UtxoStreamAssumption DEF Calls, Pairs
  <2>2. call' \in [Notifiers -> Calls] /\ npc' \in [Notifiers -> Steps]
    BY <1>5, <2>1, CalledType DEF Relayed, Broadcast, Notifiers
  <2>3. callbacksMtx' \in {Free, "mweb", "mempool"} /\ txs' \in Nat
    BY <1>5 DEF Relayed, Broadcast, TypeOK, mtxVars
  <2>4. UNCHANGED <<storeVars, round, target, todo, rounds>>
    BY <1>5 DEF Relayed, Broadcast
  <2> QED
    BY <1>1, <2>2, <2>3, <2>4 DEF TypeOK, Steps, subVars, storeVars
<1> QED
  BY <1>2, <1>3, <1>4, <1>5 DEF Source

LEMMA TypeStep == ASSUME TypeOK, TodoShape, [Next]_vars PROVE TypeOK'
<1>1. CASE Next
  BY <1>1, NextCases, UtxosType, HandlerType, SourceType
<1>2. CASE UNCHANGED vars
  BY <1>2 DEF TypeOK, vars, handler, sources, storeVars, roundVars, notifyVars, subVars
<1> QED
  BY <1>1, <1>2
-------------------------------------------------------------------------------
(* Mutexes and arguments *)

LEMMA MtxHeldStep == ASSUME TypeOK, MtxHeld, [Next]_vars PROVE MtxHeld'
<1>1. ASSUME NEW s \in Subs, Utxos(s) \/ Cancel(s) PROVE MtxHeld'
  BY <1>1, UtxosFrame DEF MtxHeld, Inside, handler, notifyVars
<1>2. ASSUME NEW n \in Notifiers, UtxoHandler(n) PROVE MtxHeld'
  <2>1. CASE StoreUnconfirmed(n)
    BY <2>1 DEF StoreUnconfirmed, MtxHeld, Inside, TypeOK
  <2>2. CASE Lock(n)
    BY <2>2 DEF Lock, MtxHeld, Inside, TypeOK, Notifiers, Free
  <2>3. CASE Unlock(n)
    BY <2>3 DEF Unlock, MtxHeld, Inside, TypeOK, Notifiers, Free
  <2>4. ASSUME NEW s \in Subs, Notify(n, s) PROVE MtxHeld'
    <3>1. Inside(n) /\ Inside(n)' /\ mtx' = mtx /\ \A m \in Notifiers \ {n} : npc'[m] = npc[m]
      BY <2>4 DEF Notify, Pick, Greet, SkipGone, Remember, Advance, Deliver, Drop, Inside, TypeOK
    <3> QED
      BY <3>1 DEF MtxHeld, Inside
  <2> QED
    BY <1>2, <2>1, <2>2, <2>3, <2>4 DEF UtxoHandler
<1>3. CASE Source
  <2>1. mtx' = mtx
    BY <1>3, SourceFrame
  <2>2. \A n \in Notifiers : npc'[n] = npc[n] \/ (npc[n] = "idle" /\ npc'[n] = "store")
    BY <1>3 DEF Source, BeginRound, MwebRound, LockCallbacks, PutCoins, PutLeafsetAndPurge,
                QueryFails, PurgeCoins, Relayed, Broadcast, Called, notifyVars, TypeOK
  <2> QED
    BY <2>1, <2>2 DEF MtxHeld, Inside
<1>4. CASE UNCHANGED vars
  BY <1>4 DEF MtxHeld, Inside, vars, handler, notifyVars
<1> QED
  BY <1>1, <1>2, <1>3, <1>4, NextCases

LEMMA CbHeldStep == ASSUME TypeOK, CbHeld, CallShape, [Next]_vars PROVE CbHeld'
<1>1. ASSUME NEW s \in Subs, Utxos(s) \/ Cancel(s) PROVE CbHeld'
  BY <1>1, UtxosFrame DEF CbHeld, handler, sources, roundVars, notifyVars
<1>2. ASSUME NEW n \in Notifiers, UtxoHandler(n) PROVE CbHeld'
  <2>1. CASE StoreUnconfirmed(n) \/ Lock(n) \/ \E s \in Subs : Notify(n, s)
    <3>1. /\ UNCHANGED sources
          /\ npc[n] # "idle" /\ npc'[n] # "idle" /\ \A m \in Notifiers \ {n} : npc'[m] = npc[m]
      BY <2>1 DEF StoreUnconfirmed, Lock, Notify, Pick, Greet, SkipGone, Remember, Advance,
                  Deliver, Drop, TypeOK
    <3> QED
      BY <3>1 DEF CbHeld, sources, roundVars, Notifiers
  <2>2. CASE Unlock(n)
    BY <2>2 DEF Unlock, CbHeld, TypeOK, Notifiers, Free
  <2> QED
    BY <1>2, <2>1, <2>2 DEF UtxoHandler
<1>3. CASE Source
  <2>1. ASSUME NEW b \in Blocks, BeginRound(b) PROVE CbHeld'
    BY <2>1 DEF BeginRound, CbHeld, mtxVars, notifyVars
  <2>2. CASE LockCallbacks
    BY <2>2 DEF LockCallbacks, CbHeld, notifyVars, Free
  <2>3. ASSUME NEW i \in Leaves, PutCoins(i) PROVE CbHeld'
    BY <2>3 DEF PutCoins, Called, CbHeld, mtxVars, TypeOK, Notifiers
  <2>4. CASE PutLeafsetAndPurge
    BY <2>4 DEF PutLeafsetAndPurge, Called, CbHeld, mtxVars, TypeOK, Notifiers
  <2>5. CASE QueryFails
    BY <2>5 DEF QueryFails, CbHeld, notifyVars, Free
  <2>6. CASE PurgeCoins
    BY <2>6 DEF PurgeCoins, CbHeld, mtxVars, roundVars, notifyVars
  <2>7. ASSUME NEW o \in Relays, Relayed(o) \/ Broadcast(o) PROVE CbHeld'
    BY <2>7 DEF Relayed, Broadcast, Called, CbHeld, mtxVars, TypeOK, Notifiers, Free
  <2> QED
    BY <1>3, <2>1, <2>2, <2>3, <2>4, <2>5, <2>6, <2>7 DEF Source, MwebRound
<1>4. CASE UNCHANGED vars
  BY <1>4 DEF CbHeld, vars, handler, sources, roundVars, notifyVars
<1> QED
  BY <1>1, <1>2, <1>3, <1>4, NextCases

LEMMA TodoShapeStep == ASSUME TypeOK, TodoShape, CallShape, [Next]_vars PROVE TodoShape'
<1>1. ASSUME NEW s \in Subs, Utxos(s) \/ Cancel(s) PROVE TodoShape'
  BY <1>1, UtxosFrame DEF TodoShape, handler, sources, roundVars
<1>2. ASSUME NEW n \in Notifiers, UtxoHandler(n) PROVE TodoShape'
  <2>1. CASE UNCHANGED sources
    BY <2>1 DEF TodoShape, sources, roundVars
  <2>2. CASE Unlock(n)
    BY <2>2 DEF Unlock, TodoShape
  <2> QED
    BY <1>2, <2>1, <2>2 DEF UtxoHandler, StoreUnconfirmed, Lock, Notify, Pick, Greet,
                            SkipGone, Remember, Advance, Deliver, Drop
<1>3. CASE Source
  <2>1. ASSUME NEW b \in Blocks, BeginRound(b) PROVE TodoShape'
    BY <2>1 DEF BeginRound, TodoShape
  <2>2. ASSUME NEW i \in Leaves, PutCoins(i) PROVE TodoShape'
    BY <2>2 DEF PutCoins, TodoShape
  <2>3. CASE PutLeafsetAndPurge \/ LockCallbacks \/ QueryFails
    BY <2>3 DEF PutLeafsetAndPurge, LockCallbacks, QueryFails, TodoShape
  <2>4. CASE UNCHANGED <<round, target, todo>>
    BY <2>4 DEF TodoShape
  <2> QED
    BY <1>3, <2>1, <2>2, <2>3, <2>4 DEF Source, MwebRound, PurgeCoins, Relayed, Broadcast, roundVars
<1>4. CASE UNCHANGED vars
  BY <1>4 DEF TodoShape, vars, handler, sources, roundVars
<1> QED
  BY <1>1, <1>2, <1>3, <1>4, NextCases

LEMMA CallShapeStep ==
    ASSUME TypeOK, CbHeld, CallShape, [Next]_vars
    PROVE  CallShape'
<1>1. ASSUME NEW s \in Subs, Utxos(s) \/ Cancel(s) PROVE CallShape'
  BY <1>1, UtxosFrame DEF CallShape, handler, sources, storeVars, roundVars, notifyVars
<1>2. ASSUME NEW n \in Notifiers, UtxoHandler(n) PROVE CallShape'
  <2>1. CASE StoreUnconfirmed(n) \/ Lock(n) \/ \E s \in Subs : Notify(n, s)
    <3>1. /\ UNCHANGED <<sources, call>>
          /\ npc[n] # "idle" /\ npc'[n] # "idle" /\ \A m \in Notifiers \ {n} : npc'[m] = npc[m]
      BY <2>1 DEF StoreUnconfirmed, Lock, Notify, Pick, Greet, SkipGone, Remember, Advance,
                  Deliver, Drop, TypeOK
    <3> QED
      BY <3>1 DEF CallShape, sources, storeVars, roundVars, Notifiers
  <2>2. CASE Unlock(n)
    <3>1. call' = [call EXCEPT ![n] = NoCall] /\ leafBlk' = leafBlk
      BY <2>2 DEF Unlock, storeVars
    <3>2. \A m \in {"mempool", "broadcast"} :
            call'[m].lfs = None /\ \A u \in call'[m].utxos : u[1] = 0
      BY <3>1 DEF CallShape, TypeOK, Notifiers, NoCall
    <3>3. CASE n = "mweb"
      BY <2>2, <3>1, <3>2, <3>3 DEF Unlock, CallShape, TypeOK, Notifiers, NoCall
    <3>4. CASE n # "mweb"
      BY <2>2, <3>1, <3>2, <3>4 DEF Unlock, CallShape, TypeOK, Notifiers
    <3> QED
      BY <3>3, <3>4
  <2> QED
    BY <1>2, <2>1, <2>2 DEF UtxoHandler
<1>3. CASE Source
  <2>1. CASE \E b \in Blocks : BeginRound(b)
    BY <2>1 DEF BeginRound, CallShape, notifyVars
  <2>2. CASE LockCallbacks \/ QueryFails
    BY <2>2 DEF LockCallbacks, QueryFails, CallShape, storeVars, notifyVars
  <2>3. ASSUME NEW i \in Leaves, PutCoins(i) PROVE CallShape'
    <3>1. call' = [call EXCEPT !["mweb"] = [utxos |-> {<<i, Outs[target][i]>>}, lfs |-> None]]
      BY <2>3 DEF PutCoins, Called
    <3>2. call'["mweb"].lfs = None /\ \A m \in Notifiers \ {"mweb"} : call'[m] = call[m]
      BY <3>1 DEF TypeOK, Notifiers
    <3>3. round = "fetch" /\ round' = "fetch"
      BY <2>3 DEF PutCoins
    <3> QED
      BY <3>2, <3>3 DEF CallShape, Notifiers
  <2>4. CASE PutLeafsetAndPurge
    <3>1. call' = [call EXCEPT !["mweb"] = [utxos |-> {}, lfs |-> target]]
          /\ npc' = [npc EXCEPT !["mweb"] = "store"]
      BY <2>4 DEF PutLeafsetAndPurge, Called
    <3>2. /\ call'["mweb"].lfs = target /\ npc'["mweb"] = "store"
          /\ \A m \in Notifiers \ {"mweb"} : call'[m] = call[m]
      BY <3>1 DEF TypeOK, Notifiers
    <3>3. round' = "stored" /\ leafBlk' = target /\ target # None
      BY <2>4, BaseType DEF PutLeafsetAndPurge, TypeOK
    <3> QED
      BY <3>2, <3>3 DEF CallShape, Notifiers
  <2>5. CASE PurgeCoins
    BY <2>5 DEF PurgeCoins, CallShape, roundVars, notifyVars
  <2>6. ASSUME NEW o \in Relays, NEW n \in {"mempool", "broadcast"},
               Called(n, [utxos |-> {<<0, o>>}, lfs |-> None]),
               UNCHANGED <<storeVars, round>>
        PROVE  CallShape'
    <3>1. call' = [call EXCEPT ![n] = [utxos |-> {<<0, o>>}, lfs |-> None]]
          /\ npc' = [npc EXCEPT ![n] = "store"]
      BY <2>6 DEF Called
    <3>2. /\ call'[n].lfs = None /\ \A u \in call'[n].utxos : u[1] = 0
          /\ \A m \in Notifiers \ {n} : call'[m] = call[m] /\ npc'[m] = npc[m]
      BY <3>1 DEF TypeOK, Notifiers
    <3> QED
      BY <2>6, <3>2 DEF CallShape, Notifiers, storeVars
  <2> QED
    BY <1>3, <2>1, <2>2, <2>3, <2>4, <2>5, <2>6 DEF Source, MwebRound, Relayed, Broadcast
<1>4. CASE UNCHANGED vars
  BY <1>4 DEF CallShape, vars, handler, sources, storeVars, roundVars, notifyVars
<1> QED
  BY <1>1, <1>2, <1>3, <1>4, NextCases

LEMMA AtShapeStep ==
    ASSUME TypeOK, AtShape, [Next]_vars
    PROVE  AtShape'
<1>1. ASSUME NEW s \in Subs, Utxos(s) \/ Cancel(s) PROVE AtShape'
  BY <1>1, UtxosFrame DEF AtShape, handler, notifyVars
<1>2. ASSUME NEW n \in Notifiers, UtxoHandler(n) PROVE AtShape'
  <2>1. CASE StoreUnconfirmed(n)
    BY <2>1 DEF StoreUnconfirmed, AtShape, TypeOK
  <2>2. CASE Lock(n)
    BY <2>2 DEF Lock, AtShape, TypeOK
  <2>3. CASE Unlock(n)
    BY <2>3 DEF Unlock, AtShape, TypeOK
  <2>4. ASSUME NEW s \in Subs, Pick(n, s) PROVE AtShape'
    BY <2>4 DEF Pick, AtShape, TypeOK
  <2>5. ASSUME NEW s \in Subs, Greet(n, s) \/ SkipGone(n, s) PROVE AtShape'
    BY <2>5 DEF Greet, SkipGone, AtShape, TypeOK
  <2>6. ASSUME NEW s \in Subs, Remember(n, s) PROVE AtShape'
    BY <2>6 DEF Remember, AtShape, TypeOK
  <2>7. ASSUME NEW s \in Subs, Advance(n, s) PROVE AtShape'
    BY <2>7 DEF Advance, AtShape, TypeOK
  <2>8. ASSUME NEW s \in Subs, NEW u \in Pairs, Deliver(n, s, u) \/ Drop(n, s, u) PROVE AtShape'
    BY <2>8 DEF Deliver, Drop, AtShape
  <2> QED
    BY <1>2, <2>1, <2>2, <2>3, <2>4, <2>5, <2>6, <2>7, <2>8 DEF UtxoHandler, Notify
<1>3. CASE Source
  <2>1. at' = at
    BY <1>3, SourceFrame
  <2>2. \A n \in Notifiers : \/ npc'[n] = npc[n] /\ call'[n] = call[n]
                             \/ npc'[n] = "store"
    BY <1>3 DEF Source, BeginRound, MwebRound, LockCallbacks, PutCoins, PutLeafsetAndPurge,
                QueryFails, PurgeCoins, Relayed, Broadcast, Called, notifyVars, TypeOK
  <2> QED
    BY <2>1, <2>2 DEF AtShape
<1>4. CASE UNCHANGED vars
  BY <1>4 DEF AtShape, vars, handler, notifyVars
<1> QED
  BY <1>1, <1>2, <1>3, <1>4, NextCases
-------------------------------------------------------------------------------
(* Streamers *)

(* A Utxos call that has gone live does not come back, and one that is not *)
(* live yet has not been notified.                                         *)
LEMMA GreetedStep ==
    ASSUME TypeOK, AtShape, Greeted, [Next]_vars
    PROVE  Greeted'
<1>1. ASSUME NEW s \in Subs, Utxos(s) \/ Cancel(s) PROVE Greeted'
  <2>1. UNCHANGED <<npc, at, init>>
    BY <1>1, UtxosFrame
       DEF handler, notifyVars, Utxos, Register, ReadHeights, ReadLeafset, Replay,
           SendReplayComplete, Leave, Unregister, Cancel
  <2>2. \A t \in Subs : Settled(t) => Settled(t)'
    BY <1>1 DEF Settled, TypeOK, Utxos, Register, ReadHeights, ReadLeafset, Replay,
                SendReplayComplete, Leave, Unregister, Cancel
  <2> QED
    BY <2>1, <2>2 DEF Greeted, Touches
<1>2. ASSUME NEW n \in Notifiers, UtxoHandler(n) PROVE Greeted'
  <2>1. CASE StoreUnconfirmed(n)
    BY <2>1 DEF StoreUnconfirmed, Greeted, Touches, Settled, TypeOK, subVars
  <2>2. CASE Lock(n)
    BY <2>2 DEF Lock, Greeted, Touches, Settled, TypeOK, subVars
  <2>3. CASE Unlock(n)
    BY <2>3 DEF Unlock, Greeted, Touches, Settled, TypeOK, subVars
  <2>4. ASSUME NEW s \in Subs, Pick(n, s) PROVE Greeted'
    BY <2>4 DEF Pick, Greeted, Touches, Settled, TypeOK, subVars
  <2>5. ASSUME NEW s \in Subs, Greet(n, s) PROVE Greeted'
    <3>1. at[n] = {s}
      BY <2>5 DEF Greet, AtShape
    <3> QED
      BY <2>5, <3>1 DEF Greet, Greeted, Touches, Settled, TypeOK
  <2>6. ASSUME NEW s \in Subs, SkipGone(n, s) PROVE Greeted'
    BY <2>6 DEF SkipGone, Greeted, Touches, Settled, TypeOK, subVars
  <2>7. ASSUME NEW s \in Subs, Remember(n, s) \/ Advance(n, s) PROVE Greeted'
    BY <2>7 DEF Remember, Advance, Greeted, Touches, Settled, TypeOK
  <2>8. ASSUME NEW s \in Subs, NEW u \in Pairs, Deliver(n, s, u) \/ Drop(n, s, u) PROVE Greeted'
    BY <2>8 DEF Deliver, Drop, Greeted, Touches, Settled, subVars
  <2> QED
    BY <1>2, <2>1, <2>2, <2>3, <2>4, <2>5, <2>6, <2>7, <2>8 DEF UtxoHandler, Notify
<1>3. CASE Source
  <2>1. UNCHANGED <<subVars, at>>
    BY <1>3, SourceFrame
  <2>2. \A n \in Notifiers : npc'[n] = npc[n] \/ npc'[n] = "store"
    BY <1>3 DEF Source, BeginRound, MwebRound, LockCallbacks, PutCoins, PutLeafsetAndPurge,
                QueryFails, PurgeCoins, Relayed, Broadcast, Called, notifyVars, TypeOK
  <2> QED
    BY <2>1, <2>2 DEF Greeted, Touches, Settled, subVars
<1>4. CASE UNCHANGED vars
  BY <1>4 DEF Greeted, Touches, Settled, vars, handler, notifyVars, subVars
<1> QED
  BY <1>1, <1>2, <1>3, <1>4, NextCases

LEMMA InformedStep ==
    ASSUME TypeOK, MtxHeld, CbHeld, CallShape, AtShape, Informed, [Next]_vars
    PROVE  Informed'
<1>1. ASSUME NEW s \in Subs, Utxos(s) \/ Cancel(s) PROVE Informed'
  <2>1. UNCHANGED <<leafBlk, round, npc, queue, at>>
    BY <1>1, UtxosFrame DEF handler, sources, storeVars, roundVars, notifyVars
  <2>2. CASE ReadLeafset(s)
    BY <2>1, <2>2 DEF ReadLeafset, Informed, Pending, TypeOK
  <2>3. CASE ~ReadLeafset(s)
    <3>1. /\ lfs' = lfs
          /\ \A t \in Subs : pc'[t] \in {"replay", "live"} => pc[t] \in {"replay", "live"}
      BY <1>1, <2>3 DEF TypeOK, Utxos, Register, ReadHeights, Replay, SendReplayComplete,
                        Leave, Unregister, Cancel
    <3> QED
      BY <2>1, <3>1 DEF Informed, Pending
  <2> QED
    BY <2>2, <2>3
<1>2. ASSUME NEW n \in Notifiers, UtxoHandler(n) PROVE Informed'
  <2>1. CASE StoreUnconfirmed(n)
    BY <2>1 DEF StoreUnconfirmed, Informed, Pending, TypeOK, sources, storeVars,
                roundVars, subVars
  <2>2. CASE Lock(n)
    BY <2>2 DEF Lock, Registered, Informed, Pending, TypeOK, sources, storeVars,
                roundVars, subVars
  <2>3. CASE Unlock(n)
    BY <2>3 DEF Unlock, Informed, Pending, TypeOK, storeVars, subVars
  <2>4. ASSUME NEW s \in Subs, Pick(n, s) PROVE Informed'
    BY <2>4 DEF Pick, Informed, Pending, TypeOK, sources, storeVars, roundVars, subVars
  <2>5. ASSUME NEW s \in Subs, Greet(n, s) PROVE Informed'
    BY <2>5 DEF Greet, Informed, Pending, TypeOK, sources, storeVars, roundVars
  <2>6. ASSUME NEW s \in Subs, SkipGone(n, s) PROVE Informed'
    <3>1. at[n] = {s} /\ pc[s] \notin {"replay", "live"}
      BY <2>6 DEF SkipGone, Quit, AtShape
    <3> QED
      BY <2>6, <3>1 DEF SkipGone, Informed, Pending, TypeOK, sources, storeVars,
                        roundVars, subVars
  <2>7. ASSUME NEW s \in Subs, Remember(n, s) PROVE Informed'
    <3>1. CASE n = "mweb" /\ round = "stored"
      BY <2>7, <3>1 DEF Remember, Informed, Pending, CallShape, TypeOK, sources, storeVars,
                        roundVars
    <3>2. CASE n # "mweb" \/ round # "stored"
      <4>1. UNCHANGED <<leafBlk, round, queue, at, pc, lfs>>
        BY <2>7 DEF Remember, sources, storeVars, roundVars
      <4>2. n # "mweb" => npc'["mweb"] = npc["mweb"]
        BY <2>7 DEF Remember, TypeOK, Notifiers
      <4> QED
        BY <3>2, <4>1, <4>2 DEF Informed, Pending
    <3> QED
      BY <3>1, <3>2
  <2>8. ASSUME NEW s \in Subs, Advance(n, s) PROVE Informed'
    <3>1. n = "mweb" /\ round = "stored" /\ call[n].lfs = leafBlk /\ at[n] = {s}
      BY <2>8 DEF Advance, AtShape, CallShape, Notifiers
    <3> QED
      BY <2>8, <3>1 DEF Advance, Informed, Pending, TypeOK, sources, storeVars, roundVars
  <2>9. ASSUME NEW s \in Subs, NEW u \in Pairs, Deliver(n, s, u) \/ Drop(n, s, u) PROVE Informed'
    BY <2>9 DEF Deliver, Drop, Informed, Pending, sources, storeVars, roundVars, subVars
  <2> QED
    BY <1>2, <2>1, <2>2, <2>3, <2>4, <2>5, <2>6, <2>7, <2>8, <2>9 DEF UtxoHandler, Notify
<1>3. CASE Source
  <2>1. UNCHANGED <<subVars, queue, at>>
    BY <1>3, SourceFrame
  <2>2. CASE PutLeafsetAndPurge
    BY <2>1, <2>2 DEF PutLeafsetAndPurge, Called, Informed, Pending, TypeOK, Notifiers
  <2>3. CASE PurgeCoins
    BY <2>1, <2>3 DEF PurgeCoins, Informed
  <2>4. CASE ~PutLeafsetAndPurge /\ ~PurgeCoins
    <3>1. leafBlk' = leafBlk /\ (round = "stored" => round' = "stored" /\ npc'["mweb"] = npc["mweb"])
      BY <1>3, <2>4 DEF Source, BeginRound, MwebRound, LockCallbacks, PutCoins, QueryFails,
                        Relayed, Broadcast, Called, storeVars, notifyVars, TypeOK, Notifiers
    <3> QED
      BY <2>1, <3>1 DEF Informed, Pending, subVars
  <2> QED
    BY <2>2, <2>3, <2>4
<1>4. CASE UNCHANGED vars
  BY <1>4 DEF Informed, Pending, vars, handler, sources, storeVars, roundVars, notifyVars, subVars
<1> QED
  BY <1>1, <1>2, <1>3, <1>4, NextCases

LEMMA UnconfirmedKnownStep ==
    ASSUME TypeOK, CbHeld, CallShape, "dbfail" \notin Hazards, UnconfirmedKnown,
           [Next]_vars
    PROVE  UnconfirmedKnown'
<1>1. ASSUME NEW s \in Subs, Utxos(s) \/ Cancel(s) PROVE UnconfirmedKnown'
  BY <1>1, UtxosFrame DEF UnconfirmedKnown, Unconfirmed, handler, notifyVars
<1>2. ASSUME NEW n \in Notifiers, UtxoHandler(n) PROVE UnconfirmedKnown'
  <2>1. CASE StoreUnconfirmed(n)
    <3>1. CASE n = "mweb"
      <4>1. npc["mempool"] = "idle"
        BY <2>1, <3>1 DEF StoreUnconfirmed, CbHeld
      <4> QED
        BY <2>1, <3>1, <4>1 DEF StoreUnconfirmed, UnconfirmedKnown, TypeOK, Notifiers
    <3>2. CASE n # "mweb"
      <4>1. Confirmed(call[n]) = {}
        BY <3>2 DEF Confirmed, CallShape, Notifiers
      <4>2. pool' = pool \cup Unconfirmed(call[n]) /\ call' = call
        BY <2>1, <4>1 DEF StoreUnconfirmed
      <4> QED
        BY <2>1, <4>2 DEF StoreUnconfirmed, UnconfirmedKnown, TypeOK, Notifiers
    <3> QED
      BY <3>1, <3>2
  <2>2. CASE Lock(n)
    BY <2>2 DEF Lock, UnconfirmedKnown, TypeOK, Notifiers
  <2>3. CASE Unlock(n)
    BY <2>3 DEF Unlock, UnconfirmedKnown, TypeOK, Notifiers
  <2>4. ASSUME NEW s \in Subs, Notify(n, s) PROVE UnconfirmedKnown'
    <3>1. /\ UNCHANGED <<call, pool>> /\ npc[n] \notin {"idle", "store"}
          /\ \A m \in Notifiers \ {n} : npc'[m] = npc[m]
      BY <2>4 DEF Notify, Pick, Greet, SkipGone, Remember, Advance, Deliver, Drop, TypeOK
    <3> QED
      BY <3>1 DEF UnconfirmedKnown, Notifiers
  <2> QED
    BY <1>2, <2>1, <2>2, <2>3, <2>4 DEF UtxoHandler
<1>3. CASE Source
  <2>1. pool' = pool
    BY <1>3, SourceFrame
  <2>2. npc'["mempool"] \in {npc["mempool"], "store"}
    BY <1>3 DEF Source, BeginRound, MwebRound, LockCallbacks, PutCoins, PutLeafsetAndPurge,
                QueryFails, PurgeCoins, Relayed, Broadcast, Called, notifyVars, TypeOK, Notifiers
  <2>3. npc'["mempool"] # "store" => call'["mempool"] = call["mempool"]
    BY <1>3 DEF Source, BeginRound, MwebRound, LockCallbacks, PutCoins, PutLeafsetAndPurge,
                QueryFails, PurgeCoins, Relayed, Broadcast, Called, notifyVars, TypeOK, Notifiers
  <2> QED
    BY <2>1, <2>2, <2>3 DEF UnconfirmedKnown
<1>4. CASE UNCHANGED vars
  BY <1>4 DEF UnconfirmedKnown, vars, handler, notifyVars
<1> QED
  BY <1>1, <1>2, <1>3, <1>4, NextCases
-------------------------------------------------------------------------------
LEMMA InitInv == Init => IInv
<1> SUFFICES ASSUME Init PROVE IInv
  OBVIOUS
<1>1. TypeOK
  <2>1. leafMap \in [Leaves -> Output \cup {None}]
    BY OutsType, BaseType DEF Init, LeafsetOf
  <2>2. leavesAt \in [Heights -> Nat]
    BY OutsType, BaseType DEF Init
  <2>3. NoCall \in Calls
    BY DEF NoCall, Calls
  <2> QED
    BY <2>1, <2>2, <2>3, BaseType DEF Init, TypeOK
<1>2. MtxHeld /\ CbHeld /\ AtShape
  BY DEF Init, MtxHeld, Inside, CbHeld, AtShape, Notifiers, Free
<1>3. CallShape /\ TodoShape
  BY DEF Init, CallShape, NoCall, Notifiers, TodoShape
<1>4. Greeted /\ Informed /\ Recorded
  BY DEF Init, Greeted, Touches, Informed, Recorded, UnconfirmedKnown, Notifiers
<1> QED
  BY <1>1, <1>2, <1>3, <1>4 DEF IInv

LEMMA Inductive == IInv /\ [Next]_vars => IInv'
<1> SUFFICES ASSUME IInv, [Next]_vars PROVE IInv'
  OBVIOUS
<1>1. Recorded'
  BY UnconfirmedKnownStep DEF IInv, Recorded
<1> QED
  BY <1>1, TypeStep, MtxHeldStep, CbHeldStep, CallShapeStep, AtShapeStep, GreetedStep,
     InformedStep, TodoShapeStep DEF IInv

LEMMA AlwaysIInv == Spec => []IInv
BY InitInv, Inductive, PTL DEF Spec

(* The variables keep their types. *)
THEOREM TypeCorrect == Spec => []TypeOK
<1>1. IInv => TypeOK
  BY DEF IInv
<1> QED
  BY <1>1, AlwaysIInv, PTL

(* The unlocked fields of a streamer are never touched by two goroutines:   *)
(* the greeting orders Utxos before notify, s.mtx orders the notifications. *)
THEOREM FieldsAreGuarded == Spec => []FieldsGuarded
<1>1. IInv => FieldsGuarded
  BY DEF IInv, FieldsGuarded, Greeted, MtxHeld, Touches, Inside, Settled
<1> QED
  BY <1>1, AlwaysIInv, PTL

(* Every live streamer has the stored leafset, or is about to be told of it. *)
THEOREM StreamersFollow == Spec => []FollowsStore
<1>1. IInv => FollowsStore
  BY DEF IInv, FollowsStore, Informed, Pending
<1> QED
  BY <1>1, AlwaysIInv, PTL

(* What a client is told it received unconfirmed, the server can look up, *)
(* as long as the database can be written: utxoHandler does not look at   *)
(* the error of its walletdb.Update, and tells the clients all the same.  *)
THEOREM RelayedIsKnown ==
    ASSUME "dbfail" \notin Hazards
    PROVE  Spec => []UnconfirmedKnown
<1>1. IInv => UnconfirmedKnown
  BY DEF IInv, Recorded
<1> QED
  BY <1>1, AlwaysIInv, PTL

-------------------------------------------------------------------------------
(* No output is missed *)

Fetching == round \in {"prepared", "fetch"}

(* The coin store has the leaves of its leafset, and of the target all but *)
(* those still to be fetched.                                              *)
Stored ==
    /\ \A i \in LeafsetOf(leafBlk) : leafMap[i] = Outs[leafBlk][i]
    /\ round = "stored" => target = leafBlk
    /\ Fetching =>
         /\ leafBlk # None => Comparable(leafBlk, target)
         /\ todo \cap LeafsetOf(leafBlk) = {}
         /\ \A i \in Unspent[target] \ (LeafsetOf(leafBlk) \cup todo) :
                leafMap[i] = Outs[target][i]

(* The leaf counts stored are those of one branch, which the leafset's     *)
(* block is on or above.                                                   *)
CountsOf(t) ==
    \A h \in Heights : leavesAt[h] # 0 =>
        h <= Height(t) /\ leavesAt[h] = Len(Outs[Path[t][h]])
Counted ==
    \E t \in Blocks : /\ CountsOf(t)
                      /\ leafBlk # None => Comparable(leafBlk, t)
                      /\ Fetching => t = target

CallCoins ==
    /\ npc["mweb"] = "idle" => call["mweb"].utxos = {}
    /\ \A u \in call["mweb"].utxos :
         /\ round = "fetch"
         /\ u[1] \in Unspent[target] \ todo
         /\ u = <<u[1], Outs[target][u[1]]>>

Missing(s, b) == {i \in Due(s, b) : <<i, Outs[b][i]>> \notin got[s]}
(* A client that is served: no read of the store fails it.                 *)
Listening(s)  == pc[s] = "live" /\ ctx[s] = "open" /\ "dbfail" \notin Hazards
Skipped(s)    == leaves[s] \cup LeafsetOf(lfs[s])

OutShape ==
    \A n \in Notifiers, s \in Subs : s \in at[n] =>
        /\ npc[n] = "greet" => out[n] = Mine(s, call[n].utxos)
        /\ npc[n] = "send" /\ Listening(s) => Mine(s, call[n].utxos) \subseteq out[n] \cup got[s]
        /\ npc[n] \in {"greet", "send", "added"} => s \notin queue[n]

Unread == \A s \in Subs : ~Settled(s) => leaves[s] = {}

(* mwebHandler's notification has still to come to s, or is sending to it;  *)
(* the leaves of the round's block that it will bring s, and those of the   *)
(* new leafset that it is bringing s from the store.                        *)
Coming(s) ==
    \/ npc["mweb"] \in {"store", "lock"}
    \/ s \in queue["mweb"]
    \/ npc["mweb"] = "greet" /\ s \in at["mweb"]
Sending(s) == npc["mweb"] = "send" /\ s \in at["mweb"]
Coin(i)    == <<i, Outs[target][i]>>
Awaited(s) == {i \in Leaves : \/ Coming(s) /\ Coin(i) \in call["mweb"].utxos
                              \/ Sending(s) /\ Coin(i) \in out["mweb"]}
Arriving(s) == {i \in Leaves : /\ npc["mweb"] = "added" /\ s \in at["mweb"]
                               /\ <<i, Outs[leafBlk][i]>> \in out["mweb"]}

RestRight(s) ==
    pc[s] = "leafset" =>
        /\ Due(s, leafBlk) \subseteq rest[s]
        /\ Fetching => Due(s, target) \ todo \subseteq rest[s] \cup Awaited(s)

ReplayRight(s) ==
    pc[s] = "replay" =>
        /\ Missing(s, lfs[s]) \cap LeafsetOf(leafBlk) \subseteq rest[s]
        /\ lfs[s] # None /\ leafBlk # None =>
              Comparable(lfs[s], leafBlk) \/ Unspent[leafBlk] = {}
        /\ lfs[s] # None /\ leafBlk = None /\ Fetching =>
              Unspent[target] \ todo \subseteq Awaited(s)

LiveRight(s) ==
    Listening(s) =>
        /\ round # "stored" => Missing(s, leafBlk) = {}
        /\ Fetching => (Missing(s, target) \ todo) \cap Skipped(s) \subseteq Awaited(s)
        /\ round = "stored" =>
              \A i \in Missing(s, leafBlk) :
                  i \in Arriving(s) \/ (i \notin Skipped(s) /\ (Coming(s) \/ Sending(s)))

Right(s) == RestRight(s) /\ ReplayRight(s) /\ LiveRight(s)

Covered == /\ Stored /\ Counted /\ CallCoins /\ OutShape /\ Unread
           /\ \A s \in Subs : Right(s)
-------------------------------------------------------------------------------
(* What is due, and from which leaf on *)

(* What is due of two comparable blocks is due of both, as one output. *)
LEMMA DueAgree ==
    ASSUME NEW s \in Subs, NEW a \in Blocks, NEW b \in Blocks, Comparable(a, b),
           NEW i \in Due(s, a), i \in Unspent[b]
    PROVE  i \in Due(s, b) /\ Outs[a][i] = Outs[b][i]
<1>1. i \in 1..Len(Outs[a]) /\ i \in 1..Len(Outs[b])
  BY OutsType, BaseType DEF Due, LeafsetOf
<1>2. Outs[a][i] = Outs[b][i]
  BY <1>1, OutsSame
<1>3. MinedAt(a, i) = MinedAt(b, i)
  BY <1>1, MinedAgree
<1> QED
  BY <1>2, <1>3, BaseType DEF Due, LeafsetOf

LEMMA SelfComparable == \A b \in Blocks : Comparable(b, b)
BY OnTip, HeightType DEF Comparable, On

(* Nothing due lies below the leaf the replay starts from. *)
LEMMA NothingBelow ==
    ASSUME TypeOK, NEW s \in Subs, NEW t \in Blocks, CountsOf(t),
           NEW b \in Blocks, Comparable(b, t), NEW i \in Due(s, b)
    PROVE  i > CountBelow(From[s])
<1> DEFINE known == {k \in Heights : k < From[s] /\ leavesAt[k] > 0}
<1>1. i \in 1..Len(Outs[b]) /\ i \in Nat /\ i >= 1 /\ From[s] \in Nat
  BY OutsType, BaseType, UtxoStreamAssumption DEF Due, LeafsetOf
<1>2. CASE known = {}
  BY <1>1, <1>2 DEF CountBelow
<1>3. CASE known # {}
  <2>1. known \in SUBSET Nat /\ known \subseteq 0..From[s]
    BY <1>1, HeightType DEF Heights
  <2>2. IsFiniteSet(known)
    <3>1. IsFiniteSet(0..From[s])
      BY <1>1, FS_Interval
    <3> QED
      BY <2>1, <3>1, FS_Subset
  <2>3. \E m \in known : \A j \in known : j <= m
    BY <1>3, <2>1, <2>2, HighestExists
  <2>4. PICK k \in known : CountBelow(From[s]) = leavesAt[k]
    BY <1>3, <2>3 DEF CountBelow
  <2>5. k \in Nat /\ k >= 1 /\ k <= Height(t) /\ leavesAt[k] = Len(Outs[Path[t][k]])
    <3>1. k \in Heights /\ leavesAt[k] > 0 /\ leavesAt[k] # 0
      BY <2>4
    <3>2. k \in Nat /\ k >= 1
      BY <3>1, HeightType DEF Heights
    <3> QED
      BY <3>1, <3>2 DEF CountsOf
  <2>6. MinedIn(b, i, MinedAt(b, i)) /\ MinedAt(b, i) >= From[s]
    BY <1>1, MinedExists DEF Due
  <2>7. k < MinedAt(b, i) /\ MinedAt(b, i) \in 1..Height(b)
    BY <1>1, <2>4, <2>5, <2>6 DEF MinedIn
  <2> DEFINE h == MinedAt(b, i) - 1
  <2>8. h \in 1..Height(b) /\ k \in 1..h /\ k \in 1..Height(b) /\ Len(Outs[Path[b][h]]) < i
    BY <2>5, <2>6, <2>7, HeightType DEF MinedIn
  <2>9. Path[b][k] = Path[t][k]
    BY <2>5, <2>8, PathAgree
  <2>10. /\ Len(Outs[Path[b][k]]) \in Nat /\ Len(Outs[Path[b][h]]) \in Nat
         /\ Len(Outs[Path[b][k]]) <= Len(Outs[Path[b][h]])
    BY <2>8, LeavesGrow
  <2> QED
    BY <1>1, <2>4, <2>5, <2>8, <2>9, <2>10
<1> QED
  BY <1>2, <1>3
-------------------------------------------------------------------------------
(* The coin store and what mwebHandler says of it *)

LEMMA HandlerFrame ==
    ASSUME NEW n \in Notifiers, UtxoHandler(n)
    PROVE  /\ UNCHANGED <<storeVars, todo>>
           /\ \/ UNCHANGED <<round, target>>
              \/ n = "mweb" /\ Unlock(n) /\ round = "stored" /\ round' = "idle"
BY DEF UtxoHandler, StoreUnconfirmed, Lock, Unlock, Notify, Pick, Greet, SkipGone, Remember,
       Advance, Deliver, Drop, sources, roundVars

LEMMA StoredStep ==
    ASSUME TypeOK, CbHeld, TodoShape, Stored, [Next]_vars
    PROVE  Stored'
<1>1. CASE UNCHANGED <<leafBlk, leafMap, round, target, todo>>
  BY <1>1 DEF Stored, Fetching
<1>2. ASSUME NEW n \in Notifiers, UtxoHandler(n) PROVE Stored'
  BY <1>2, HandlerFrame DEF Stored, Fetching, storeVars
<1>3. ASSUME NEW b \in Blocks, BeginRound(b) PROVE Stored'
  BY <1>3 DEF BeginRound, Stored, Fetching
<1>4. ASSUME NEW i \in Leaves, PutCoins(i) PROVE Stored'
  <2>1. /\ UNCHANGED <<leafBlk, round, target>> /\ todo' = todo \ {i} /\ i \in todo
        /\ Fetching /\ round = "fetch"
        /\ leafMap' = [leafMap EXCEPT ![i] = Outs[target][i]]
    BY <1>4 DEF PutCoins, Fetching
  <2>2. leafMap'[i] = Outs[target][i] /\ \A j \in Leaves \ {i} : leafMap'[j] = leafMap[j]
    BY <2>1 DEF TypeOK
  <2>3. LeafsetOf(leafBlk) \subseteq Leaves \ {i} /\ Unspent[target] \subseteq Leaves
    BY <2>1, OutsType DEF Stored, LeafsetOf, TypeOK
  <2> QED
    BY <2>1, <2>2, <2>3 DEF Stored, Fetching
<1>5. CASE LockCallbacks
  BY <1>5 DEF LockCallbacks, Stored, Fetching, storeVars
<1>6. CASE QueryFails
  BY <1>6 DEF QueryFails, Stored, Fetching, storeVars
<1>7. CASE PutLeafsetAndPurge
  <2>1. /\ leafBlk' = target /\ target' = target /\ round' = "stored" /\ todo = {} /\ Fetching
        /\ leafMap' = [i \in Leaves |-> IF i \in LeafsetOf(leafBlk) \ Unspent[target]
                                           THEN None ELSE leafMap[i]]
    BY <1>7 DEF PutLeafsetAndPurge, Fetching
  <2>2. Unspent[target] \subseteq 1..Len(Outs[target]) /\ Unspent[target] \subseteq Leaves
        /\ target \in Blocks /\ target # None
    BY OutsType, BaseType DEF TypeOK
  <2>3. ASSUME NEW i \in Unspent[target] PROVE leafMap[i] = Outs[target][i]
    <3>1. CASE i \in LeafsetOf(leafBlk)
      <4>1. leafBlk \in Blocks /\ i \in 1..Len(Outs[leafBlk]) /\ Comparable(leafBlk, target)
        BY <2>1, <3>1, OutsType DEF LeafsetOf, TypeOK, Stored
      <4> QED
        BY <2>2, <3>1, <4>1, OutsSame DEF Stored
    <3>2. CASE i \notin LeafsetOf(leafBlk)
      BY <2>1, <3>2 DEF Stored
    <3> QED
      BY <3>1, <3>2
  <2>4. \A i \in Unspent[target] : leafMap'[i] = Outs[target][i]
    BY <2>1, <2>2, <2>3
  <2> QED
    BY <2>1, <2>2, <2>4 DEF Stored, Fetching, LeafsetOf
<1>8. CASE PurgeCoins
  BY <1>8 DEF PurgeCoins, Stored, Fetching, LeafsetOf, roundVars
<1> QED
  BY <1>1, <1>2, <1>3, <1>4, <1>5, <1>6, <1>7, <1>8, NextCases, UtxosFrame
     DEF Source, MwebRound, Relayed, Broadcast, vars, handler, sources, storeVars, roundVars

LEMMA CountedStep ==
    ASSUME TypeOK, CbHeld, Counted, [Next]_vars
    PROVE  Counted'
<1>1. CASE UNCHANGED <<leafBlk, leavesAt, round, target>>
  BY <1>1 DEF Counted, CountsOf, Fetching
<1>2. ASSUME NEW n \in Notifiers, UtxoHandler(n) PROVE Counted'
  BY <1>2, HandlerFrame DEF Counted, CountsOf, Fetching, storeVars
<1>3. ASSUME NEW b \in Blocks, BeginRound(b) PROVE Counted'
  <2>1. PICK known \in {{Height(b)}, 1..Height(b)} :
          leavesAt' = [h \in Heights |-> IF h \in known THEN Len(Outs[Path[b][h]]) ELSE 0]
    BY <1>3 DEF BeginRound
  <2>2. \A h \in Heights : leavesAt'[h] # 0 => h <= Height(b) /\ leavesAt'[h] = Len(Outs[Path[b][h]])
    BY <2>1, HeightType
  <2> QED
    BY <1>3, <2>2 DEF BeginRound, Counted, CountsOf, Fetching
<1>4. CASE LockCallbacks \/ QueryFails
  BY <1>4 DEF LockCallbacks, QueryFails, Counted, CountsOf, Fetching, storeVars
<1>5. ASSUME NEW i \in Leaves, PutCoins(i) PROVE Counted'
  BY <1>5 DEF PutCoins, Counted, CountsOf, Fetching
<1>6. CASE PutLeafsetAndPurge
  <2>1. /\ CountsOf(target) /\ Comparable(target, target) /\ target \in Blocks
        /\ leafBlk' = target /\ round' = "stored" /\ leavesAt' = leavesAt
    BY <1>6, SelfComparable DEF PutLeafsetAndPurge, Counted, CountsOf, Fetching, TypeOK
  <2> QED
    BY <2>1 DEF Counted, CountsOf, Fetching
<1>7. CASE PurgeCoins
  <2>1. leavesAt' = [h \in Heights |-> 0] /\ leafBlk' = None /\ round' = "idle"
    BY <1>7 DEF PurgeCoins, roundVars
  <2>2. CountsOf(Base)'
    BY <2>1 DEF CountsOf
  <2> QED
    BY <2>1, <2>2, BaseType DEF Counted, Fetching
<1> QED
  BY <1>1, <1>2, <1>3, <1>4, <1>5, <1>6, <1>7, NextCases, UtxosFrame
     DEF Source, MwebRound, Relayed, Broadcast, vars, handler, sources, storeVars, roundVars

LEMMA CallCoinsStep ==
    ASSUME TypeOK, CbHeld, TodoShape, CallCoins, [Next]_vars
    PROVE  CallCoins'
<1>1. CASE UNCHANGED <<npc, call, round, target, todo>>
  BY <1>1 DEF CallCoins
<1>2. ASSUME NEW n \in Notifiers, UtxoHandler(n) PROVE CallCoins'
  <2>1. CASE Unlock(n)
    <3>1. n = "mweb" => call'["mweb"].utxos = {}
      BY <2>1 DEF Unlock, NoCall, TypeOK
    <3>2. n # "mweb" => UNCHANGED <<call["mweb"], npc["mweb"], round, target, todo>>
      BY <2>1 DEF Unlock, TypeOK, Notifiers
    <3> QED
      BY <3>1, <3>2 DEF CallCoins
  <2>2. CASE ~Unlock(n)
    <3>1. /\ UNCHANGED <<call, round, target, todo>>
          /\ npc' = npc \/ \E step \in Steps \ {"idle"} : npc' = [npc EXCEPT ![n] = step]
      BY <1>2, <2>2 DEF UtxoHandler, StoreUnconfirmed, Lock, Notify, Pick, Greet, SkipGone,
         Remember, Advance, Deliver, Drop, sources, roundVars, Steps
    <3>2. npc'["mweb"] = "idle" => npc["mweb"] = "idle"
      BY <3>1 DEF TypeOK, Notifiers
    <3> QED
      BY <3>1, <3>2 DEF CallCoins
  <2> QED
    BY <2>1, <2>2
<1>3. ASSUME NEW b \in Blocks, BeginRound(b) \/ LockCallbacks \/ QueryFails \/ PurgeCoins
      PROVE  CallCoins'
  <2>1. UNCHANGED <<npc, call>> /\ npc["mweb"] = "idle"
    BY <1>3 DEF BeginRound, LockCallbacks, QueryFails, PurgeCoins, CbHeld, notifyVars
  <2> QED
    BY <2>1 DEF CallCoins
<1>4. ASSUME NEW i \in Leaves, PutCoins(i) PROVE CallCoins'
  <2>1. /\ call'["mweb"].utxos = {<<i, Outs[target][i]>>} /\ npc'["mweb"] = "store"
        /\ round' = "fetch" /\ target' = target /\ todo' = todo \ {i} /\ i \in todo
    BY <1>4 DEF PutCoins, Called, TypeOK, Notifiers
  <2> QED
    BY <2>1 DEF CallCoins, TodoShape
<1>5. CASE PutLeafsetAndPurge
  <2>1. call'["mweb"].utxos = {}
    BY <1>5 DEF PutLeafsetAndPurge, Called, TypeOK, Notifiers
  <2> QED
    BY <2>1 DEF CallCoins
<1>6. ASSUME NEW o \in Relays, Relayed(o) \/ Broadcast(o) PROVE CallCoins'
  <2>1. UNCHANGED <<call["mweb"], npc["mweb"], round, target, todo>>
    BY <1>6 DEF Relayed, Broadcast, Called, TypeOK, Notifiers
  <2> QED
    BY <2>1 DEF CallCoins
<1> QED
  BY <1>1, <1>2, <1>3, <1>4, <1>5, <1>6, BaseType, NextCases, UtxosFrame
     DEF Source, MwebRound, vars, handler, sources, roundVars, notifyVars

LEMMA UnreadStep ==
    ASSUME TypeOK, Greeted, Unread, [Next]_vars
    PROVE  Unread'
<1>1. CASE UNCHANGED <<pc, leaves>>
  BY <1>1 DEF Unread, Settled
<1>2. ASSUME NEW s \in Subs, Utxos(s) \/ Cancel(s) PROVE Unread'
  <2>1. leaves' = leaves /\ \A t \in Subs : Settled(t) => Settled(t)'
    BY <1>2 DEF Settled, TypeOK, Utxos, Register, ReadHeights, ReadLeafset, Replay,
                SendReplayComplete, Leave, Unregister, Cancel
  <2> QED
    BY <2>1 DEF Unread
<1>3. ASSUME NEW n \in Notifiers, UtxoHandler(n) PROVE Unread'
  <2>1. ASSUME NEW s \in Subs, Remember(n, s) \/ Advance(n, s) PROVE Unread'
    <3>1. Settled(s)
      BY <2>1 DEF Remember, Advance, Greeted, Touches
    <3> QED
      BY <2>1, <3>1 DEF Remember, Advance, Unread, Settled, TypeOK
  <2> QED
    BY <1>1, <1>3, <2>1 DEF UtxoHandler, StoreUnconfirmed, Lock, Unlock, Notify, Pick, Greet,
         SkipGone, Deliver, Drop, subVars
<1> QED
  BY <1>1, <1>2, <1>3, NextCases, SourceFrame DEF vars, subVars

LEMMA OutShapeStep ==
    ASSUME TypeOK, AtShape, Greeted, OutShape, [Next]_vars
    PROVE  OutShape'
<1>1. CASE UNCHANGED <<npc, call, at, out, queue, pc, ctx, got>>
  BY <1>1 DEF OutShape, Listening
<1>2. ASSUME NEW t \in Subs, Utxos(t) \/ Cancel(t) PROVE OutShape'
  <2>1. UNCHANGED <<npc, call, at, out, queue>>
    BY <1>2, UtxosFrame DEF handler, notifyVars
  <2>2. \A s \in Subs : /\ Settled(s) /\ Listening(s)' => Listening(s)
                         /\ got[s] \subseteq got'[s]
    BY <1>2 DEF Settled, Listening, TypeOK, Utxos, Register, ReadHeights, ReadLeafset, Replay,
                SendReplayComplete, Leave, Unregister, Cancel
  <2>3. \A n \in Notifiers, s \in Subs : npc[n] = "send" /\ s \in at[n] => Settled(s)
    BY DEF Greeted, Touches
  <2> QED
    BY <2>1, <2>2, <2>3 DEF OutShape, Mine
<1>3. ASSUME NEW n \in Notifiers, UtxoHandler(n) PROVE OutShape'
  <2>1. CASE StoreUnconfirmed(n) \/ Lock(n) \/ Unlock(n)
    <3>1. /\ npc'[n] \notin {"greet", "send", "added"} /\ UNCHANGED <<pc, ctx, got>>
          /\ \A m \in Notifiers \ {n} : UNCHANGED <<npc[m], call[m], at[m], out[m], queue[m]>>
      BY <2>1 DEF StoreUnconfirmed, Lock, Unlock, TypeOK, subVars
    <3> QED
      BY <3>1 DEF OutShape, Listening
  <2>2. ASSUME NEW t \in Subs, Pick(n, t) PROVE OutShape'
    <3>1. /\ UNCHANGED <<pc, ctx, got, call>> /\ at'[n] = {t} /\ out'[n] = Mine(t, call[n].utxos)
          /\ t \notin queue'[n]
          /\ \A m \in Notifiers \ {n} : UNCHANGED <<npc[m], at[m], out[m], queue[m]>>
      BY <2>2 DEF Pick, TypeOK, subVars
    <3> QED
      BY <3>1 DEF OutShape, Listening, Mine
  <2>3. ASSUME NEW t \in Subs, Greet(n, t) PROVE OutShape'
    <3>1. /\ UNCHANGED <<pc, ctx, got, call, at, out, queue>> /\ npc[n] = "greet" /\ npc'[n] = "send"
          /\ \A m \in Notifiers \ {n} : npc'[m] = npc[m]
      BY <2>3 DEF Greet, TypeOK
    <3> QED
      BY <3>1 DEF OutShape, Listening, Mine
  <2>4. ASSUME NEW t \in Subs, SkipGone(n, t) \/ Remember(n, t) \/ Advance(n, t) PROVE OutShape'
    <3>1. /\ UNCHANGED <<pc, ctx, got, call, at, queue>> /\ npc'[n] \notin {"greet", "send"}
          /\ npc[n] \in {"greet", "send", "added"}
          /\ \A m \in Notifiers \ {n} : UNCHANGED <<npc[m], out[m]>>
      BY <2>4 DEF SkipGone, Remember, Advance, TypeOK, subVars
    <3> QED
      BY <3>1 DEF OutShape, Listening, Mine
  <2>5. ASSUME NEW t \in Subs, NEW u \in Pairs, Deliver(n, t, u) \/ Drop(n, t, u) PROVE OutShape'
    <3>1. /\ UNCHANGED <<pc, ctx, call, at, npc, queue>> /\ npc[n] # "greet"
          /\ at[n] = {t} /\ out'[n] = out[n] \ {u}
          /\ Listening(t) => u \in got'[t]
          /\ \A s \in Subs : got[s] \subseteq got'[s]
          /\ \A m \in Notifiers \ {n} : out'[m] = out[m]
      BY <2>5 DEF Deliver, Drop, AtShape, Quit, Listening, TypeOK, subVars
    <3> QED
      BY <3>1 DEF OutShape, Listening, Mine
  <2> QED
    BY <1>3, <2>1, <2>2, <2>3, <2>4, <2>5 DEF UtxoHandler, Notify
<1>4. CASE Source
  <2>1. UNCHANGED <<subVars, at, out, queue>>
    BY <1>4, SourceFrame
  <2>2. \A n \in Notifiers : npc'[n] = "store" \/ UNCHANGED <<npc[n], call[n]>>
    BY <1>4 DEF Source, BeginRound, MwebRound, LockCallbacks, PutCoins, PutLeafsetAndPurge,
                QueryFails, PurgeCoins, Relayed, Broadcast, Called, notifyVars, TypeOK
  <2> QED
    BY <2>1, <2>2 DEF OutShape, Listening, subVars
<1> QED
  BY <1>1, <1>2, <1>3, <1>4, NextCases DEF vars, handler, notifyVars, subVars
-------------------------------------------------------------------------------
(* Steps that leave a client's outputs where they are, or bring them on *)

LEMMA DueType ==
    ASSUME NEW s \in Subs, NEW b \in Blocks \cup {None}
    PROVE  Due(s, b) \subseteq LeafsetOf(b) /\ LeafsetOf(b) \subseteq Leaves
           /\ Missing(s, b) \subseteq Due(s, b)
BY OutsType DEF Due, LeafsetOf, Missing

LEMMA Carried ==
    ASSUME NEW s \in Subs, TypeOK, Right(s),
           UNCHANGED <<leafBlk, round, target, todo, pc[s], lfs[s], leaves[s], rest[s], ctx[s]>>,
           got[s] \subseteq got'[s],
           pc[s] \in {"leafset", "replay"} => Awaited(s) \subseteq Awaited(s)',
           Listening(s) => \A i \in Awaited(s) \cap Due(s, target) :
                               i \in Awaited(s)' \/ Coin(i) \in got'[s],
           Listening(s) /\ (Coming(s) \/ Sending(s)) => Coming(s)' \/ Sending(s)',
           Listening(s) => \A i \in Arriving(s) :
                               i \in Arriving(s)' \/ <<i, Outs[leafBlk][i]>> \in got'[s]
    PROVE  Right(s)'
<1>1. /\ Due(s, leafBlk)' = Due(s, leafBlk) /\ Due(s, target)' = Due(s, target)
      /\ Due(s, lfs[s])' = Due(s, lfs[s]) /\ Skipped(s)' = Skipped(s)
      /\ Fetching' = Fetching /\ Listening(s)' = Listening(s)
  BY DEF Due, Skipped, Fetching, Listening
<1>2. /\ Missing(s, leafBlk)' \subseteq Missing(s, leafBlk)
      /\ Missing(s, target)' \subseteq Missing(s, target)
      /\ Missing(s, lfs[s])' \subseteq Missing(s, lfs[s])
  BY <1>1 DEF Missing
<1>3. RestRight(s)'
  BY <1>1 DEF Right, RestRight
<1>4. ReplayRight(s)'
  BY <1>1, <1>2 DEF Right, ReplayRight
<1>5. LiveRight(s)'
  <2>1. SUFFICES ASSUME Listening(s) PROVE LiveRight(s)'
    BY <1>1 DEF LiveRight
  <2>2. round # "stored" => Missing(s, leafBlk)' = {}
    BY <2>1, <1>2 DEF Right, LiveRight
  <2>3. ASSUME Fetching, NEW i \in Missing(s, target)', i \notin todo, i \in Skipped(s)
        PROVE  i \in Awaited(s)'
    BY <2>1, <2>3, <1>1, <1>2, DueType DEF Right, LiveRight, Missing, Coin, TypeOK
  <2>4. ASSUME round = "stored", NEW i \in Missing(s, leafBlk)'
        PROVE  i \in Arriving(s)' \/ (i \notin Skipped(s) /\ (Coming(s)' \/ Sending(s)'))
    BY <2>1, <2>4, <1>1, <1>2 DEF Right, LiveRight, Missing
  <2> QED
    BY <1>1, <2>2, <2>3, <2>4 DEF LiveRight
<1> QED
  BY <1>3, <1>4, <1>5 DEF Right

(* What no step of another goroutine than mwebHandler disturbs.            *)
LEMMA Undisturbed ==
    ASSUME NEW s \in Subs, TypeOK, Right(s),
           UNCHANGED <<leafBlk, round, target, todo, npc["mweb"], call["mweb"], queue["mweb"],
                       at["mweb"], out["mweb"], pc[s], lfs[s], leaves[s], rest[s]>>,
           ctx'[s] = ctx[s] \/ ctx'[s] = "cancelled",
           got[s] \subseteq got'[s]
    PROVE  Right(s)'
<1>1. /\ Awaited(s)' = Awaited(s) /\ Arriving(s)' = Arriving(s)
      /\ Coming(s)' = Coming(s) /\ Sending(s)' = Sending(s)
  BY DEF Awaited, Arriving, Coming, Sending, Coin
<1>2. CASE ctx'[s] = ctx[s]
  BY <1>1, <1>2, Carried
<1>3. CASE ctx'[s] = "cancelled"
  <2>1. /\ Due(s, leafBlk)' = Due(s, leafBlk) /\ Due(s, target)' = Due(s, target)
        /\ Missing(s, lfs[s])' \subseteq Missing(s, lfs[s]) /\ Fetching' = Fetching
        /\ ~Listening(s)'
    BY <1>3 DEF Due, Missing, Fetching, Listening
  <2> QED
    BY <1>1, <2>1 DEF Right, RestRight, ReplayRight, LiveRight
<1> QED
  BY <1>2, <1>3

LEMMA NotifierFrame ==
    ASSUME TypeOK, NEW n \in Notifiers, UtxoHandler(n), NEW m \in Notifiers \ {n}
    PROVE  UNCHANGED <<npc[m], call[m], queue[m], at[m], out[m]>>
<1>1. CASE StoreUnconfirmed(n) \/ Lock(n) \/ Unlock(n)
  BY <1>1 DEF StoreUnconfirmed, Lock, Unlock, TypeOK
<1>2. ASSUME NEW t \in Subs, Pick(n, t) \/ Greet(n, t) \/ SkipGone(n, t) \/ Advance(n, t)
      PROVE  UNCHANGED <<npc[m], call[m], queue[m], at[m], out[m]>>
  BY <1>2 DEF Pick, Greet, SkipGone, Advance, TypeOK
<1>3. ASSUME NEW t \in Subs, Remember(n, t)
      PROVE  UNCHANGED <<npc[m], call[m], queue[m], at[m], out[m]>>
  <2>1. /\ UNCHANGED <<call, queue, at>> /\ \E x : npc' = [npc EXCEPT ![n] = x]
        /\ out' = out \/ \E x : out' = [out EXCEPT ![n] = x]
    BY <1>3 DEF Remember
  <2> QED
    BY <2>1 DEF TypeOK
<1>4. ASSUME NEW t \in Subs, NEW u \in Pairs, Deliver(n, t, u) \/ Drop(n, t, u)
      PROVE  UNCHANGED <<npc[m], call[m], queue[m], at[m], out[m]>>
  BY <1>4 DEF Deliver, Drop, TypeOK
<1> QED
  BY <1>1, <1>2, <1>3, <1>4 DEF UtxoHandler, Notify

LEMMA OtherNotifier ==
    ASSUME IInv, NEW n \in Notifiers \ {"mweb"}, UtxoHandler(n), NEW s \in Subs, Right(s)
    PROVE  Right(s)'
<1>1. /\ UNCHANGED <<npc["mweb"], call["mweb"], queue["mweb"], at["mweb"], out["mweb"], pc, rest, ctx>>
      /\ UNCHANGED <<leafBlk, round, target, todo>>
  <2>1. UNCHANGED <<pc, rest, ctx>>
    BY DEF UtxoHandler, StoreUnconfirmed, Lock, Unlock, Notify, Pick, Greet, SkipGone,
       Remember, Advance, Deliver, Drop, subVars
  <2>2. UNCHANGED <<leafBlk, round, target, todo>>
    BY HandlerFrame DEF storeVars
  <2>3. \A m \in Notifiers \ {n} : UNCHANGED <<npc[m], call[m], queue[m], at[m], out[m]>>
    BY NotifierFrame DEF IInv
  <2> QED
    BY <2>1, <2>2, <2>3 DEF Notifiers
<1>2. got[s] \subseteq got'[s]
  BY DEF UtxoHandler, StoreUnconfirmed, Lock, Unlock, Notify, Pick, Greet, SkipGone,
     Remember, Advance, Deliver, Drop, subVars, IInv, TypeOK
<1>3. call[n].lfs = None /\ Sent(n) = {} /\ npc[n] # "added"
  BY DEF IInv, CallShape, AtShape, Sent, Notifiers
<1>4. UNCHANGED <<leaves[s], lfs[s]>>
  <2>1. ASSUME NEW t \in Subs, Remember(n, t) PROVE UNCHANGED <<leaves[s], lfs[s]>>
    <3>1. lfs' = lfs /\ leaves' = [leaves EXCEPT ![t] = @ \cup {}]
      BY <2>1, <1>3 DEF Remember
    <3> QED
      BY <3>1 DEF IInv, TypeOK
  <2> QED
    BY <1>3, <2>1 DEF UtxoHandler, StoreUnconfirmed, Lock, Unlock, Notify, Pick, Greet, SkipGone,
       Advance, Deliver, Drop, subVars
<1> QED
  BY <1>1, <1>2, <1>4, Undisturbed DEF IInv
-------------------------------------------------------------------------------
(* mwebHandler's notification, one step at a time. *)

LEMMA MwebQuiet ==
    ASSUME IInv, NEW s \in Subs, Right(s), StoreUnconfirmed("mweb") \/ Lock("mweb")
    PROVE  Right(s)'
<1>1. UNCHANGED <<leafBlk, round, target, todo, pc, lfs, leaves, rest, ctx, got, call, at, out>>
  BY DEF StoreUnconfirmed, Lock, sources, storeVars, roundVars, subVars
<1>2. npc["mweb"] \in {"store", "lock"} /\ npc'["mweb"] \notin {"greet", "send", "added"}
      /\ (npc'["mweb"] = "lock" \/ queue'["mweb"] = Registered)
  BY DEF StoreUnconfirmed, Lock, IInv, TypeOK, Notifiers
<1>3. pc[s] \in {"leafset", "replay"} \/ Listening(s) => Coming(s)'
  BY <1>2 DEF Coming, Registered, Listening
<1>4. ~Sending(s) /\ Arriving(s) = {}
  BY <1>2 DEF Sending, Arriving
<1>5. pc[s] \in {"leafset", "replay"} \/ Listening(s) => Awaited(s) \subseteq Awaited(s)'
  BY <1>1, <1>3, <1>4 DEF Awaited, Coin
<1> QED
  BY <1>1, <1>3, <1>4, <1>5, Carried DEF IInv

LEMMA MwebPick ==
    ASSUME IInv, NEW s \in Subs, Right(s), NEW t \in Subs, Pick("mweb", t)
    PROVE  Right(s)'
<1>1. UNCHANGED <<leafBlk, round, target, todo, pc, lfs, leaves, rest, ctx, got, call>>
  BY DEF Pick, sources, storeVars, roundVars, subVars
<1>2. /\ npc["mweb"] = "pick" /\ at'["mweb"] = {t} /\ queue'["mweb"] = queue["mweb"] \ {t}
      /\ npc'["mweb"] = IF init[t] THEN "send" ELSE "greet"
      /\ out'["mweb"] = Mine(t, call["mweb"].utxos)
  BY DEF Pick, IInv, TypeOK, Notifiers
<1>3. ~Sending(s) /\ Arriving(s) = {} /\ (Coming(s) <=> s \in queue["mweb"])
  BY <1>2 DEF Sending, Arriving, Coming
<1>4. CASE s # t
  <2>1. Coming(s) => Coming(s)'
    BY <1>2, <1>3, <1>4 DEF Coming
  <2>2. Awaited(s) \subseteq Awaited(s)'
    BY <1>1, <1>3, <2>1 DEF Awaited, Coin
  <2> QED
    BY <1>1, <1>3, <2>1, <2>2, Carried DEF IInv
<1>5. CASE s = t /\ ~init[s]
  <2>1. Coming(s)'
    BY <1>2, <1>5 DEF Coming
  <2>2. Awaited(s) \subseteq Awaited(s)'
    BY <1>1, <1>3, <2>1 DEF Awaited, Coin
  <2> QED
    BY <1>1, <1>3, <2>1, <2>2, Carried DEF IInv
<1>6. CASE s = t /\ init[s]
  <2>1. pc[s] \notin {"leafset", "replay"} /\ Sending(s)'
    BY <1>2, <1>6 DEF IInv, Greeted, Settled, Sending
  <2>2. \A i \in Awaited(s) \cap Due(s, target) : i \in Awaited(s)'
    <3>1. ASSUME NEW i \in Awaited(s) \cap Due(s, target) PROVE i \in Awaited(s)'
      <4>1. Coin(i) \in call["mweb"].utxos /\ i \in Leaves
        BY <1>3 DEF Awaited
      <4>2. Coin(i)[2] \in Owned[s]
        BY DEF Due, Coin
      <4>3. Coin(i) \in out'["mweb"]
        BY <1>2, <1>6, <4>1, <4>2 DEF Mine
      <4> QED
        BY <1>1, <2>1, <4>1, <4>3 DEF Awaited, Coin
    <3> QED
      BY <3>1
  <2> QED
    BY <1>1, <1>3, <2>1, <2>2, Carried DEF IInv
<1> QED
  BY <1>4, <1>5, <1>6

LEMMA MwebGreet ==
    ASSUME IInv, OutShape, NEW s \in Subs, Right(s), NEW t \in Subs, Greet("mweb", t)
    PROVE  Right(s)'
<1>1. UNCHANGED <<leafBlk, round, target, todo, pc, lfs, leaves, rest, ctx, got, call, queue, at, out>>
  BY DEF Greet, sources, storeVars, roundVars
<1>2. /\ npc["mweb"] = "greet" /\ npc'["mweb"] = "send" /\ at["mweb"] = {t} /\ pc[t] = "live"
  BY DEF Greet, IInv, TypeOK, AtShape, Notifiers
<1>3. ~Sending(s) /\ Arriving(s) = {}
  BY <1>2 DEF Sending, Arriving
<1>4. CASE s # t
  <2>1. Coming(s) => Coming(s)'
    BY <1>1, <1>2, <1>4 DEF Coming
  <2>2. Awaited(s) \subseteq Awaited(s)'
    BY <1>1, <1>3, <2>1 DEF Awaited, Coin
  <2> QED
    BY <1>1, <1>3, <2>1, <2>2, Carried DEF IInv
<1>5. CASE s = t
  <2>1. pc[s] \notin {"leafset", "replay"} /\ Sending(s)'
    BY <1>1, <1>2, <1>5 DEF Sending
  <2>2. \A i \in Awaited(s) \cap Due(s, target) : i \in Awaited(s)'
    <3>1. ASSUME NEW i \in Awaited(s) \cap Due(s, target) PROVE i \in Awaited(s)'
      <4>1. Coin(i) \in call["mweb"].utxos /\ i \in Leaves
        BY <1>3 DEF Awaited
      <4>2. Coin(i)[2] \in Owned[s]
        BY DEF Due, Coin
      <4>3. out["mweb"] = Mine(s, call["mweb"].utxos)
        BY <1>2, <1>5 DEF OutShape, Notifiers
      <4>4. Coin(i) \in out'["mweb"]
        BY <1>1, <4>1, <4>2, <4>3 DEF Mine
      <4> QED
        BY <1>1, <2>1, <4>1, <4>4 DEF Awaited, Coin
    <3> QED
      BY <3>1
  <2> QED
    BY <1>1, <1>3, <2>1, <2>2, Carried DEF IInv
<1> QED
  BY <1>4, <1>5

LEMMA MwebSkipOrSend ==
    ASSUME IInv, NEW s \in Subs, Right(s), NEW t \in Subs,
           SkipGone("mweb", t) \/ \E u \in Pairs : Deliver("mweb", t, u) \/ Drop("mweb", t, u)
    PROVE  Right(s)'
<1>1. UNCHANGED <<leafBlk, round, target, todo, pc, lfs, leaves, rest, ctx, call, queue, at>>
  BY DEF SkipGone, Deliver, Drop, sources, storeVars, roundVars, subVars
<1>2. at["mweb"] = {t} /\ npc["mweb"] \in {"greet", "send", "added"} /\ got[s] \subseteq got'[s]
      /\ (npc'["mweb"] = npc["mweb"] \/ (npc["mweb"] = "greet" /\ Quit(t)))
  <2>1. /\ t \in at["mweb"] /\ npc["mweb"] \in {"greet", "send", "added"}
        /\ (npc' = npc \/ (npc["mweb"] = "greet" /\ Quit(t)))
    <3>1. CASE SkipGone("mweb", t)
      BY <3>1 DEF SkipGone
    <3>2. ASSUME NEW u \in Pairs, Deliver("mweb", t, u) \/ Drop("mweb", t, u)
          PROVE  /\ t \in at["mweb"] /\ npc["mweb"] \in {"greet", "send", "added"}
                 /\ (npc' = npc \/ (npc["mweb"] = "greet" /\ Quit(t)))
      BY <3>2 DEF Deliver, Drop
    <3> QED
      BY <3>1, <3>2
  <2>2. at["mweb"] = {t}
    BY <2>1 DEF AtShape, IInv, Notifiers
  <2>3. got[s] \subseteq got'[s]
    BY DEF SkipGone, Deliver, Drop, IInv, TypeOK, subVars
  <2> QED
    BY <2>1, <2>2, <2>3
<1>3. CASE s # t
  <2>1. s \notin at["mweb"]
    BY <1>2, <1>3
  <2>2. /\ Coming(s) => Coming(s)'
        /\ ~Sending(s) /\ Arriving(s) = {}
    BY <1>1, <1>2, <2>1 DEF Coming, Sending, Arriving
  <2>3. Awaited(s) \subseteq Awaited(s)'
    BY <1>1, <2>2 DEF Awaited, Coin
  <2> QED
    BY <1>1, <1>2, <2>2, <2>3, Carried DEF IInv
<1>4. CASE s = t /\ Quit(s)
  <2>1. pc[s] \notin {"leafset", "replay"} /\ ~Listening(s)
    BY <1>4 DEF Quit, Listening
  <2> QED
    BY <1>1, <1>2, <2>1, Carried DEF IInv
<1>5. CASE s = t /\ ~Quit(s)
  <2>1. PICK u \in Pairs : Deliver("mweb", s, u)
    BY <1>5 DEF SkipGone, Drop
  <2>2. /\ npc' = npc /\ pc[s] = "live"
        /\ out'["mweb"] = out["mweb"] \ {u}
        /\ Listening(s) => u \in got'[s]
    BY <2>1 DEF Deliver, Listening, IInv, TypeOK, Notifiers
  <2>3. Coming(s)' = Coming(s) /\ Sending(s)' = Sending(s)
    BY <1>1, <2>2 DEF Coming, Sending
  <2>4. ASSUME Listening(s) PROVE
          /\ \A i \in Awaited(s) : i \in Awaited(s)' \/ Coin(i) \in got'[s]
          /\ \A i \in Arriving(s) : i \in Arriving(s)' \/ <<i, Outs[leafBlk][i]>> \in got'[s]
    BY <1>1, <2>2, <2>3, <2>4 DEF Awaited, Arriving, Coin
  <2> QED
    BY <1>1, <1>2, <2>2, <2>3, <2>4, Carried DEF IInv
<1> QED
  BY <1>3, <1>4, <1>5

LEMMA MwebRemember ==
    ASSUME IInv, Stored, CallCoins, OutShape, NEW s \in Subs, Right(s),
           NEW t \in Subs, Remember("mweb", t), "dbfail" \in Hazards => ~Listening(s)
    PROVE  Right(s)'
<1>1. UNCHANGED <<leafBlk, round, target, todo, pc, lfs, rest, ctx, got, call, queue, at>>
  BY DEF Remember, sources, storeVars, roundVars
<1>2. /\ npc["mweb"] = "send" /\ npc'["mweb"] \in {"pick", "added"} /\ at["mweb"] = {t}
      /\ out["mweb"] = {} /\ leaves' = [leaves EXCEPT ![t] = @ \cup Sent("mweb")]
  BY DEF Remember, IInv, TypeOK, AtShape, Notifiers
<1>3. CASE s # t
  <2>1. s \notin at["mweb"] /\ leaves'[s] = leaves[s]
    BY <1>2, <1>3 DEF IInv, TypeOK
  <2>2. /\ Coming(s) => Coming(s)'
        /\ ~Sending(s) /\ Arriving(s) = {}
    BY <1>1, <1>2, <2>1 DEF Coming, Sending, Arriving
  <2>3. Awaited(s) \subseteq Awaited(s)'
    BY <1>1, <2>2 DEF Awaited, Coin
  <2> QED
    BY <1>1, <2>1, <2>2, <2>3, Carried DEF IInv
<1>4. CASE s = t
  <2>1. pc[s] \notin {"leafset", "replay"} /\ s \notin queue["mweb"] /\ round \in {"fetch", "stored"}
    BY <1>2, <1>4 DEF IInv, Greeted, Touches, Settled, OutShape, CbHeld, Notifiers
  <2>2. ~Coming(s) /\ Awaited(s) = {} /\ Arriving(s) = {}
    BY <1>2, <2>1 DEF Coming, Awaited, Arriving
  <2>3. RestRight(s)' /\ ReplayRight(s)'
    BY <1>1, <2>1 DEF RestRight, ReplayRight
  <2>4. ASSUME Listening(s), round = "fetch" PROVE LiveRight(s)'
    <3>1. Missing(s, leafBlk)' = {} /\ Missing(s, target)' = Missing(s, target)
      BY <1>1, <2>4 DEF Right, LiveRight, Missing, Due
    <3>2. ASSUME NEW i \in Missing(s, target), i \notin todo, i \in Skipped(s)' PROVE FALSE
      <4>1. i \notin Skipped(s)
        BY <2>2, <2>4, <3>2 DEF Right, LiveRight, Fetching
      <4>2. i \in Sent("mweb")
        BY <1>1, <1>2, <1>4, <3>2, <4>1 DEF Skipped, IInv, TypeOK
      <4>3. PICK v \in call["mweb"].utxos : v[1] = i
        BY <4>2 DEF Sent
      <4>4. <<i, Outs[target][i]>> \in call["mweb"].utxos
        BY <4>3 DEF CallCoins
      <4>5. Outs[target][i] \in Owned[s] /\ <<i, Outs[target][i]>> \notin got[s]
        BY <3>2 DEF Missing, Due
      <4>6. Mine(s, call["mweb"].utxos) \subseteq got[s]
        BY <1>2, <1>4, <2>4 DEF OutShape, Notifiers
      <4> QED
        BY <4>4, <4>5, <4>6 DEF Mine
    <3> QED
      BY <1>1, <2>4, <3>1, <3>2 DEF LiveRight
  <2>5. ASSUME Listening(s), round = "stored" PROVE LiveRight(s)'
    <3>1. /\ call["mweb"].lfs = leafBlk /\ leafBlk # None /\ leafBlk \in Blocks
          /\ call["mweb"].utxos = {}
      BY <2>5 DEF IInv, CallShape, TypeOK, CallCoins
    <3>2. Sent("mweb") = {} /\ LeafsetOf(leafBlk) = Unspent[leafBlk]
      BY <3>1 DEF Sent, LeafsetOf
    <3>3. /\ npc'["mweb"] = "added"
          /\ out'["mweb"] = Mine(s, FetchLeaves(Added("mweb", s)))
      BY <1>4, <2>5, <3>1 DEF Remember, IInv, TypeOK, Notifiers
    <3>4. Added("mweb", s) = LeafsetOf(leafBlk) \ Skipped(s)
      BY <3>1, <3>2 DEF Added, Skipped
    <3>5. ASSUME NEW i \in Missing(s, leafBlk) PROVE i \in Arriving(s)'
      <4>1. i \notin Skipped(s) /\ i \in LeafsetOf(leafBlk) /\ Outs[leafBlk][i] \in Owned[s]
        BY <2>2, <2>5, <3>5 DEF Right, LiveRight, Missing, Due
      <4>2. i \in Leaves /\ leafMap[i] = Outs[leafBlk][i] /\ leafMap[i] # None
        BY <3>1, <3>2, <4>1, OutsType, MwebAssumption DEF Stored
      <4>3. <<i, Outs[leafBlk][i]>> \in FetchLeaves(Added("mweb", s))
        BY <3>4, <4>1, <4>2 DEF FetchLeaves
      <4>4. <<i, Outs[leafBlk][i]>> \in out'["mweb"]
        BY <3>3, <4>1, <4>3 DEF Mine
      <4> QED
        BY <1>1, <1>2, <1>4, <3>3, <4>2, <4>4 DEF Arriving
    <3>6. Missing(s, leafBlk)' = Missing(s, leafBlk) /\ round' = "stored"
      BY <1>1, <2>5 DEF Missing, Due
    <3> QED
      BY <3>5, <3>6 DEF LiveRight, Fetching
  <2>6. Listening(s)' = Listening(s)
    BY <1>1 DEF Listening
  <2> QED
    BY <2>1, <2>3, <2>4, <2>5, <2>6 DEF Right, LiveRight
<1> QED
  BY <1>3, <1>4

LEMMA MwebAdvance ==
    ASSUME IInv, OutShape, NEW s \in Subs, Right(s), NEW t \in Subs, Advance("mweb", t)
    PROVE  Right(s)'
<1>1. UNCHANGED <<leafBlk, round, target, todo, pc, rest, ctx, got, call, queue, at, out>>
  BY DEF Advance, sources, storeVars, roundVars
<1>2. /\ npc["mweb"] = "added" /\ npc'["mweb"] = "pick" /\ at["mweb"] = {t} /\ out["mweb"] = {}
      /\ call["mweb"].lfs # None
  BY DEF Advance, IInv, TypeOK, AtShape, Notifiers
<1>3. CASE s # t
  <2>1. s \notin at["mweb"] /\ leaves'[s] = leaves[s] /\ lfs'[s] = lfs[s]
    BY <1>2, <1>3 DEF Advance, IInv, TypeOK
  <2>2. /\ Coming(s) => Coming(s)'
        /\ ~Sending(s) /\ Arriving(s) = {}
    BY <1>1, <1>2, <2>1 DEF Coming, Sending, Arriving
  <2>3. Awaited(s) \subseteq Awaited(s)'
    BY <1>1, <2>2 DEF Awaited, Coin
  <2> QED
    BY <1>1, <2>1, <2>2, <2>3, Carried DEF IInv
<1>4. CASE s = t
  <2>1. pc[s] \notin {"leafset", "replay"} /\ s \notin queue["mweb"] /\ round = "stored"
    BY <1>2, <1>4 DEF IInv, Greeted, Touches, Settled, OutShape, CallShape, Notifiers
  <2>2. ~Coming(s) /\ ~Sending(s) /\ Arriving(s) = {}
    BY <1>2, <2>1 DEF Coming, Arriving, Sending
  <2>3. RestRight(s)' /\ ReplayRight(s)'
    BY <1>1, <2>1 DEF RestRight, ReplayRight
  <2>4. Listening(s) => Missing(s, leafBlk) = {}
    BY <2>1, <2>2 DEF Right, LiveRight
  <2>5. Missing(s, leafBlk)' = Missing(s, leafBlk) /\ round' = "stored" /\ Listening(s)' = Listening(s)
    BY <1>1, <2>1 DEF Missing, Due, Listening
  <2> QED
    BY <2>3, <2>4, <2>5 DEF Right, LiveRight, Fetching
<1> QED
  BY <1>3, <1>4

LEMMA MwebUnlock ==
    ASSUME IInv, NEW s \in Subs, Right(s), Unlock("mweb")
    PROVE  Right(s)'
<1>1. UNCHANGED <<leafBlk, todo, pc, lfs, leaves, rest, ctx, got, out>>
      /\ npc["mweb"] = "pick" /\ queue["mweb"] = {}
  BY DEF Unlock, storeVars, subVars
<1>2. ~Coming(s) /\ ~Sending(s) /\ Arriving(s) = {} /\ Awaited(s) = {}
  BY <1>1 DEF Coming, Sending, Arriving, Awaited
<1>3. CASE round # "stored"
  <2>1. UNCHANGED <<round, target>>
    BY <1>3 DEF Unlock
  <2> QED
    BY <1>1, <1>2, <2>1, Carried DEF IInv
<1>4. CASE round = "stored"
  <2>1. round' = "idle"
    BY <1>4 DEF Unlock
  <2>2. Listening(s) => Missing(s, leafBlk) = {}
    BY <1>2, <1>4 DEF Right, LiveRight
  <2>3. /\ Due(s, leafBlk)' = Due(s, leafBlk) /\ Missing(s, leafBlk)' = Missing(s, leafBlk)
        /\ Missing(s, lfs[s])' = Missing(s, lfs[s]) /\ Listening(s)' = Listening(s) /\ ~Fetching'
    BY <1>1, <2>1 DEF Missing, Due, Listening, Fetching
  <2>4. RestRight(s)'
    BY <1>1, <1>4, <2>3 DEF Right, RestRight
  <2>5. ReplayRight(s)'
    BY <1>1, <1>4, <2>3 DEF Right, ReplayRight
  <2>6. LiveRight(s)'
    BY <2>1, <2>2, <2>3 DEF LiveRight
  <2> QED
    BY <2>4, <2>5, <2>6 DEF Right
<1> QED
  BY <1>3, <1>4

LEMMA HandlerRight ==
    ASSUME IInv, Stored, CallCoins, OutShape, NEW s \in Subs, Right(s),
           NEW n \in Notifiers, UtxoHandler(n)
    PROVE  Right(s)'
<1>1. CASE n # "mweb"
  BY <1>1, OtherNotifier
<1>2. CASE n = "mweb"
  <2>1. "dbfail" \in Hazards => ~Listening(s)
    BY DEF Listening
  <2>2. ASSUME NEW t \in Subs, Notify("mweb", t) PROVE Right(s)'
    BY <2>1, <2>2, MwebPick, MwebGreet, MwebSkipOrSend, MwebRemember, MwebAdvance DEF Notify
  <2> QED
    BY <1>2, <2>2, MwebQuiet, MwebUnlock DEF UtxoHandler
<1> QED
  BY <1>1, <1>2
-------------------------------------------------------------------------------
(* mwebHandler's rounds and the other sources of notifications *)

LEMMA ComparableSwap == \A a, b : Comparable(a, b) <=> Comparable(b, a)
BY DEF Comparable

LEMMA NoneComing ==
    ASSUME TypeOK, CallCoins, NEW s \in Subs, npc["mweb"] = "idle"
    PROVE  Awaited(s) = {} /\ Arriving(s) = {} /\ ~Sending(s)
BY DEF Awaited, Arriving, Sending, CallCoins

LEMMA BeginRoundRight ==
    ASSUME IInv, CallCoins, NEW s \in Subs, Right(s), NEW b \in Blocks, BeginRound(b)
    PROVE  Right(s)'
<1>1. UNCHANGED <<leafBlk, npc, call, queue, at, out, pc, lfs, leaves, rest, ctx, got>>
      /\ target' = b /\ todo' = Unspent[b] \ LeafsetOf(leafBlk)
      /\ (leafBlk # None => Comparable(leafBlk, b))
      /\ round = "idle" /\ round' = "prepared"
  BY DEF BeginRound, notifyVars, subVars
<1>2. leafBlk \in Blocks \cup {None}
  BY DEF IInv, TypeOK
<1>3. /\ Due(s, leafBlk)' = Due(s, leafBlk) /\ Missing(s, leafBlk)' = Missing(s, leafBlk)
      /\ Due(s, target)' = Due(s, b) /\ Missing(s, target)' = Missing(s, b)
      /\ Missing(s, lfs[s])' = Missing(s, lfs[s]) /\ Listening(s)' = Listening(s)
  BY <1>1 DEF Due, Missing, Listening
<1>4. ASSUME NEW i \in Due(s, b) \ todo'
      PROVE  i \in Due(s, leafBlk) /\ (leafBlk # None /\ Outs[leafBlk][i] = Outs[b][i])
  <2>1. i \in Unspent[b] /\ i \in LeafsetOf(leafBlk)
    BY <1>1, BaseType DEF Due, LeafsetOf
  <2>2. leafBlk \in Blocks /\ leafBlk # None /\ LeafsetOf(leafBlk) = Unspent[leafBlk]
    BY <1>2, <2>1 DEF LeafsetOf
  <2>3. Comparable(b, leafBlk)
    BY <1>1, <2>2, ComparableSwap
  <2> QED
    BY <2>1, <2>2, <2>3, DueAgree
<1>5. RestRight(s)'
  BY <1>1, <1>3, <1>4 DEF Right, RestRight
<1>6. ReplayRight(s)'
  BY <1>1, <1>3 DEF Right, ReplayRight, LeafsetOf
<1>7. LiveRight(s)'
  <2>1. ASSUME Listening(s) PROVE Missing(s, leafBlk) = {} /\ Missing(s, b) \ todo' = {}
    BY <1>1, <1>4, <2>1 DEF Right, LiveRight, Missing
  <2> QED
    BY <1>1, <1>3, <2>1 DEF LiveRight
<1> QED
  BY <1>5, <1>6, <1>7 DEF Right

LEMMA PutCoinsRight ==
    ASSUME IInv, CallCoins, NEW s \in Subs, Right(s), NEW j \in Leaves, PutCoins(j)
    PROVE  Right(s)'
<1>1. UNCHANGED <<leafBlk, round, target, queue, at, out, pc, lfs, leaves, rest, ctx, got>>
      /\ round = "fetch" /\ todo' = todo \ {j} /\ npc["mweb"] = "idle"
      /\ npc'["mweb"] = "store" /\ call'["mweb"].utxos = {<<j, Outs[target][j]>>}
  BY DEF PutCoins, Called, IInv, TypeOK, Notifiers, subVars
<1>2. Awaited(s) = {}
  BY <1>1, NoneComing DEF IInv
<1>3. j \in Awaited(s)'
  BY <1>1 DEF Awaited, Coming, Coin
<1>4. /\ Due(s, leafBlk)' = Due(s, leafBlk) /\ Missing(s, leafBlk)' = Missing(s, leafBlk)
      /\ Due(s, target)' = Due(s, target) /\ Missing(s, target)' = Missing(s, target)
      /\ Missing(s, lfs[s])' = Missing(s, lfs[s]) /\ Listening(s)' = Listening(s)
      /\ Skipped(s)' = Skipped(s) /\ Fetching /\ Fetching'
  BY <1>1 DEF Due, Missing, Listening, Skipped, Fetching
<1>5. RestRight(s)'
  BY <1>1, <1>2, <1>3, <1>4 DEF Right, RestRight
<1>6. ReplayRight(s)'
  BY <1>1, <1>2, <1>3, <1>4 DEF Right, ReplayRight
<1>7. LiveRight(s)'
  BY <1>1, <1>2, <1>3, <1>4 DEF Right, LiveRight
<1> QED
  BY <1>5, <1>6, <1>7 DEF Right

LEMMA PutLeafsetRight ==
    ASSUME IInv, Stored, CallCoins, NEW s \in Subs, Right(s), PutLeafsetAndPurge
    PROVE  Right(s)'
<1>1. UNCHANGED <<target, todo, queue, at, out, pc, lfs, leaves, rest, ctx, got>>
      /\ round = "fetch" /\ round' = "stored" /\ todo = {} /\ npc["mweb"] = "idle"
      /\ npc'["mweb"] = "store" /\ leafBlk' = target
  BY DEF PutLeafsetAndPurge, Called, IInv, TypeOK, Notifiers, subVars
<1>2. Awaited(s) = {} /\ Fetching /\ Coming(s)' /\ ~Fetching'
  BY <1>1, NoneComing DEF IInv, Fetching, Coming
<1>3. /\ target \in Blocks /\ target # None /\ LeafsetOf(target) = Unspent[target]
      /\ leafBlk \in Blocks \cup {None} /\ lfs[s] \in Blocks \cup {None}
      /\ LeafsetOf(leafBlk') = Unspent[target]
  BY <1>1, BaseType DEF IInv, TypeOK, LeafsetOf
<1>4. /\ Due(s, leafBlk)' = Due(s, target) /\ Missing(s, leafBlk)' = Missing(s, target)
      /\ Missing(s, lfs[s])' = Missing(s, lfs[s]) /\ Listening(s)' = Listening(s)
      /\ Skipped(s)' = Skipped(s)
  BY <1>1 DEF Due, Missing, Listening, Skipped
<1>5. RestRight(s)'
  BY <1>1, <1>2, <1>4 DEF Right, RestRight
<1>6. ASSUME pc[s] = "replay", lfs[s] # None
      PROVE  /\ Missing(s, lfs[s]) \cap Unspent[target] \subseteq rest[s]
             /\ Comparable(lfs[s], target) \/ Unspent[target] = {}
  <2>1. CASE leafBlk = None
    <3>1. Unspent[target] \ todo \subseteq Awaited(s)
      BY <1>2, <1>6, <2>1 DEF Right, ReplayRight
    <3> QED
      BY <1>1, <1>2, <3>1
  <2>2. CASE leafBlk # None
    <3>1. lfs[s] = leafBlk
      BY <1>1, <1>6, <2>2 DEF IInv, Informed, Pending
    <3>2. Missing(s, lfs[s]) \subseteq LeafsetOf(leafBlk)
      BY <1>3, <3>1, DueType
    <3>3. Comparable(leafBlk, target)
      BY <1>2, <2>2 DEF Stored
    <3> QED
      BY <1>6, <3>1, <3>2, <3>3 DEF Right, ReplayRight
  <2> QED
    BY <2>1, <2>2
<1>7. lfs[s] = None => Missing(s, lfs[s]) = {}
  BY DEF Missing, Due, LeafsetOf
<1>8. ReplayRight(s)'
  <2>1. LeafsetOf(leafBlk)' = Unspent[target] /\ Unspent[leafBlk]' = Unspent[target]
    BY <1>1, <1>3 DEF LeafsetOf
  <2> QED
    BY <1>1, <1>2, <1>4, <1>6, <1>7, <2>1 DEF ReplayRight
<1>9. LiveRight(s)'
  <2>1. ASSUME Listening(s), NEW i \in Missing(s, target) PROVE i \notin Skipped(s)
    BY <1>1, <1>2, <2>1 DEF Right, LiveRight
  <2> QED
    BY <1>1, <1>2, <1>4, <2>1 DEF LiveRight
<1> QED
  BY <1>5, <1>8, <1>9 DEF Right

LEMMA QuietRoundRight ==
    ASSUME IInv, CallCoins, NEW s \in Subs, Right(s), LockCallbacks \/ QueryFails \/ PurgeCoins
    PROVE  Right(s)'
<1>1. UNCHANGED <<npc, call, queue, at, out, pc, lfs, leaves, rest, ctx, got>>
  BY DEF LockCallbacks, QueryFails, PurgeCoins, notifyVars, subVars
<1>2. Listening(s)' = Listening(s) /\ Missing(s, lfs[s])' = Missing(s, lfs[s])
  BY <1>1 DEF Listening, Missing, Due
<1>3. CASE LockCallbacks
  <2>1. UNCHANGED <<leafBlk, target, todo>> /\ round = "prepared" /\ round' = "fetch"
    BY <1>3 DEF LockCallbacks, storeVars
  <2>2. /\ Due(s, leafBlk)' = Due(s, leafBlk) /\ Missing(s, leafBlk)' = Missing(s, leafBlk)
        /\ Due(s, target)' = Due(s, target) /\ Missing(s, target)' = Missing(s, target)
        /\ Skipped(s)' = Skipped(s) /\ Fetching /\ Fetching' /\ Awaited(s)' = Awaited(s)
    BY <1>1, <2>1 DEF Due, Missing, Skipped, Fetching, Awaited, Coming, Sending, Coin
  <2> QED
    BY <1>1, <1>2, <2>1, <2>2 DEF Right, RestRight, ReplayRight, LiveRight
<1>4. CASE QueryFails
  <2>1. leafBlk' = leafBlk /\ round = "fetch" /\ round' = "idle"
    BY <1>4 DEF QueryFails, storeVars
  <2>2. /\ Due(s, leafBlk)' = Due(s, leafBlk) /\ Missing(s, leafBlk)' = Missing(s, leafBlk)
        /\ ~Fetching'
    BY <1>1, <2>1 DEF Due, Missing, Fetching
  <2> QED
    BY <1>1, <1>2, <2>1, <2>2 DEF Right, RestRight, ReplayRight, LiveRight
<1>5. CASE PurgeCoins
  <2>1. leafBlk' = None /\ round' = "idle"
    BY <1>5 DEF PurgeCoins, roundVars
  <2>2. /\ Due(s, leafBlk)' = {} /\ Missing(s, leafBlk)' = {} /\ LeafsetOf(leafBlk)' = {}
        /\ ~Fetching'
    BY <2>1 DEF Due, Missing, Fetching, LeafsetOf
  <2> QED
    BY <1>1, <1>2, <2>1, <2>2 DEF RestRight, ReplayRight, LiveRight, Right
<1> QED
  BY <1>3, <1>4, <1>5

LEMMA SourceRight ==
    ASSUME IInv, Stored, CallCoins, NEW s \in Subs, Right(s), Source
    PROVE  Right(s)'
<1>1. ASSUME NEW o \in Relays, Relayed(o) \/ Broadcast(o) PROVE Right(s)'
  <2>1. /\ UNCHANGED <<leafBlk, round, target, todo, queue, at, out, pc, lfs, leaves, rest, ctx, got>>
        /\ npc'["mweb"] = npc["mweb"] /\ call'["mweb"] = call["mweb"]
    BY <1>1 DEF Relayed, Broadcast, Called, storeVars, subVars, IInv, TypeOK, Notifiers
  <2> QED
    BY <2>1, Undisturbed DEF IInv
<1> QED
  BY <1>1, BeginRoundRight, PutCoinsRight, PutLeafsetRight, QuietRoundRight DEF Source, MwebRound
-------------------------------------------------------------------------------
(* Utxos calls *)

LEMMA ReadHeightsRight ==
    ASSUME IInv, Counted, CallCoins, NEW s \in Subs, Right(s), ReadHeights(s)
    PROVE  Right(s)'
<1>1. UNCHANGED handler /\ pc'[s] = "leafset"
      /\ rest'[s] = {i \in Leaves : i > CountBelow(From[s])}
  BY DEF ReadHeights, IInv, TypeOK
<1>2. PICK t \in Blocks : /\ CountsOf(t)
                          /\ leafBlk # None => Comparable(leafBlk, t)
                          /\ Fetching => t = target
  BY DEF Counted
<1>3. leafBlk \in Blocks \cup {None} /\ target \in Blocks /\ TypeOK
  BY DEF IInv, TypeOK
<1>4. Due(s, leafBlk) \subseteq rest'[s]
  <2>1. CASE leafBlk = None
    BY <2>1 DEF Due, LeafsetOf
  <2>2. CASE leafBlk # None
    BY <1>1, <1>2, <1>3, <2>2, NothingBelow, DueType
  <2> QED
    BY <2>1, <2>2
<1>5. Fetching => Due(s, target) \subseteq rest'[s]
  BY <1>1, <1>2, <1>3, NothingBelow, DueType, SelfComparable
<1>6. /\ Due(s, leafBlk)' = Due(s, leafBlk) /\ Due(s, target)' = Due(s, target)
      /\ Fetching' = Fetching
  BY <1>1 DEF Due, Fetching, handler, sources, storeVars, roundVars
<1>7. RestRight(s)'
  BY <1>4, <1>5, <1>6 DEF RestRight
<1> QED
  BY <1>1, <1>7 DEF Right, ReplayRight, LiveRight, Listening

LEMMA ReadLeafsetRight ==
    ASSUME IInv, NEW s \in Subs, Right(s), ReadLeafset(s)
    PROVE  Right(s)'
<1>1. /\ leafBlk' = leafBlk /\ got' = got /\ pc[s] = "leafset" /\ pc'[s] = "replay"
      /\ lfs'[s] = leafBlk /\ rest'[s] = rest[s] \cap LeafsetOf(leafBlk)
  BY DEF ReadLeafset, IInv, TypeOK, handler, sources, storeVars
<1>2. /\ Missing(s, lfs[s])' \subseteq Due(s, leafBlk) /\ LeafsetOf(leafBlk)' = LeafsetOf(leafBlk)
  BY <1>1 DEF Missing, Due, LeafsetOf
<1>3. Due(s, leafBlk) \subseteq rest[s]
  BY <1>1 DEF Right, RestRight
<1>4. leafBlk # None => Comparable(leafBlk, leafBlk)
  BY SelfComparable DEF IInv, TypeOK
<1>5. ReplayRight(s)'
  BY <1>1, <1>2, <1>3, <1>4 DEF ReplayRight
<1> QED
  BY <1>1, <1>5 DEF Right, RestRight, LiveRight, Listening

LEMMA ReplayedRight ==
    ASSUME IInv, Stored, NEW s \in Subs, Right(s), Replay(s)
    PROVE  Right(s)'
<1>1. PICK j \in rest[s] : /\ rest' = [rest EXCEPT ![s] = @ \ {j}]
                           /\ got' = [got EXCEPT ![s] = @ \cup Mine(s, FetchLeaves({j}))]
  BY DEF Replay
<1>2. /\ rest'[s] = rest[s] \ {j} /\ got'[s] = got[s] \cup Mine(s, FetchLeaves({j}))
      /\ UNCHANGED <<handler, pc, lfs>> /\ pc[s] = "replay"
  BY <1>1 DEF Replay, IInv, TypeOK
<1>3. leafBlk \in Blocks \cup {None} /\ lfs[s] \in Blocks \cup {None} /\ rest[s] \subseteq Leaves
  BY DEF IInv, TypeOK
<1>4. /\ LeafsetOf(leafBlk)' = LeafsetOf(leafBlk) /\ Awaited(s)' = Awaited(s)
      /\ Fetching' = Fetching /\ leafBlk' = leafBlk /\ target' = target /\ todo' = todo
  BY <1>2 DEF LeafsetOf, Awaited, Coming, Sending, Coin, Fetching, handler, sources, storeVars,
              roundVars, notifyVars
<1>5. Missing(s, lfs[s])' \subseteq Missing(s, lfs[s])
  BY <1>2 DEF Missing, Due
<1>6. ASSUME j \in Missing(s, lfs[s])', j \in LeafsetOf(leafBlk) PROVE FALSE
  <2>1. j \in Due(s, lfs[s]) /\ lfs[s] # None /\ leafBlk # None
        /\ <<j, Outs[lfs[s]][j]>> \notin got'[s]
    BY <1>2, <1>6 DEF Missing, Due, LeafsetOf
  <2>2. lfs[s] \in Blocks /\ leafBlk \in Blocks /\ j \in Unspent[leafBlk]
    BY <1>3, <1>6, <2>1 DEF LeafsetOf
  <2>3. Comparable(lfs[s], leafBlk)
    BY <1>2, <2>1, <2>2 DEF Right, ReplayRight
  <2>4. Outs[lfs[s]][j] = Outs[leafBlk][j] /\ Outs[lfs[s]][j] \in Owned[s]
    BY <2>1, <2>2, <2>3, DueAgree DEF Due
  <2>5. leafMap[j] = Outs[leafBlk][j] /\ leafMap[j] # None
    BY <1>6, <2>2, OutsType, MwebAssumption DEF Stored
  <2>6. <<j, Outs[lfs[s]][j]>> \in FetchLeaves({j})
    BY <2>4, <2>5 DEF FetchLeaves
  <2>7. <<j, Outs[lfs[s]][j]>> \in Mine(s, FetchLeaves({j}))
    BY <2>4, <2>6 DEF Mine
  <2> QED
    BY <1>2, <2>1, <2>7
<1>7. ReplayRight(s)'
  BY <1>2, <1>4, <1>5, <1>6 DEF Right, ReplayRight
<1> QED
  BY <1>2, <1>7 DEF Right, RestRight, LiveRight, Listening

LEMMA CompletedRight ==
    ASSUME IInv, Stored, Unread, NEW s \in Subs, Right(s), SendReplayComplete(s)
    PROVE  Right(s)'
<1>1. UNCHANGED <<handler, lfs, leaves, got>> /\ pc[s] = "replay" /\ rest[s] = {} /\ pc'[s] = "live"
  BY DEF SendReplayComplete, IInv, TypeOK
<1>2. /\ leafBlk \in Blocks \cup {None} /\ lfs[s] \in Blocks \cup {None} /\ target \in Blocks
      /\ leaves[s] = {}
  BY <1>1 DEF IInv, TypeOK, Unread, Settled
<1>3. Skipped(s) = LeafsetOf(lfs[s])
  BY <1>2 DEF Skipped
<1>4. Missing(s, lfs[s]) \cap LeafsetOf(leafBlk) = {}
  BY <1>1 DEF Right, ReplayRight
<1>5. leafBlk # None /\ lfs[s] # leafBlk => Pending(s)
  BY <1>1 DEF IInv, Informed
<1>6. round # "stored" => Missing(s, leafBlk) = {}
  <2>1. CASE leafBlk = None
    BY <2>1 DEF Missing, Due, LeafsetOf
  <2>2. CASE leafBlk # None /\ round # "stored"
    BY <1>2, <1>4, <1>5, <2>2, DueType DEF Pending
  <2> QED
    BY <2>1, <2>2
<1>7. ASSUME NEW b \in Blocks, NEW i \in Missing(s, b), i \in LeafsetOf(lfs[s]), Comparable(lfs[s], b)
      PROVE  i \in Missing(s, lfs[s])
  <2>1. lfs[s] \in Blocks /\ i \in Unspent[lfs[s]] /\ i \in Due(s, b) /\ <<i, Outs[b][i]>> \notin got[s]
    BY <1>2, <1>7 DEF Missing, LeafsetOf
  <2>2. i \in Due(s, lfs[s]) /\ Outs[b][i] = Outs[lfs[s]][i]
    BY <1>7, <2>1, DueAgree, ComparableSwap
  <2> QED
    BY <2>1, <2>2 DEF Missing
<1>8. ASSUME Fetching, NEW i \in Missing(s, target), i \notin todo, i \in Skipped(s)
      PROVE  i \in Awaited(s)
  <2>1. lfs[s] # None /\ i \in LeafsetOf(lfs[s]) /\ round # "stored"
    BY <1>3, <1>8 DEF LeafsetOf, Fetching
  <2>2. i \in Unspent[target]
    BY <1>2, <1>8, BaseType DEF Missing, Due, LeafsetOf
  <2>3. CASE leafBlk = None
    BY <1>1, <1>8, <2>1, <2>2, <2>3 DEF Right, ReplayRight
  <2>4. CASE leafBlk # None
    <3>1. lfs[s] = leafBlk /\ Comparable(leafBlk, target)
      BY <1>5, <1>8, <2>1, <2>4 DEF Stored, Pending
    <3> QED
      BY <1>2, <1>4, <1>7, <1>8, <2>1, <3>1
  <2> QED
    BY <2>3, <2>4
<1>9. ASSUME round = "stored", NEW i \in Missing(s, leafBlk)
      PROVE  i \notin Skipped(s) /\ (Coming(s) \/ Sending(s))
  <2>1. /\ leafBlk \in Blocks /\ leafBlk # None /\ i \in LeafsetOf(leafBlk)
        /\ i \in Unspent[leafBlk]
    BY <1>2, <1>9 DEF Missing, Due, LeafsetOf
  <2>2. i \notin LeafsetOf(lfs[s])
    <3>1. SUFFICES ASSUME i \in LeafsetOf(lfs[s]) PROVE FALSE
      OBVIOUS
    <3>2. lfs[s] # None
      BY <3>1 DEF LeafsetOf
    <3>3. Comparable(lfs[s], leafBlk)
      BY <1>1, <2>1, <3>2 DEF Right, ReplayRight
    <3> QED
      BY <1>4, <1>7, <1>9, <2>1, <3>1, <3>3
  <2>3. Pending(s)
    BY <1>5, <2>1, <2>2
  <2>4. ~(npc["mweb"] \in {"send", "added"} /\ s \in at["mweb"])
    BY <1>1 DEF IInv, Greeted, Touches, Settled, Notifiers
  <2> QED
    BY <1>3, <2>2, <2>3, <2>4 DEF Pending, Coming
<1>10. /\ Missing(s, leafBlk)' = Missing(s, leafBlk) /\ Missing(s, target)' = Missing(s, target)
       /\ Skipped(s)' = Skipped(s) /\ Fetching' = Fetching /\ Awaited(s)' = Awaited(s)
       /\ Arriving(s)' = Arriving(s) /\ Coming(s)' = Coming(s) /\ Sending(s)' = Sending(s)
       /\ UNCHANGED <<round, todo>>
  BY <1>1 DEF Missing, Due, Skipped, Fetching, Awaited, Arriving, Coming, Sending, Coin,
              handler, sources, storeVars, roundVars, notifyVars
<1>11. LiveRight(s)'
  BY <1>6, <1>8, <1>9, <1>10 DEF LiveRight
<1> QED
  BY <1>1, <1>11 DEF Right, RestRight, ReplayRight

LEMMA UtxosRight ==
    ASSUME IInv, Stored, Counted, CallCoins, Unread, NEW s \in Subs, Right(s),
           NEW t \in Subs, Utxos(t) \/ Cancel(t)
    PROVE  Right(s)'
<1>1. UNCHANGED <<leafBlk, round, target, todo, npc, call, queue, at, out>>
  BY UtxosFrame DEF handler, sources, storeVars, roundVars, notifyVars
<1>2. CASE t # s \/ Cancel(t)
  <2>1. /\ UNCHANGED <<pc[s], lfs[s], leaves[s], rest[s], got[s]>>
        /\ ctx'[s] = ctx[s] \/ ctx'[s] = "cancelled"
    BY <1>2 DEF IInv, TypeOK, Utxos, Register, ReadHeights, ReadLeafset, Replay,
                SendReplayComplete, Leave, Unregister, Cancel
  <2> QED
    BY <1>1, <2>1, Undisturbed DEF IInv
<1>3. CASE t = s /\ (Register(s) \/ Leave(s) \/ Unregister(s))
  <2>1. pc'[s] \in {"heights", "leaving", "done"}
    BY <1>3 DEF Register, Leave, Unregister, IInv, TypeOK
  <2> QED
    BY <2>1 DEF Right, RestRight, ReplayRight, LiveRight, Listening
<1> QED
  BY <1>2, <1>3, ReadHeightsRight, ReadLeafsetRight, ReplayedRight, CompletedRight DEF Utxos
-------------------------------------------------------------------------------
LEMMA InitCovered == Init => Covered
<1> SUFFICES ASSUME Init PROVE Covered
  OBVIOUS
<1>1. leafBlk \in {None, Base} /\ Base \in Blocks /\ Base # None /\ Height(Base) \in Nat
  BY BaseType, HeightType DEF Init
<1>2. Stored
  <2>1. LeafsetOf(leafBlk) \subseteq Leaves /\ (leafBlk # None => leafBlk = Base)
    BY <1>1, OutsType DEF LeafsetOf
  <2>2. \A i \in LeafsetOf(leafBlk) : leafMap[i] = Outs[leafBlk][i]
    BY <2>1 DEF Init, LeafsetOf
  <2> QED
    BY <2>2 DEF Init, Stored, Fetching
<1>3. Counted
  <2>1. 1 \in 1..Height(Base) /\ Path[Base][1] = Base
    BY HeightType, PathAssumption DEF Height
  <2>2. CountsOf(Base)
    BY <2>1, HeightType DEF CountsOf, Init
  <2>3. leafBlk # None => Comparable(leafBlk, Base)
    BY <1>1, SelfComparable
  <2> QED
    BY <1>1, <2>2, <2>3 DEF Counted, Fetching, Init
<1>4. CallCoins /\ OutShape /\ Unread
  BY DEF Init, CallCoins, OutShape, Unread, NoCall, Notifiers
<1>5. \A s \in Subs : Right(s)
  BY DEF Init, Right, RestRight, ReplayRight, LiveRight, Listening
<1> QED
  BY <1>2, <1>3, <1>4, <1>5 DEF Covered

LEMMA CoveredStep == IInv /\ Covered /\ [Next]_vars => Covered'
<1> SUFFICES ASSUME IInv, Covered, [Next]_vars PROVE Covered'
  OBVIOUS
<1>1. Stored' /\ Counted' /\ CallCoins' /\ OutShape' /\ Unread'
  BY StoredStep, CountedStep, CallCoinsStep, OutShapeStep, UnreadStep DEF IInv, Covered
<1>2. ASSUME NEW s \in Subs PROVE Right(s)'
  <2>1. Stored /\ Counted /\ CallCoins /\ OutShape /\ Unread /\ Right(s)
    BY DEF Covered
  <2>2. CASE Next
    BY <2>1, <2>2, NextCases, UtxosRight, HandlerRight, SourceRight
  <2>3. CASE UNCHANGED vars
    <3>1. UNCHANGED <<leafBlk, round, target, todo, npc, call, queue, at, out, pc, lfs, leaves, rest,
                      ctx, got>>
      BY <2>3 DEF vars, handler, sources, storeVars, roundVars, notifyVars, subVars
    <3> QED
      BY <2>1, <3>1, Undisturbed DEF IInv
  <2> QED
    BY <2>2, <2>3
<1> QED
  BY <1>1, <1>2 DEF Covered

LEMMA AlwaysCovered == Spec => [](IInv /\ Covered)
<1>1. Init => IInv /\ Covered
  BY InitInv, InitCovered
<1>2. IInv /\ Covered /\ [Next]_vars => (IInv /\ Covered)'
  BY Inductive, CoveredStep
<1> QED
  BY <1>1, <1>2, PTL DEF Spec

(* No output is ever missed: whatever the order of registrations, rounds,   *)
(* failed rounds, reorgs and purges, a live client has been sent all it     *)
(* owns of the stored leafset, from its height on.  A read that fails       *)
(* inside a notification would break this (the code only logs it), so the   *)
(* theorem excludes it.                                                     *)
THEOREM NothingIsMissed ==
    ASSUME "dbfail" \notin Hazards
    PROVE  Spec => []NothingMissed
<1>1. IInv /\ Covered => NothingMissed
  <2> SUFFICES ASSUME Covered, NEW s \in Subs,
                      pc[s] = "live" /\ ctx[s] = "open" /\ round # "stored",
                      NEW i \in Due(s, leafBlk)
               PROVE  <<i, Outs[leafBlk][i]>> \in got[s]
    BY DEF NothingMissed
  <2>1. Missing(s, leafBlk) = {}
    BY DEF Covered, Right, LiveRight, Listening
  <2> QED
    BY <2>1 DEF Missing
<1> QED
  BY <1>1, AlwaysCovered, PTL

(* Without a purge, a store that has had a leafset has one. *)
Kept == \A s \in Subs : lfs[s] # None => leafBlk # None

LEMMA KeptStep == ASSUME IInv, Kept, [Next]_vars, "purge" \notin Hazards PROVE Kept'
<1>1. leafBlk # None => leafBlk' # None
  <2>1. CASE Source
    <3>1. target # None
      BY BaseType DEF IInv, TypeOK
    <3> QED
      BY <2>1, <3>1 DEF Source, MwebRound, BeginRound, LockCallbacks, PutCoins, PutLeafsetAndPurge,
         QueryFails, PurgeCoins, Relayed, Broadcast, storeVars
  <2>2. CASE ~Source
    BY <2>2, NextCases, UtxosFrame, HandlerFrame DEF vars, handler, sources, storeVars
  <2> QED
    BY <2>1, <2>2
<1>2. ASSUME NEW t \in Subs, Utxos(t) \/ Cancel(t) PROVE Kept'
  <2>1. lfs' = lfs \/ lfs' = [lfs EXCEPT ![t] = leafBlk]
    BY <1>2 DEF Utxos, Register, ReadHeights, ReadLeafset, Replay, SendReplayComplete,
                Leave, Unregister, Cancel
  <2> QED
    BY <1>1, <2>1 DEF Kept, IInv, TypeOK
<1>3. ASSUME NEW n \in Notifiers, UtxoHandler(n) PROVE Kept'
  <2>1. CASE lfs' = lfs
    BY <1>1, <2>1 DEF Kept
  <2>2. ASSUME NEW t \in Subs, Advance(n, t) PROVE Kept'
    <3>1. leafBlk # None
      BY <2>2 DEF Advance, IInv, AtShape, CallShape, Notifiers
    <3> QED
      BY <1>1, <3>1 DEF Kept
  <2> QED
    BY <1>3, <2>1, <2>2 DEF UtxoHandler, StoreUnconfirmed, Lock, Unlock, Notify, Pick, Greet,
       SkipGone, Remember, Deliver, Drop, subVars
<1>4. CASE Source
  BY <1>1, <1>4, SourceFrame DEF Kept, subVars
<1>5. CASE UNCHANGED vars
  BY <1>1, <1>5 DEF Kept, vars, subVars
<1> QED
  BY <1>2, <1>3, <1>4, <1>5, NextCases

(* When the replay-complete message is sent, everything due in the snapshot *)
(* has been streamed or spent since, unless a purge emptied the store in    *)
(* the middle of the replay.  Reads that fail do no harm: the call leaves.  *)
THEOREM ReplayIsTruthful ==
    ASSUME "purge" \notin Hazards
    PROVE  Spec => []ReplayTruth
<1>1. Init => Kept
  BY DEF Init, Kept
<1>2. IInv /\ Kept /\ [Next]_vars => Kept'
  BY KeptStep
<1>3. IInv /\ Covered /\ Kept => ReplayTruth
  <2> SUFFICES ASSUME Covered, Kept, NEW s \in Subs, pc[s] = "replay" /\ rest[s] = {},
                      NEW i \in Due(s, lfs[s])
               PROVE  \/ <<i, Outs[lfs[s]][i]>> \in got[s]
                      \/ leafBlk # None /\ i \notin LeafsetOf(leafBlk)
    BY DEF ReplayTruth
  <2>1. Missing(s, lfs[s]) \cap LeafsetOf(leafBlk) = {}
    BY DEF Covered, Right, ReplayRight
  <2>2. leafBlk # None
    BY DEF Due, LeafsetOf, Kept
  <2> QED
    BY <2>1, <2>2 DEF Missing
<1> QED
  BY <1>1, <1>2, <1>3, AlwaysCovered, PTL DEF Spec
-------------------------------------------------------------------------------
(* The coin store that the streamers read behaves as ChainView. *)

Seen == {leafMap[i] : i \in {j \in LeafsetOf(leafBlk) : leafMap[j] # None}}

LEMMA SeenIsUnspent == TypeOK /\ Stored => Seen = UnspentOf(leafBlk)
<1> SUFFICES ASSUME TypeOK, Stored PROVE Seen = UnspentOf(leafBlk)
  OBVIOUS
<1>1. CASE leafBlk = None
  BY <1>1 DEF Seen, LeafsetOf, UnspentOf
<1>2. CASE leafBlk # None
  <2>1. leafBlk \in Blocks /\ LeafsetOf(leafBlk) = Unspent[leafBlk]
    BY <1>2 DEF TypeOK, LeafsetOf
  <2>2. \A i \in Unspent[leafBlk] : leafMap[i] = Outs[leafBlk][i] /\ leafMap[i] # None
    BY <2>1, OutsType, MwebAssumption DEF Stored
  <2> QED
    BY <1>2, <2>1, <2>2 DEF Seen, UnspentOf
<1> QED
  BY <1>1, <1>2

LEMMA ViewStep ==
    ASSUME IInv, Stored, Stored', TypeOK', [Next]_vars
    PROVE  [CV!Next]_CV!vars
<1>1. Seen = UnspentOf(leafBlk) /\ Seen' = UnspentOf(leafBlk')
  <2>1. (TypeOK /\ Stored)' => (Seen = UnspentOf(leafBlk))'
    BY SeenIsUnspent, PTL
  <2> QED
    BY <2>1, SeenIsUnspent DEF IInv, UnspentOf
<1>2. CASE leafBlk' = leafBlk
  BY <1>1, <1>2 DEF CV!vars, Seen
<1>3. CASE PutLeafsetAndPurge
  <2>1. leafBlk' = target /\ target \in Blocks /\ Fetching
    BY <1>3 DEF PutLeafsetAndPurge, IInv, TypeOK, Fetching
  <2>2. leafBlk = None \/ Comparable(leafBlk, target)
    BY <2>1 DEF Stored
  <2>3. /\ Comparable(leafBlk, target) => CV!Comparable(leafBlk, target)
        /\ CV!UnspentOf(target) = UnspentOf(target)
        /\ CV!UnspentOf(leafBlk) = UnspentOf(leafBlk)
    BY DEF Comparable, On, Height, UnspentOf,
           CV!Comparable, CV!On, CV!Height, CV!UnspentOf
  <2>4. Seen' = (Seen \cap UnspentOf(target)) \cup (UnspentOf(target) \ UnspentOf(leafBlk))
    BY <1>1, <2>1
  <2>5. CV!Move(target)
    <3>1. Seen' \subseteq UnspentOf(target)
      BY <1>1, <2>1
    <3>2. CV!Same(Seen', (Seen \cap UnspentOf(target))
                            \cup (UnspentOf(target) \ UnspentOf(leafBlk)))
      BY <2>4, Zenon DEF CV!Same
    <3> QED
      BY <2>1, <2>2, <2>3, <3>1, <3>2 DEF CV!Move, Seen
  <2>6. \E b \in Blocks : CV!Move(b)
    BY <2>1, <2>5 DEF CV!Move
  <2> QED
    BY <2>6 DEF CV!Next
<1>4. CASE PurgeCoins
  <2>1. leafBlk' = None
    BY <1>4 DEF PurgeCoins
  <2>2. CV!Forget
    <3>1. LeafsetOf(leafBlk)' = {}
      BY <2>1 DEF LeafsetOf
    <3>2. Seen' = {}
      BY <3>1 DEF Seen
    <3> QED
      BY <2>1, <3>2 DEF CV!Forget, Seen
  <2> QED
    BY <2>2 DEF CV!Next
<1>5. ~PutLeafsetAndPurge /\ ~PurgeCoins => leafBlk' = leafBlk
  BY NextCases, UtxosFrame, HandlerFrame
     DEF Source, MwebRound, BeginRound, LockCallbacks, PutCoins, QueryFails, Relayed, Broadcast,
         vars, handler, sources, storeVars
<1> QED
  BY <1>2, <1>3, <1>4, <1>5

(* What the streamers read is the unspent set of one block at a time, and   *)
(* that block moves along one branch or is forgotten: the environment this  *)
(* model gives them is the one that MwebSync's coin store implements.       *)
THEOREM StreamsReadChainView == Spec => StoreIsChainView
<1>1. Init => CV!Init
  <2>1. Init => IInv /\ Covered
    BY InitInv, InitCovered
  <2>2. Init => Seen = UnspentOf(leafBlk)
    BY <2>1, SeenIsUnspent DEF IInv, Covered
  <2>3. CV!UnspentOf(leafBlk) = UnspentOf(leafBlk)
    BY DEF UnspentOf, CV!UnspentOf
  <2> QED
    BY <2>2, <2>3 DEF Init, CV!Init, Seen
<1>2. (IInv /\ Covered) /\ (IInv /\ Covered)' /\ [Next]_vars => [CV!Next]_CV!vars
  BY ViewStep DEF IInv, Covered
<1> QED
  BY <1>1, <1>2, AlwaysCovered, PTL DEF Spec, StoreIsChainView, CV!Spec
===============================================================================
