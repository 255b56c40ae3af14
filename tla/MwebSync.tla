------------------------------ MODULE MwebSync -------------------------------
(***************************************************************************)
(* How the MWEB coin store follows the header chain.  Two goroutines of    *)
(* neutrino's block manager share the header store and the coin store:     *)
(*                                                                         *)
(*   blockHandler  connects headers and performs reorgs (handleHeadersMsg, *)
(*                 rollBackToHeight); before it truncates the header store *)
(*                 it leaves the fork height in the coin store, the        *)
(*                 "rollback mark";                                        *)
(*   mwebHandler   picks a block (the tip, or the fork the mark names),    *)
(*                 verifies its leafset, fetches the coins the stored      *)
(*                 leafset lacks, stores the new leafset and removes the   *)
(*                 coins it no longer has, then clears the mark.           *)
(*                                                                         *)
(* Every database transaction and every header-file update is one action,  *)
(* so a crash can fall between any two of them.                            *)
(***************************************************************************)
EXTENDS BlockTree

CONSTANTS
    Activation,   \* mwebActivationHeight; below 1 it precedes the first header
    Sparse,       \* TRUE: the store was seeded by a restore checkpoint
    PurgeDepth,   \* 10 in the code: reorgs deeper than this empty the store
    Stride,       \* 100 in the code: sampling of old leaf counts
    Dense,        \* 4000 in the code: the last heights all have their leaf count
    BatchSize,    \* 1000 in the code: heights in a batch of header queries
    MaxFaults,    \* bound: crashes plus failed network queries
    Hazards       \* environment behaviours allowed, see below

(* "overlap"  a reorg may begin before the sync after an earlier one is over *)
(* "slow"     a network query may complete while rollBackToHeight is running *)
(* "stale"    a peer may serve MWEB data of a block off the current branch   *)
(* "known"    a peer may send only headers the store already has             *)
(* "silent"   BlockHeadersSynced may change without a headers message        *)
HazardKinds == {"overlap", "slow", "stale", "known", "silent"}

ASSUME MwebSyncAssumption ==
    /\ Activation \in Nat
    /\ Sparse \in BOOLEAN
    /\ PurgeDepth \in Nat
    /\ Stride \in Nat \ {0}
    /\ Dense \in Nat
    /\ BatchSize \in Nat \ {0}
    /\ MaxFaults \in Nat
    /\ Hazards \subseteq HazardKinds

VARIABLES
    \* blockHandler and the header store (blockmanager.go, headerfs)
    tip,        \* the last block of the header store; its path is the store
    headerTip,  \* blockManager.headerTip, under newHeadersMtx
    synced,     \* what BlockHeadersSynced returns
    bhPc,       \* where handleHeadersMsg is
    fork,       \* the height rollBackToHeight goes down to
    target,     \* the block the headers message leads to
    final,      \* handleHeadersMsg's finalHeight
    \* the coin store (mwebdb)
    mark,       \* rollbackHeight, 0 when absent
    leafBlk,    \* the block of the stored leafset, None when absent
    leafMap,    \* leafBucket: leaf index |-> output ID
    coins,      \* coinBucket: output ID |-> its height, 0 when absent
    leavesAt,   \* heightBucket: height |-> leaf count, 0 when absent
    \* mwebHandler's locals
    pc,
    last,       \* lastHeader, lastHeight
    rb,         \* rollbackHeight
    pass,       \* getMwebHeaders' call of fetch: strided, then dense
    from,       \* the height it has come to
    asked,      \* the heights the strided pass asked for
    hdrTip,     \* the branch the block hashes of the batch were read from
    todo,       \* the added leaves not fetched yet
    faults      \* crashes and failed queries so far

bhVars  == <<tip, headerTip, synced, bhPc, fork, target, final>>
dbVars  == <<mark, leafBlk, leafMap, coins, leavesAt>>
loop    == <<pass, from, asked, hdrTip>>
locals  == <<last, rb, loop, todo>>
vars    == <<bhVars, dbVars, pc, locals, faults>>

NoLeafMap == [i \in Leaves |-> None]
NoCoins   == [o \in Output |-> 0]
NoCounts  == [h \in Heights |-> 0]

Init ==
    /\ tip = Base /\ headerTip = Height(Base) /\ synced \in BOOLEAN
    /\ bhPc = "idle" /\ fork = 0 /\ target = Base /\ final = 0
    /\ mark = 0 /\ leafMap = NoLeafMap /\ coins = NoCoins
    /\ IF Sparse THEN /\ leafBlk = Base
                      /\ leavesAt = [NoCounts EXCEPT ![Height(Base)] = Len(Outs[Base])]
                 ELSE leafBlk = None /\ leavesAt = NoCounts
    /\ pc = "start" /\ last = Base /\ rb = 0 /\ hdrTip = Base /\ todo = {}
    /\ pass = "strided" /\ from = 0 /\ asked = {}
    /\ faults = 0
-----------------------------------------------------------------------------
(* blockHandler *)

(* Headers that extend the tip: the batch is written in one WriteHeaders. *)
ConnectHeaders(b) ==
    /\ bhPc = "idle"
    /\ b # tip /\ On(tip, b)
    /\ tip' = b
    /\ synced' \in BOOLEAN
    /\ final' = Height(b)
    /\ bhPc' = "publish"
    /\ UNCHANGED <<headerTip, fork, target, dbVars, pc, locals, faults>>

(* Mutant: finalHeight starts from -1. *)
KnownHeadersNegative ==
    /\ "known" \in Hazards
    /\ bhPc = "idle"
    /\ final' = -1
    /\ bhPc' = "publish"
    /\ UNCHANGED <<tip, headerTip, synced, fork, target, dbVars, pc, locals, faults>>

(* Every header of the message is known: finalHeight keeps its zero value. *)
KnownHeaders ==
    /\ "known" \in Hazards
    /\ bhPc = "idle"
    /\ final' = 0
    /\ bhPc' = "publish"
    /\ UNCHANGED <<tip, headerTip, synced, fork, target, dbVars, pc, locals, faults>>

(* Mutant: the rollback mark is forgotten. *)
StartReorgUnmarked(b, f) ==
    /\ bhPc = "idle"
    /\ f < Height(tip) /\ f < Height(b)
    /\ Path[b][f] = Path[tip][f]
    /\ Path[b][f + 1] # Path[tip][f + 1]
    /\ Work[b] > Work[tip]
    /\ fork' = f
    /\ target' = b
    /\ synced' \in BOOLEAN
    /\ bhPc' = "rolling"
    /\ UNCHANGED <<tip, headerTip, final, dbVars, pc, locals, faults>>

(* The sync after a reorg is over: no mark is stored, and the handler holds *)
(* none, as it still does when its round has emptied the store.             *)
Holding == {"decide", "trim", "ask", "headers", "query", "size", "diff", "fetch", "clear"}
Settled == mark = 0 /\ (pc \in Holding => rb = 0)

(* Headers of a branch with more work that leaves the chain at height f:   *)
(* rollBackToHeight records f in the coin store before anything else.      *)
StartReorg(b, f) ==
    /\ bhPc = "idle"
    /\ f < Height(tip) /\ f < Height(b)
    /\ Path[b][f] = Path[tip][f]
    /\ Path[b][f + 1] # Path[tip][f + 1]
    /\ Work[b] > Work[tip]
    /\ "overlap" \in Hazards \/ Settled
    /\ mark' = f
    /\ fork' = f
    /\ target' = b
    /\ synced' \in BOOLEAN
    /\ bhPc' = "rolling"
    /\ UNCHANGED <<tip, headerTip, final, leafBlk, leafMap, coins, leavesAt, pc, locals, faults>>

(* One turn of rollBackToHeight's loop: RollbackLastBlock on the store. *)
RollbackBlock ==
    /\ bhPc = "rolling"
    /\ Height(tip) > fork
    /\ tip' = Path[tip][Height(tip) - 1]
    /\ UNCHANGED <<headerTip, synced, bhPc, fork, target, final, dbVars, pc, locals, faults>>

(* The first header of the new branch is written on its own ... *)
WriteBranchHead ==
    /\ bhPc = "rolling"
    /\ Height(tip) = fork
    /\ tip' = Path[target][fork + 1]
    /\ bhPc' = "batch"
    /\ UNCHANGED <<headerTip, synced, fork, target, final, dbVars, pc, locals, faults>>

(* ... and the rest as a batch.  finalHeight is set only by the headers of *)
(* the batch: a branch of a single header leaves it zero.                  *)
WriteBranchRest ==
    /\ bhPc = "batch"
    /\ tip' = target
    /\ final' = IF target = tip THEN 0 ELSE Height(target)
    /\ synced' \in BOOLEAN
    /\ bhPc' = "publish"
    /\ UNCHANGED <<headerTip, fork, target, dbVars, pc, locals, faults>>

Woken == CASE pc = "sleepSynced" -> "start"
           [] pc = "sleepTip"    -> "wait"
           [] OTHER              -> pc

(* headerTip is set under newHeadersMtx and newHeadersSignal broadcast. *)
Publish ==
    /\ bhPc = "publish"
    /\ headerTip' = final
    /\ bhPc' = "idle"
    /\ pc' = Woken
    /\ UNCHANGED <<tip, synced, fork, target, final, dbVars, locals, faults>>

(* The sync peer changes or announces a block, or the clock moves. *)
SyncedChanges ==
    /\ "silent" \in Hazards
    /\ synced' = ~synced
    /\ UNCHANGED <<tip, headerTip, bhPc, fork, target, final, dbVars, pc, locals, faults>>
-----------------------------------------------------------------------------
(* mwebHandler *)

WaitHeadersSynced ==
    /\ pc = "start"
    /\ pc' = IF synced THEN "tip" ELSE "sleepSynced"
    /\ UNCHANGED <<bhVars, dbVars, locals, faults>>

ReadChainTip ==
    /\ pc = "tip"
    /\ last' = tip
    /\ pc' = "mark"
    /\ UNCHANGED <<bhVars, dbVars, rb, loop, todo, faults>>

GetRollbackHeight ==
    /\ pc = "mark"
    /\ rb' = mark
    /\ pc' = "decide"
    /\ UNCHANGED <<bhVars, dbVars, last, loop, todo, faults>>

RollbackPending == rb > 0 /\ rb < Height(last)

KeepTip ==
    /\ pc = "decide"
    /\ ~RollbackPending
    /\ pc' = "trim"
    /\ UNCHANGED <<bhVars, dbVars, locals, faults>>

(* Mutant: the leafset bucket survives the purge. *)
PurgeCoinsOnly ==
    /\ pc = "decide"
    /\ RollbackPending /\ Height(last) - rb > PurgeDepth
    /\ mark' = 0
    /\ leafMap' = NoLeafMap /\ coins' = NoCoins /\ leavesAt' = NoCounts
    /\ pc' = "trim"
    /\ UNCHANGED <<bhVars, leafBlk, locals, faults>>

(* A deep reorg: the store is emptied, its rollback mark included. *)
PurgeCoins ==
    /\ pc = "decide"
    /\ RollbackPending /\ Height(last) - rb > PurgeDepth
    /\ mark' = 0 /\ leafBlk' = None
    /\ leafMap' = NoLeafMap /\ coins' = NoCoins /\ leavesAt' = NoCounts
    /\ pc' = "trim"
    /\ UNCHANGED <<bhVars, locals, faults>>

(* Mutant: the round goes straight to the tip of the new branch. *)
StepToTip ==
    /\ pc = "decide"
    /\ RollbackPending /\ Height(last) - rb <= PurgeDepth
    /\ pc' = "trim"
    /\ UNCHANGED <<bhVars, dbVars, locals, faults>>

(* A shallow one: sync to the block at the fork first.  FetchHeaderByHeight *)
(* fails when the store has meanwhile shrunk below rb, and the handler ends. *)
StepToFork ==
    /\ pc = "decide"
    /\ RollbackPending /\ Height(last) - rb <= PurgeDepth
    /\ IF rb <= Height(tip) THEN last' = Path[tip][rb] /\ pc' = "trim"
                            ELSE last' = last /\ pc' = "dead"
    /\ UNCHANGED <<bhVars, dbVars, rb, loop, todo, faults>>

(* mwebHeaderStartHeight. *)
StartHeight ==
    LET stored == IF leafBlk = None THEN 0 ELSE Height(leafBlk)
    IN  IF stored > Activation THEN stored ELSE Activation

(* Mutant: the leaf counts of the abandoned branch stay. *)
KeepLeavesAtHeight ==
    /\ pc = "trim"
    /\ from' = StartHeight
    /\ pc' = "ask"
    /\ UNCHANGED <<bhVars, dbVars, last, rb, pass, asked, hdrTip, todo, faults>>

(* Then getMwebHeaders begins: the counts it finds stored are not asked for. *)
RollbackLeavesAtHeight ==
    /\ pc = "trim"
    /\ leavesAt' = [h \in Heights |-> IF rb > 0 /\ h > rb THEN 0 ELSE leavesAt[h]]
    /\ from' = StartHeight
    /\ pc' = "ask"
    /\ UNCHANGED <<bhVars, mark, leafBlk, leafMap, coins, last, rb, pass, asked, hdrTip,
                   todo, faults>>

(* Every Stride-th height is asked for, then all of the last ones. *)
DenseHeight ==
    LET hi == Height(last)
    IN  IF hi > Dense /\ StartHeight < hi - Dense THEN hi - Dense ELSE StartHeight
PassStride == IF pass = "strided" THEN Stride ELSE 1
ToHeight ==
    LET h == from + BatchSize * PassStride
    IN  IF h > Height(last) THEN Height(last) ELSE h

(* The heights of the batch without a count when getMwebHeaders began. *)
WantedHeights ==
    {h \in from..(ToHeight - 1) :
        /\ (h - from) % PassStride = 0
        /\ h \in Heights => leavesAt[h] = 0 \/ h \in asked}

(* getMwebHeaders is over, at its end or with an error. *)
EndLoop == pass' = "strided" /\ from' = 0 /\ asked' = {} /\ UNCHANGED hdrTip

(* Block hashes are read by height; a missing header abandons the round. *)
AskMwebHeaders ==
    /\ pc = "ask" /\ from < Height(last)
    /\ \/ /\ WantedHeights = {}
          /\ from' = ToHeight
          /\ UNCHANGED <<pc, pass, asked, hdrTip>>
       \/ /\ WantedHeights # {} /\ WantedHeights \subseteq 1..Height(tip)
          /\ hdrTip' = tip /\ pc' = "headers"
          /\ UNCHANGED <<pass, from, asked>>
       \/ /\ ~(WantedHeights \subseteq 1..Height(tip))
          /\ pc' = "start" /\ EndLoop
    /\ UNCHANGED <<bhVars, dbVars, last, rb, todo, faults>>

EndPass ==
    /\ pc = "ask" /\ from >= Height(last)
    /\ \/ /\ pass = "strided"
          /\ pass' = "dense" /\ from' = DenseHeight
          /\ UNCHANGED <<pc, asked, hdrTip>>
       \/ /\ pass = "dense"
          /\ pc' = "query" /\ EndLoop
    /\ UNCHANGED <<bhVars, dbVars, last, rb, todo, faults>>

(* What peers can be expected to answer for block b, and when. *)
Served(b) == "stale" \in Hazards \/ On(b, tip)
NetworkStep(b) ==
    /\ Served(b)
    /\ "slow" \in Hazards \/ bhPc # "rolling"

(* getMwebHeaderBatch has all its answers. *)
PutMwebHeaders ==
    /\ pc = "headers"
    /\ NetworkStep(hdrTip)
    /\ leavesAt' = [h \in Heights |-> IF h \in WantedHeights THEN Len(Outs[Path[hdrTip][h]])
                                                             ELSE leavesAt[h]]
    /\ asked' = IF pass = "strided" THEN asked \cup WantedHeights ELSE asked
    /\ from' = ToHeight
    /\ pc' = "ask"
    /\ UNCHANGED <<bhVars, mark, leafBlk, leafMap, coins, last, rb, pass, hdrTip, todo, faults>>

(* A peer's header and leafset for last verify: the answers of all peers are *)
(* one here.  In the code a leafset that comes in after the verified one, and *)
(* before the query has ended, takes its place unverified; not modelled.      *)
VerifyLeafset ==
    /\ pc = "query"
    /\ NetworkStep(last)
    /\ pc' = "size"
    /\ UNCHANGED <<bhVars, dbVars, locals, faults>>

PutLeavesAtHeight ==
    /\ pc = "size"
    /\ leavesAt' = [leavesAt EXCEPT ![Height(last)] = Len(Outs[last])]
    /\ pc' = "diff"
    /\ UNCHANGED <<bhVars, mark, leafBlk, leafMap, coins, locals, faults>>

(* getMwebUtxos: leaves in both leafsets are not fetched again. *)
DiffLeafsets ==
    /\ pc = "diff"
    /\ todo' = Unspent[last] \ LeafsetOf(leafBlk)
    /\ pc' = "fetch"
    /\ UNCHANGED <<bhVars, dbVars, last, rb, loop, faults>>

(* The rough height of a leaf: the first height known to have that many. *)
FirstWith(i, h) == leavesAt[h] >= i /\ \A k \in Heights : leavesAt[k] >= i => h <= k
RoughHeight(i) ==
    IF \E h \in Heights : FirstWith(i, h) THEN CHOOSE h \in Heights : FirstWith(i, h)
                                         ELSE Height(last)

(* One verified mwebutxos reply is stored. *)
PutCoins(i) ==
    /\ pc = "fetch"
    /\ i \in todo
    /\ NetworkStep(last)
    /\ leafMap' = [leafMap EXCEPT ![i] = Outs[last][i]]
    /\ coins' = [coins EXCEPT ![Outs[last][i]] = RoughHeight(i)]
    /\ todo' = todo \ {i}
    /\ UNCHANGED <<bhVars, mark, leafBlk, leavesAt, pc, last, rb, loop, faults>>

(* The removed leaves are those getMwebUtxos computed at "diff": only this *)
(* goroutine writes the leafset.  Leaves without a mapping are skipped.    *)
RemovedLeaves == LeafsetOf(leafBlk) \ Unspent[last]

PutLeafsetAndPurge ==
    /\ pc = "fetch"
    /\ todo = {}
    /\ leafBlk' = last
    /\ coins' = [o \in Output |-> IF \E i \in RemovedLeaves : leafMap[i] = o
                                    THEN 0 ELSE coins[o]]
    /\ leafMap' = [i \in Leaves |-> IF i \in RemovedLeaves THEN None ELSE leafMap[i]]
    /\ pc' = "clear"
    /\ UNCHANGED <<bhVars, mark, leavesAt, locals, faults>>

(* Mutant: whatever mark is there is deleted. *)
ClearAnyRollbackHeight ==
    /\ pc = "clear"
    /\ mark' = 0
    /\ pc' = "recheck"
    /\ UNCHANGED <<bhVars, leafBlk, leafMap, coins, leavesAt, locals, faults>>

(* Compare and delete, so that a mark set meanwhile survives. *)
ClearRollbackHeight ==
    /\ pc = "clear"
    /\ mark' = IF mark = rb THEN 0 ELSE mark
    /\ pc' = "recheck"
    /\ UNCHANGED <<bhVars, leafBlk, leafMap, coins, leavesAt, locals, faults>>

Recheck ==
    /\ pc = "recheck"
    /\ pc' = IF ~synced \/ Height(last) < headerTip THEN "start" ELSE "wait"
    /\ UNCHANGED <<bhVars, dbVars, locals, faults>>

(* Mutant: the header tip is not looked at before sleeping. *)
WaitUnchecked ==
    /\ pc = "wait"
    /\ pc' = "sleepTip"
    /\ UNCHANGED <<bhVars, dbVars, locals, faults>>

WaitHeaderTip ==
    /\ pc = "wait"
    /\ pc' = IF Height(last) >= headerTip THEN "sleepTip" ELSE "start"
    /\ UNCHANGED <<bhVars, dbVars, locals, faults>>

(* A query fails or times out and the round is abandoned. *)
QueryFails ==
    /\ pc \in {"headers", "query", "fetch"}
    /\ faults < MaxFaults
    /\ faults' = faults + 1
    /\ pc' = "start" /\ EndLoop
    /\ UNCHANGED <<bhVars, dbVars, last, rb, todo>>

(* ... which it must when no peer has the data any more. *)
QueryTimesOut ==
    /\ \/ pc = "headers" /\ ~Served(hdrTip)
       \/ pc \in {"query", "fetch"} /\ ~Served(last)
    /\ pc' = "start" /\ EndLoop
    /\ UNCHANGED <<bhVars, dbVars, last, rb, todo, faults>>
-----------------------------------------------------------------------------
(* The process stops (crash or shutdown) and starts again on what is stored. *)
Restart ==
    /\ faults < MaxFaults
    /\ faults' = faults + 1
    /\ headerTip' = Height(tip)
    /\ synced' \in BOOLEAN
    /\ bhPc' = "idle" /\ fork' = 0 /\ target' = Base /\ final' = 0
    /\ pc' = "start" /\ last' = Base /\ rb' = 0 /\ hdrTip' = Base /\ todo' = {}
    /\ pass' = "strided" /\ from' = 0 /\ asked' = {}
    /\ UNCHANGED <<tip, dbVars>>

BlockHandler ==
    \/ \E b \in Blocks : ConnectHeaders(b)
    \/ KnownHeaders
    \/ \E b \in Blocks, f \in Heights : StartReorg(b, f)
    \/ RollbackBlock \/ WriteBranchHead \/ WriteBranchRest \/ Publish

MwebHandler ==
    \/ WaitHeadersSynced \/ ReadChainTip \/ GetRollbackHeight
    \/ KeepTip \/ PurgeCoins \/ StepToFork \/ RollbackLeavesAtHeight
    \/ AskMwebHeaders \/ PutMwebHeaders \/ EndPass \/ VerifyLeafset \/ PutLeavesAtHeight
    \/ DiffLeafsets \/ (\E i \in Leaves : PutCoins(i)) \/ PutLeafsetAndPurge
    \/ ClearRollbackHeight \/ Recheck \/ WaitHeaderTip \/ QueryTimesOut

Next == BlockHandler \/ MwebHandler \/ SyncedChanges \/ QueryFails \/ Restart

Spec == Init /\ [][Next]_vars

(* A message being handled is handled to its end; the handler is scheduled, *)
(* and a query it makes is answered or fails.                               *)
Fairness ==
    /\ WF_vars(RollbackBlock \/ WriteBranchHead \/ WriteBranchRest \/ Publish)
    /\ WF_vars(MwebHandler)

FairSpec == Spec /\ Fairness
-----------------------------------------------------------------------------
(* Properties *)

(* The environment of the theorems: reorgs do not overlap, no query          *)
(* completes in the middle of a rollback, and if a reorg may be so deep that *)
(* the store is emptied, no peer serves the branch that was left.            *)
Calm ==
    /\ "overlap" \notin Hazards
    /\ "slow" \notin Hazards
    /\ "stale" \notin Hazards \/ \A b \in Blocks : Height(b) <= PurgeDepth

(* Every height up to the one synced to gets its leaf count. *)
CountsAll ==
    /\ Activation <= 1
    /\ Stride = 1 \/ \A b \in Blocks : Height(b) <= Dense

TypeOK ==
    /\ tip \in Blocks /\ headerTip \in Nat /\ synced \in BOOLEAN
    /\ bhPc \in {"idle", "rolling", "batch", "publish"}
    /\ fork \in Nat /\ target \in Blocks /\ final \in Nat
    /\ mark \in Nat /\ leafBlk \in Blocks \cup {None}
    /\ leafMap \in [Leaves -> Output \cup {None}]
    /\ coins \in [Output -> Nat]
    /\ leavesAt \in [Heights -> Nat]
    /\ pc \in {"start", "sleepSynced", "tip", "mark", "decide", "dead", "trim", "ask",
               "headers", "query", "size", "diff", "fetch", "clear", "recheck",
               "wait", "sleepTip"}
    /\ last \in Blocks /\ rb \in Nat /\ hdrTip \in Blocks
    /\ pass \in {"strided", "dense"} /\ from \in Nat /\ asked \subseteq Heights
    /\ todo \subseteq Leaves /\ faults \in Nat

(* Whatever the interleaving of reorgs, failed rounds and restarts, every   *)
(* leaf of the stored leafset leads to the output that this block has there, *)
(* and its coin can be read back.  A restore checkpoint's own leaves may be  *)
(* unknown, and the coin of an output that some branch mines twice may be    *)
(* gone (MinedOnce).  (GetLeafset and FetchLeaves serve Utxos from this.)    *)
Backed(i) == /\ leafMap[i] = Outs[leafBlk][i]
             /\ leafMap[i] \in MinedOnce => coins[leafMap[i]] > 0
LeafsetBacked ==
    leafBlk # None =>
        \A i \in Unspent[leafBlk] :
            Backed(i) \/ (Sparse /\ i \in Unspent[Base] /\ leafMap[i] = None)

(* The rollback mark is never lost: where the stored leafset's block and the *)
(* header chain part, a mark at or below the fork is in the coin store.      *)
(* (rollBackToHeight's PutRollbackHeight against ClearRollbackHeight.)       *)
Meets(b) ==
    LET h == IF mark = 0 \/ mark > Height(b) THEN Height(b) ELSE mark
    IN  h <= Height(tip) /\ Path[b][h] = Path[tip][h]
MarkCoversFork == leafBlk # None => Meets(leafBlk)

(* With every leaf count at hand, the height a coin is stored with is that  *)
(* of the block that created it, once no reorg is pending: no leaf count of *)
(* an abandoned branch is ever used for it (RollbackLeavesAtHeight).  Of an *)
(* output mined twice, the coin is that of whichever leaf came last.        *)
CoinHeightsExact ==
    leafBlk # None /\ mark = 0 =>
        \A i \in Unspent[leafBlk] :
            Backed(i) /\ leafMap[i] \in MinedOnce => coins[leafMap[i]] = MinedAt(leafBlk, i)

(* The coin store implements ChainView: readers see the unspent outputs of  *)
(* one block, and the view changes branch only through a common ancestor.   *)
Shown == {o \in Output : coins[o] > 0 /\ \E i \in LeafsetOf(leafBlk) : leafMap[i] = o}
CV == INSTANCE ChainView WITH view <- leafBlk, utxos <- Shown
ImplementsChainView == CV!Spec

(* Once headers stop arriving, and if they leave the client synced, the coin *)
(* store reaches the header tip and no rollback stays pending.               *)
CatchesUp == <>[](synced => leafBlk = tip /\ mark = 0)

(* Said by mwebd.proto of the Spent call, which looks outputs up in the coin *)
(* bucket: what it finds is in the unspent set.  Checked at rest.            *)
FoundIsUnspent ==
    pc = "sleepTip" => \A o \in Output : coins[o] > 0 => o \in UnspentOf(leafBlk)
=============================================================================
