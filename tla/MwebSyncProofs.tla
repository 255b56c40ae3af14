--------------------------- MODULE MwebSyncProofs ----------------------------
(***************************************************************************)
(* Proofs that in a Calm environment the stored leafset is always backed   *)
(* by coins and the rollback mark always covers the fork, for every block  *)
(* tree and every number of faults, that MwebSync implements ChainView,    *)
(* and, when every height gets its leaf count, that coins are stored with  *)
(* the height they were mined at.                                          *)
(***************************************************************************)
EXTENDS TLAPS, MwebSync, BlockTreeProofs

(* After the choice of the block to sync to; after its leafset has been     *)
(* verified.  (Holding: after the reading of the mark.)                     *)
Picked   == {"trim", "ask", "headers", "query", "size", "diff", "fetch", "clear"}
Verified == {"size", "diff", "fetch", "clear"}

(* A mark the handler has read stays until the handler clears it, or empties *)
(* the store to sync to a block above it; and no rollback runs while it is   *)
(* about to be cleared.                                                      *)
MarkHeld ==
    /\ pc = "decide" /\ rb # 0 => mark = rb
    /\ pc \in Picked /\ rb # 0 => mark = IF Height(last) <= rb THEN rb ELSE 0
    /\ pc \in Picked \ {"clear"} /\ rb # 0 /\ mark = 0 => leafBlk = None
    /\ bhPc = "rolling" /\ pc \in Verified => rb = 0 /\ mark # 0

(* The block handler's own bookkeeping during a reorg, whose mark may go     *)
(* with everything else in the store.                                        *)
Emptied == leafBlk = None /\ "stale" \notin Hazards
ReorgShape ==
    /\ bhPc = "rolling" => /\ mark = fork \/ (mark = 0 /\ Emptied)
                           /\ fork > 0 /\ fork <= Height(tip) /\ fork < Height(target)
                           /\ Path[tip][fork] = Path[target][fork]
    /\ bhPc = "batch" => On(tip, target)

(* The block the handler syncs to is in the reach of the mark, or the store  *)
(* is empty and no peer will serve that block.                               *)
Astray == Emptied /\ pc \notin Verified
LastMeets == pc \in {"mark"} \cup Holding => Meets(last) \/ Astray

(* The handler never diffs two leafsets of different branches. *)
SameBranch ==
    pc \in Picked \/ (pc = "decide" /\ rb = 0) =>
        leafBlk = None \/ Comparable(leafBlk, last)

(* What has been fetched so far is stored, and the rest is still to do. *)
FetchShape ==
    /\ pc = "fetch" =>
         /\ todo \subseteq Unspent[last] \ LeafsetOf(leafBlk)
         /\ \A i \in (Unspent[last] \ LeafsetOf(leafBlk)) \ todo :
              /\ leafMap[i] = Outs[last][i]
              /\ leafMap[i] \in MinedOnce => coins[leafMap[i]] > 0
    /\ pc = "clear" => leafBlk = last
    /\ pc = "headers" => WantedHeights \subseteq 1..Height(hdrTip)

IInv == /\ TypeOK /\ MarkHeld /\ ReorgShape /\ LastMeets /\ SameBranch
        /\ FetchShape /\ LeafsetBacked /\ MarkCoversFork
-----------------------------------------------------------------------------
(* The relation of a block to the header chain that the mark speaks of. *)

(* The height up to which b must agree with the header chain. *)
Bound(b) == IF mark = 0 \/ mark > Height(b) THEN Height(b) ELSE mark

LEMMA MeetsBound ==
    ASSUME NEW b \in Blocks, mark \in Nat
    PROVE  /\ Bound(b) \in 1..Height(b)
           /\ Meets(b) <=> Bound(b) <= Height(tip) /\ Path[b][Bound(b)] = Path[tip][Bound(b)]
BY HeightType DEF Bound, Meets

(* With no mark, to meet the chain is to be on it. *)
LEMMA MeetsOn ==
    ASSUME NEW b \in Blocks, mark \in Nat, tip \in Blocks, Meets(b),
           mark = 0 \/ Height(b) <= mark
    PROVE  On(b, tip)
<1>1. Bound(b) = Height(b)
  BY HeightType DEF Bound
<1> QED
  BY <1>1, MeetsBound, OnTip DEF On

(* A new tip that keeps the path up to a height keeps what is met below it. *)
LEMMA MeetsKept ==
    ASSUME NEW b \in Blocks, mark \in Nat, mark' = mark, tip \in Blocks, tip' \in Blocks,
           Meets(b), Bound(b) <= Height(tip'),
           \A k \in 1..Height(tip) : k <= Height(tip') /\ k <= Bound(b) => Path[tip'][k] = Path[tip][k]
    PROVE  Meets(b)'
<1>1. Bound(b)' = Bound(b)
  BY DEF Bound
<1>2. Bound(b) \in 1..Height(b) /\ Bound(b) <= Height(tip) /\ Path[b][Bound(b)] = Path[tip][Bound(b)]
  BY MeetsBound
<1>3. Path[tip'][Bound(b)] = Path[tip][Bound(b)]
  BY <1>2, HeightType
<1> QED
  BY <1>1, <1>2, <1>3 DEF Meets, Bound
-----------------------------------------------------------------------------
(* The initial states. *)

LEMMA InitInv == Init => IInv
<1> SUFFICES ASSUME Init PROVE IInv
  OBVIOUS
<1>1. TypeOK
  <2>1. /\ NoLeafMap \in [Leaves -> Output \cup {None}]
        /\ NoCoins \in [Output -> Nat]
        /\ NoCounts \in [Heights -> Nat]
    BY DEF NoLeafMap, NoCoins, NoCounts
  <2>2. Base \in Blocks /\ Height(Base) \in Nat /\ Len(Outs[Base]) \in Nat
    BY PathAssumption, HeightType, OutsType
  <2>3. leavesAt \in [Heights -> Nat]
    BY <2>1, <2>2 DEF Init
  <2>4. leafMap \in [Leaves -> Output \cup {None}] /\ coins \in [Output -> Nat]
    BY <2>1 DEF Init
  <2> QED
    BY <2>2, <2>3, <2>4 DEF Init, TypeOK
<1>2. MarkHeld /\ ReorgShape /\ LastMeets /\ SameBranch /\ FetchShape
  BY DEF Init, MarkHeld, ReorgShape, LastMeets, SameBranch, FetchShape, Picked, Holding, Verified
<1>3. LeafsetBacked
  <2>1. \A i \in Unspent[Base] : leafMap[i] = None
    BY PathAssumption, OutsType DEF Init, NoLeafMap
  <2> QED
    BY <2>1, MwebSyncAssumption DEF Init, LeafsetBacked
<1>4. MarkCoversFork
  BY OnTip, HeightType, PathAssumption DEF Init, MarkCoversFork, Meets
<1> QED
  BY <1>1, <1>2, <1>3, <1>4 DEF IInv
-----------------------------------------------------------------------------
(* Every step keeps the types. *)

LEMMA PurgeFresh == ASSUME Calm, TypeOK, PurgeCoins PROVE "stale" \notin Hazards
BY HeightType, MwebSyncAssumption DEF Calm, TypeOK, PurgeCoins, RollbackPending

LEMMA RoughHeightPositive ==
    ASSUME TypeOK, NEW i \in Leaves
    PROVE  RoughHeight(i) \in Nat /\ RoughHeight(i) > 0
<1>1. \A h \in Heights : h \in Nat /\ h > 0
  BY HeightType DEF Heights
<1>2. Height(last) \in Nat /\ Height(last) > 0
  BY HeightType DEF TypeOK
<1>3. CASE \E h \in Heights : FirstWith(i, h)
  <2>1. RoughHeight(i) \in Heights
    BY <1>3 DEF RoughHeight
  <2> QED
    BY <2>1, <1>1
<1>4. CASE ~\E h \in Heights : FirstWith(i, h)
  BY <1>4, <1>2 DEF RoughHeight
<1> QED
  BY <1>3, <1>4

(* The batches of the header queries move up to the block synced to. *)
LEMMA LoopType ==
    ASSUME TypeOK
    PROVE  /\ StartHeight \in Nat /\ DenseHeight \in Nat /\ ToHeight \in Nat
           /\ PassStride \in Nat \ {0}
           /\ from < Height(last) => from < ToHeight
           /\ ToHeight <= Height(last)
<1>1. Height(last) \in Nat /\ (leafBlk # None => Height(leafBlk) \in Nat) /\ from \in Nat
  BY HeightType DEF TypeOK
<1>2. StartHeight \in Nat
  BY <1>1, MwebSyncAssumption DEF StartHeight
<1>3. DenseHeight \in Nat
  <2>1. PICK s \in Nat : s = StartHeight
    BY <1>2
  <2> QED
    BY <1>1, <2>1, MwebSyncAssumption DEF DenseHeight
<1>4. PassStride \in Nat \ {0}
  BY MwebSyncAssumption DEF PassStride
<1>5. PICK n \in Nat \ {0} : n = BatchSize * PassStride
  <2>1. \A x, y \in Nat \ {0} : x * y \in Nat \ {0}
    OBVIOUS
  <2> QED
    BY <1>4, <2>1, MwebSyncAssumption
<1>6. ToHeight \in Nat /\ ToHeight <= Height(last) /\ (from < Height(last) => from < ToHeight)
  BY <1>1, <1>5 DEF ToHeight
<1> QED
  BY <1>2, <1>3, <1>4, <1>6

LEMMA TypeStep == ASSUME Calm, IInv, [Next]_vars PROVE TypeOK'
<1> USE DEF IInv
<1>1. CASE BlockHandler
  <2>1. ASSUME NEW b \in Blocks, ConnectHeaders(b) PROVE TypeOK'
    BY <2>1, HeightType DEF ConnectHeaders, TypeOK, dbVars, locals, loop
  <2>2. CASE KnownHeaders
    BY <2>2 DEF KnownHeaders, TypeOK, dbVars, locals, loop
  <2>3. ASSUME NEW b \in Blocks, NEW f \in Heights, StartReorg(b, f) PROVE TypeOK'
    <3>1. f \in Nat
      BY HeightType DEF Heights
    <3> QED
      BY <2>3, <3>1 DEF StartReorg, TypeOK, locals, loop
  <2>4. CASE RollbackBlock
    <3>1. Height(tip) - 1 \in 1..Height(tip)
      BY <2>4, HeightType DEF RollbackBlock, TypeOK, ReorgShape
    <3>2. tip' \in Blocks
      BY <2>4, <3>1, AtType DEF RollbackBlock, TypeOK
    <3> QED
      BY <2>4, <3>2 DEF RollbackBlock, TypeOK, dbVars, locals, loop
  <2>5. CASE WriteBranchHead
    <3>1. fork + 1 \in 1..Height(target)
      BY <2>5, HeightType DEF WriteBranchHead, TypeOK, ReorgShape
    <3>2. tip' \in Blocks
      BY <2>5, <3>1, AtType DEF WriteBranchHead, TypeOK
    <3> QED
      BY <2>5, <3>2 DEF WriteBranchHead, TypeOK, dbVars, locals, loop
  <2>6. CASE WriteBranchRest
    BY <2>6, HeightType DEF WriteBranchRest, TypeOK, dbVars, locals, loop
  <2>7. CASE Publish
    BY <2>7 DEF Publish, TypeOK, Woken, dbVars, locals, loop
  <2> QED
    BY <1>1, <2>1, <2>2, <2>3, <2>4, <2>5, <2>6, <2>7 DEF BlockHandler
<1>2. CASE MwebHandler
  <2>1. CASE WaitHeadersSynced
    BY <2>1 DEF WaitHeadersSynced, TypeOK, bhVars, dbVars, locals, loop
  <2>2. CASE ReadChainTip
    BY <2>2 DEF ReadChainTip, TypeOK, bhVars, dbVars, locals, loop
  <2>3. CASE GetRollbackHeight
    BY <2>3 DEF GetRollbackHeight, TypeOK, bhVars, dbVars, locals, loop
  <2>4. CASE KeepTip
    BY <2>4 DEF KeepTip, TypeOK, bhVars, dbVars, locals, loop
  <2>5. CASE StepToFork
    <3>1. rb <= Height(tip) => Path[tip][rb] \in Blocks
      BY <2>5, AtType, HeightType DEF StepToFork, RollbackPending, TypeOK
    <3> QED
      BY <2>5, <3>1 DEF StepToFork, TypeOK, bhVars, dbVars, loop
  <2>6. CASE RollbackLeavesAtHeight
    <3>1. leavesAt' \in [Heights -> Nat]
      BY <2>6 DEF RollbackLeavesAtHeight, TypeOK
    <3>2. StartHeight \in Nat
      BY LoopType
    <3> QED
      BY <2>6, <3>1, <3>2 DEF RollbackLeavesAtHeight, TypeOK, bhVars
  <2>7. CASE AskMwebHeaders
    BY <2>7, LoopType DEF AskMwebHeaders, EndLoop, TypeOK, bhVars, dbVars
  <2>19. CASE EndPass
    BY <2>19, LoopType DEF EndPass, EndLoop, TypeOK, bhVars, dbVars
  <2>8. CASE PutMwebHeaders
    <3>1. \A h \in WantedHeights : Len(Outs[Path[hdrTip][h]]) \in Nat
      <4>1. WantedHeights \subseteq 1..Height(hdrTip)
        BY <2>8 DEF PutMwebHeaders, FetchShape
      <4> QED
        BY <4>1, AtType, OutsType DEF TypeOK
    <3>2. leavesAt' \in [Heights -> Nat]
      BY <2>8, <3>1 DEF PutMwebHeaders, TypeOK
    <3>3. WantedHeights \subseteq Heights
      BY <2>8 DEF PutMwebHeaders, FetchShape, TypeOK, Heights
    <3>4. asked' \subseteq Heights /\ from' \in Nat
      BY <2>8, <3>3, LoopType DEF PutMwebHeaders, TypeOK
    <3> QED
      BY <2>8, <3>2, <3>4 DEF PutMwebHeaders, TypeOK, bhVars
  <2>9. CASE VerifyLeafset
    BY <2>9 DEF VerifyLeafset, TypeOK, bhVars, dbVars, locals, loop
  <2>10. CASE PutLeavesAtHeight
    <3>1. Len(Outs[last]) \in Nat
      BY OutsType DEF TypeOK
    <3> QED
      BY <2>10, <3>1 DEF PutLeavesAtHeight, TypeOK, bhVars, locals, loop
  <2>11. CASE DiffLeafsets
    <3>1. Unspent[last] \subseteq Leaves
      BY OutsType DEF TypeOK
    <3> QED
      BY <2>11, <3>1 DEF DiffLeafsets, TypeOK, bhVars, dbVars, loop
  <2>12. ASSUME NEW i \in Leaves, PutCoins(i) PROVE TypeOK'
    <3>1. i \in todo /\ todo \subseteq Unspent[last]
      BY <2>12 DEF PutCoins, FetchShape
    <3>2. Outs[last][i] \in Output
      BY <3>1, OutsType DEF TypeOK
    <3>3. RoughHeight(i) \in Nat
      BY RoughHeightPositive
    <3>4. leafMap' \in [Leaves -> Output \cup {None}] /\ coins' \in [Output -> Nat]
      BY <2>12, <3>2, <3>3 DEF PutCoins, TypeOK
    <3> QED
      BY <2>12, <3>4 DEF PutCoins, TypeOK, bhVars, loop
  <2>13. CASE PutLeafsetAndPurge
    <3>1. leafMap' \in [Leaves -> Output \cup {None}] /\ coins' \in [Output -> Nat]
      BY <2>13 DEF PutLeafsetAndPurge, TypeOK
    <3> QED
      BY <2>13, <3>1 DEF PutLeafsetAndPurge, TypeOK, bhVars, locals, loop
  <2>14. CASE ClearRollbackHeight
    BY <2>14 DEF ClearRollbackHeight, TypeOK, bhVars, dbVars, locals, loop
  <2>15. CASE Recheck
    BY <2>15 DEF Recheck, TypeOK, bhVars, dbVars, locals, loop
  <2>16. CASE WaitHeaderTip
    BY <2>16 DEF WaitHeaderTip, TypeOK, bhVars, dbVars, locals, loop
  <2>17. CASE QueryTimesOut
    BY <2>17 DEF QueryTimesOut, EndLoop, TypeOK, bhVars, dbVars
  <2>18. CASE PurgeCoins
    <3>1. /\ leafMap' \in [Leaves -> Output \cup {None}]
          /\ coins' \in [Output -> Nat] /\ leavesAt' \in [Heights -> Nat]
      BY <2>18 DEF PurgeCoins, NoLeafMap, NoCoins, NoCounts
    <3> QED
      BY <2>18, <3>1 DEF PurgeCoins, TypeOK, bhVars, locals, loop
  <2> QED
    BY <1>2, <2>1, <2>2, <2>3, <2>4, <2>5, <2>6, <2>7, <2>8, <2>9, <2>10, <2>11, <2>12, <2>13,
       <2>14, <2>15, <2>16, <2>17, <2>18, <2>19 DEF MwebHandler
<1>3. CASE SyncedChanges
  BY <1>3 DEF SyncedChanges, TypeOK, dbVars, locals, loop
<1>4. CASE QueryFails
  BY <1>4 DEF QueryFails, EndLoop, TypeOK, bhVars, dbVars
<1>5. CASE Restart
  BY <1>5, HeightType, BaseType DEF Restart, TypeOK, dbVars
<1>6. CASE UNCHANGED vars
  BY <1>6 DEF TypeOK, vars, bhVars, dbVars, locals, loop
<1> QED
  BY <1>1, <1>2, <1>3, <1>4, <1>5, <1>6 DEF Next
-----------------------------------------------------------------------------
LEMMA OnMeets ==
    ASSUME NEW b \in Blocks, mark \in Nat, tip \in Blocks, On(b, tip)
    PROVE  Meets(b)
<1>1. \A k \in 1..Height(b) : Path[b][k] = Path[tip][k]
  BY OnAgree
<1> QED
  BY <1>1, HeightType DEF Meets, On

(* A block that meets the chain still does after any step, save the clearing *)
(* of a mark below that block, and a rollback without a mark.                *)
LEMMA MeetsStep ==
    ASSUME Calm, IInv, [Next]_vars, NEW b \in Blocks, Meets(b),
           ClearRollbackHeight /\ mark = rb /\ rb # 0 => Height(b) <= mark,
           RollbackBlock \/ WriteBranchHead => mark # 0,
           ~PurgeCoins
    PROVE  Meets(b)'
<1> USE DEF IInv
<1>0. /\ mark \in Nat /\ tip \in Blocks /\ TypeOK'
      /\ Bound(b) \in 1..Height(b) /\ Bound(b) <= Height(tip)
      /\ Path[b][Bound(b)] = Path[tip][Bound(b)]
      /\ Height(tip) \in Nat /\ Height(b) \in Nat
  BY MeetsBound, HeightType, TypeStep DEF TypeOK
<1>1. ASSUME NEW c \in Blocks, ConnectHeaders(c) PROVE Meets(b)'
  <2>1. \A k \in 1..Height(tip) : Path[tip'][k] = Path[tip][k]
    BY <1>0, <1>1, OnAgree DEF ConnectHeaders
  <2>2. Height(tip) <= Height(tip') /\ mark' = mark
    BY <1>1 DEF ConnectHeaders, On, dbVars
  <2> QED
    BY <1>0, <2>1, <2>2, MeetsKept, HeightType DEF TypeOK
<1>2. ASSUME NEW c \in Blocks, NEW f \in Heights, StartReorg(c, f) PROVE Meets(b)'
  <2>1. f \in Nat /\ f >= 1
    BY HeightType DEF Heights
  <2>2. mark = 0 /\ mark' = f /\ tip' = tip
    BY <1>2 DEF StartReorg, Settled, Calm
  <2>3. On(b, tip)
    BY <1>0, <2>2, MeetsOn
  <2>4. \A k \in 1..Height(b) : Path[b][k] = Path[tip][k]
    BY <1>0, <2>3, OnAgree
  <2> QED
    BY <1>0, <2>1, <2>2, <2>3, <2>4 DEF Meets, On
<1>3. CASE RollbackBlock
  <2>1. /\ mark = fork /\ mark > 0 /\ mark' = mark
        /\ Height(tip) - 1 \in 1..Height(tip) /\ Height(tip) - 1 >= mark
    BY <1>0, <1>3 DEF RollbackBlock, ReorgShape, TypeOK, dbVars
  <2>2. Height(tip') = Height(tip) - 1 /\ \A k \in 1..(Height(tip) - 1) : Path[tip'][k] = Path[tip][k]
    BY <1>0, <1>3, <2>1, AtType DEF RollbackBlock
  <2>3. Bound(b) <= mark
    BY <1>0, <2>1 DEF Bound
  <2> QED
    BY <1>0, <2>1, <2>2, <2>3, MeetsKept DEF TypeOK
<1>4. CASE WriteBranchHead
  <2>1. /\ mark = fork /\ mark > 0 /\ mark' = mark /\ Height(tip) = fork
        /\ fork + 1 \in 1..Height(target) /\ Path[tip][fork] = Path[target][fork]
        /\ fork \in Nat /\ target \in Blocks
    BY <1>0, <1>4, HeightType DEF WriteBranchHead, ReorgShape, TypeOK, dbVars
  <2>2. Height(tip') = fork + 1 /\ \A k \in 1..(fork + 1) : Path[tip'][k] = Path[target][k]
    BY <1>4, <2>1, AtType DEF WriteBranchHead
  <2>3. \A k \in 1..fork : Path[target][k] = Path[tip][k]
    BY <1>0, <2>1, HeightType, AgreeBelow
  <2>4. Bound(b) <= mark
    BY <1>0, <2>1 DEF Bound
  <2> QED
    BY <1>0, <2>1, <2>2, <2>3, <2>4, MeetsKept DEF TypeOK
<1>5. CASE WriteBranchRest
  <2>1. On(tip, target) /\ tip' = target /\ mark' = mark /\ target \in Blocks
    BY <1>5 DEF WriteBranchRest, ReorgShape, TypeOK, dbVars
  <2>2. \A k \in 1..Height(tip) : Path[tip'][k] = Path[tip][k]
    BY <1>0, <2>1, OnAgree
  <2>3. Height(tip) <= Height(tip')
    BY <2>1 DEF On
  <2> QED
    BY <1>0, <2>1, <2>2, <2>3, MeetsKept, HeightType DEF TypeOK
<1>6. CASE ClearRollbackHeight
  <2>1. tip' = tip /\ mark' = IF mark = rb THEN 0 ELSE mark
    BY <1>6 DEF ClearRollbackHeight, bhVars
  <2>2. CASE mark = rb /\ rb # 0
    <3>1. On(b, tip)
      BY <1>0, <1>6, <2>2, MeetsOn
    <3> QED
      BY <1>0, <2>1, <2>2, <3>1, OnTip DEF Meets, On
  <2>3. CASE ~(mark = rb /\ rb # 0)
    BY <2>1, <2>3 DEF Meets
  <2> QED
    BY <2>2, <2>3
<1>7. CASE tip' = tip /\ mark' = mark
  BY <1>7 DEF Meets
<1> QED
  <2>1. CASE BlockHandler
    BY <2>1, <1>1, <1>2, <1>3, <1>4, <1>5, <1>7
       DEF BlockHandler, KnownHeaders, Publish, dbVars
  <2>2. CASE MwebHandler
    BY <2>2, <1>6, <1>7
       DEF MwebHandler, WaitHeadersSynced, ReadChainTip, GetRollbackHeight, KeepTip, StepToFork,
           RollbackLeavesAtHeight, AskMwebHeaders, EndPass, PutMwebHeaders, VerifyLeafset,
           PutLeavesAtHeight, DiffLeafsets, PutCoins, PutLeafsetAndPurge, Recheck,
           WaitHeaderTip, QueryTimesOut, bhVars, dbVars
  <2>3. CASE SyncedChanges \/ QueryFails \/ Restart \/ UNCHANGED vars
    BY <2>3, <1>7 DEF SyncedChanges, QueryFails, Restart, vars, bhVars, dbVars
  <2> QED
    BY <2>1, <2>2, <2>3 DEF Next
-----------------------------------------------------------------------------
(* The mark the handler holds, and the shape of a reorg. *)

LEMMA MarkHeldStep == ASSUME Calm, IInv, [Next]_vars PROVE MarkHeld'
<1> USE DEF IInv, MarkHeld, Picked, Holding, Verified
<1>1. CASE BlockHandler
  <2>1. ASSUME NEW b \in Blocks, NEW f \in Heights, StartReorg(b, f) PROVE MarkHeld'
    <3>1. f # 0
      BY HeightType DEF Heights
    <3> QED
      BY <2>1, <3>1 DEF StartReorg, Settled, Calm, locals, loop
  <2>2. CASE bhPc' # "rolling" /\ pc' = Woken /\ UNCHANGED <<mark, leafBlk, locals>>
    BY <2>2 DEF Woken, locals, loop
  <2>3. CASE bhPc' = bhPc /\ UNCHANGED <<mark, leafBlk, pc, locals>>
    BY <2>3 DEF locals, loop
  <2>4. CASE bhPc' # "rolling" /\ UNCHANGED <<mark, leafBlk, pc, locals>>
    BY <2>4 DEF locals, loop
  <2> QED
    BY <1>1, <2>1, <2>2, <2>3, <2>4
       DEF BlockHandler, ConnectHeaders, KnownHeaders, RollbackBlock, WriteBranchHead,
           WriteBranchRest, Publish, dbVars
<1>2. CASE MwebHandler
  <2>1. CASE GetRollbackHeight
    BY <2>1 DEF GetRollbackHeight, bhVars, dbVars
  <2>2. CASE KeepTip
    BY <2>2, HeightType DEF KeepTip, RollbackPending, TypeOK, bhVars, dbVars, locals, loop
  <2>3. CASE StepToFork
    <3>1. rb <= Height(tip) => Height(Path[tip][rb]) = rb
      BY <2>3, AtType, HeightType DEF StepToFork, RollbackPending, TypeOK
    <3> QED
      BY <2>3, <3>1 DEF StepToFork, RollbackPending, TypeOK, bhVars, dbVars
  <2>4. CASE PurgeCoins
    BY <2>4, HeightType DEF PurgeCoins, RollbackPending, TypeOK, bhVars, locals, loop
  <2>5. CASE VerifyLeafset
    BY <2>5 DEF VerifyLeafset, NetworkStep, Calm, bhVars, dbVars, locals, loop
  <2>6. CASE PutLeafsetAndPurge
    BY <2>6 DEF PutLeafsetAndPurge, bhVars, locals, loop
  <2>7. CASE pc' \notin Holding
    BY <2>7
  <2>8. CASE /\ pc \in Picked \ {"clear"} /\ pc' \in Picked /\ (pc' \in Verified => pc \in Verified)
             /\ UNCHANGED <<bhPc, mark, leafBlk, last, rb>>
    BY <2>8
  <2> QED
    BY <1>2, <2>1, <2>2, <2>3, <2>4, <2>5, <2>6, <2>7, <2>8
       DEF MwebHandler, WaitHeadersSynced, ReadChainTip, RollbackLeavesAtHeight, AskMwebHeaders, EndPass,
           PutMwebHeaders, PutLeavesAtHeight, DiffLeafsets, PutCoins,
           ClearRollbackHeight, Recheck, WaitHeaderTip, QueryTimesOut, bhVars, dbVars, locals, loop
<1>3. CASE SyncedChanges \/ UNCHANGED vars
  BY <1>3 DEF SyncedChanges, vars, bhVars, dbVars, locals, loop
<1>4. CASE QueryFails \/ Restart
  BY <1>4 DEF QueryFails, Restart
<1> QED
  BY <1>1, <1>2, <1>3, <1>4 DEF Next

LEMMA ReorgShapeStep == ASSUME Calm, IInv, [Next]_vars PROVE ReorgShape'
<1> USE DEF IInv, ReorgShape, Emptied
<1>1. ASSUME NEW b \in Blocks, NEW f \in Heights, StartReorg(b, f) PROVE ReorgShape'
  BY <1>1, HeightType DEF StartReorg, Heights, TypeOK
<1>2. CASE RollbackBlock
  <2>1. /\ Height(tip) - 1 \in 1..Height(tip) /\ fork \in 1..(Height(tip) - 1)
    BY <1>2, HeightType DEF RollbackBlock, TypeOK
  <2>2. Height(tip') = Height(tip) - 1 /\ Path[tip'][fork] = Path[tip][fork]
    BY <1>2, <2>1, AtType DEF RollbackBlock, TypeOK
  <2> QED
    BY <1>2, <2>1, <2>2 DEF RollbackBlock, dbVars
<1>3. CASE WriteBranchHead
  <2>1. fork + 1 \in 1..Height(target)
    BY <1>3, HeightType DEF WriteBranchHead, TypeOK
  <2>2. On(tip', target)
    BY <1>3, <2>1, AtType DEF WriteBranchHead, TypeOK, On
  <2> QED
    BY <1>3, <2>2 DEF WriteBranchHead, On
<1>4. CASE ClearRollbackHeight
  BY <1>4 DEF ClearRollbackHeight, MarkHeld, Verified, On, bhVars
<1>5. CASE bhPc' \in {"idle", "publish"}
  BY <1>5
<1>6. CASE UNCHANGED <<bhPc, mark, fork, tip, target, leafBlk>>
  BY <1>6 DEF On
<1>7. CASE PurgeCoins
  BY <1>7, PurgeFresh DEF PurgeCoins, On, bhVars
<1>8. CASE PutLeafsetAndPurge
  BY <1>8 DEF PutLeafsetAndPurge, MarkHeld, Verified, On, bhVars
<1> QED
  <2>1. CASE BlockHandler
    BY <2>1, <1>1, <1>2, <1>3, <1>5
       DEF BlockHandler, ConnectHeaders, KnownHeaders, WriteBranchRest, Publish
  <2>2. CASE MwebHandler
    BY <2>2, <1>4, <1>6, <1>7, <1>8
       DEF MwebHandler, WaitHeadersSynced, ReadChainTip, GetRollbackHeight, KeepTip, StepToFork,
           RollbackLeavesAtHeight, AskMwebHeaders, EndPass, PutMwebHeaders, VerifyLeafset,
           PutLeavesAtHeight, DiffLeafsets, PutCoins, Recheck,
           WaitHeaderTip, QueryTimesOut, bhVars, dbVars
  <2>3. CASE SyncedChanges \/ QueryFails \/ Restart \/ UNCHANGED vars
    BY <2>3, <1>5, <1>6 DEF SyncedChanges, QueryFails, Restart, vars, bhVars, dbVars
  <2> QED
    BY <2>1, <2>2, <2>3 DEF Next
-----------------------------------------------------------------------------
(* Where the handler's block and the stored leafset's block are. *)

LEMMA LastMeetsStep == ASSUME Calm, IInv, [Next]_vars PROVE LastMeets'
<1> USE DEF IInv, LastMeets, Holding, Picked, Verified, Emptied, Astray
<1>1. CASE ReadChainTip
  BY <1>1, HeightType DEF ReadChainTip, Meets, TypeOK, bhVars, dbVars
<1>2. CASE StepToFork
  <2>1. CASE rb <= Height(tip)
    <3>1. /\ mark = rb /\ rb \in 1..Height(tip) /\ last' = Path[tip][rb]
          /\ mark' = mark /\ tip' = tip
      BY <1>2, <2>1, HeightType DEF StepToFork, RollbackPending, MarkHeld, TypeOK, bhVars, dbVars
    <3>2. Height(last') = rb /\ Path[last'][rb] = Path[tip][rb]
      BY <3>1, AtType DEF TypeOK
    <3> QED
      BY <3>1, <3>2 DEF Meets
  <2>2. CASE ~(rb <= Height(tip))
    BY <1>2, <2>2 DEF StepToFork
  <2> QED
    BY <2>1, <2>2
<1>3. CASE pc' \notin {"mark"} \cup Holding
  BY <1>3
<1>4. CASE PurgeCoins
  BY <1>4, PurgeFresh DEF PurgeCoins
<1>5. CASE VerifyLeafset
  <2>1. last \in Blocks /\ mark \in Nat /\ tip \in Blocks /\ UNCHANGED <<tip, mark, last>>
    BY <1>5 DEF VerifyLeafset, TypeOK, bhVars, dbVars, locals, loop
  <2>2. Meets(last)
    BY <1>5, <2>1, OnMeets DEF VerifyLeafset, NetworkStep, Served
  <2> QED
    BY <2>1, <2>2 DEF Meets
<1>6. ASSUME pc \in {"mark"} \cup Holding, last' = last, ~ClearRollbackHeight, ~PurgeCoins,
             Meets(last), RollbackBlock \/ WriteBranchHead => mark # 0
      PROVE  LastMeets'
  <2>1. last \in Blocks /\ Meets(last)
    BY <1>6 DEF TypeOK
  <2>2. Meets(last)'
    BY <1>6, <2>1, MeetsStep DEF Meets
  <2> QED
    BY <2>2
<1>7. CASE Astray /\ leafBlk' = leafBlk /\ pc' \notin Verified
  BY <1>7
<1>8. CASE (RollbackBlock \/ WriteBranchHead) /\ mark = 0
  BY <1>8, BaseType DEF RollbackBlock, WriteBranchHead, ReorgShape, MarkHeld, TypeOK, dbVars
<1> QED
  <2>1. CASE BlockHandler
    <3>1. /\ last' = last /\ leafBlk' = leafBlk /\ pc' \in {pc, Woken}
          /\ ~ClearRollbackHeight /\ ~PurgeCoins
      BY <2>1
         DEF BlockHandler, ConnectHeaders, KnownHeaders, StartReorg, RollbackBlock,
             WriteBranchHead, WriteBranchRest, Publish, ClearRollbackHeight, PurgeCoins,
             locals, loop, bhVars, dbVars
    <3>2. pc' \in {"mark"} \cup Holding => pc = pc'
      BY <3>1 DEF Woken
    <3> QED
      BY <3>1, <3>2, <1>3, <1>6, <1>7, <1>8
  <2>2. CASE MwebHandler
    <3>1. ReadChainTip \/ StepToFork \/ PurgeCoins \/ VerifyLeafset \/ pc' \notin {"mark"} \cup Holding
          \/ /\ pc \in {"mark"} \cup Holding /\ last' = last /\ ~ClearRollbackHeight /\ ~PurgeCoins
             /\ ~RollbackBlock /\ ~WriteBranchHead
             /\ Astray => leafBlk' = leafBlk /\ pc' \notin Verified
      <4>1. CASE AskMwebHeaders
        <5>1. pc' # pc \/ from' # from
          BY <4>1, LoopType, HeightType DEF AskMwebHeaders, TypeOK
        <5> QED
          BY <4>1, <5>1
             DEF AskMwebHeaders, ClearRollbackHeight, PurgeCoins, RollbackBlock, WriteBranchHead,
                 locals, loop, dbVars
      <4>2. CASE EndPass
        BY <4>2
           DEF EndPass, ClearRollbackHeight, PurgeCoins, RollbackBlock, WriteBranchHead,
               locals, loop, dbVars
      <4>3. CASE MwebHandler /\ ~AskMwebHeaders /\ ~EndPass
        BY <4>3
           DEF MwebHandler, WaitHeadersSynced, GetRollbackHeight, KeepTip, RollbackLeavesAtHeight,
               PutMwebHeaders, PutLeavesAtHeight, DiffLeafsets,
               PutCoins, PutLeafsetAndPurge, ClearRollbackHeight, Recheck, WaitHeaderTip,
               QueryTimesOut, RollbackBlock, WriteBranchHead, PurgeCoins, TypeOK, ReorgShape,
               locals, bhVars, dbVars
      <4> QED
        BY <2>2, <4>1, <4>2, <4>3
    <3> QED
      BY <3>1, <1>1, <1>2, <1>3, <1>4, <1>5, <1>6, <1>7
  <2>3. CASE SyncedChanges \/ UNCHANGED vars
    BY <2>3 DEF SyncedChanges, Meets, vars, bhVars, dbVars, locals, loop
  <2>4. CASE QueryFails \/ Restart
    BY <2>4, <1>3 DEF QueryFails, Restart
  <2> QED
    BY <2>1, <2>2, <2>3, <2>4 DEF Next

LEMMA MarkCoversForkStep == ASSUME Calm, IInv, [Next]_vars PROVE MarkCoversFork'
<1> USE DEF IInv, MarkCoversFork
<1>1. CASE leafBlk' = leafBlk /\ leafBlk # None
  <2>1. ClearRollbackHeight /\ mark = rb /\ rb # 0 => Height(leafBlk) <= mark
    BY DEF ClearRollbackHeight, FetchShape, MarkHeld, Picked, TypeOK
  <2>2. (RollbackBlock \/ WriteBranchHead => mark # 0) /\ ~PurgeCoins
    BY <1>1 DEF RollbackBlock, WriteBranchHead, PurgeCoins, ReorgShape, Emptied
  <2>3. Meets(leafBlk)'
    BY <1>1, <2>1, <2>2, MeetsStep DEF TypeOK, Meets
  <2> QED
    BY <1>1, <2>3
<1>2. CASE PutLeafsetAndPurge
  <2>1. /\ last \in Blocks /\ Meets(last) /\ ~ClearRollbackHeight /\ ~PurgeCoins
        /\ ~RollbackBlock /\ ~WriteBranchHead
    BY <1>2 DEF PutLeafsetAndPurge, ClearRollbackHeight, PurgeCoins, RollbackBlock, WriteBranchHead,
                LastMeets, Astray, Holding, Verified, TypeOK, locals, loop
  <2>2. Meets(last)'
    BY <1>2, <2>1, MeetsStep DEF PutLeafsetAndPurge, Meets, locals, loop
  <2> QED
    BY <1>2, <2>2 DEF PutLeafsetAndPurge, locals, loop
<1>3. CASE leafBlk' = None
  BY <1>3
<1>4. PutLeafsetAndPurge \/ leafBlk' \in {leafBlk, None}
  BY DEF Next, BlockHandler, ConnectHeaders, KnownHeaders, StartReorg, RollbackBlock,
         WriteBranchHead, WriteBranchRest, Publish, MwebHandler, WaitHeadersSynced, ReadChainTip,
         GetRollbackHeight, KeepTip, PurgeCoins, StepToFork, RollbackLeavesAtHeight, AskMwebHeaders, EndPass,
         PutMwebHeaders, VerifyLeafset, PutLeavesAtHeight, DiffLeafsets, PutCoins,
         ClearRollbackHeight, Recheck, WaitHeaderTip, QueryTimesOut, SyncedChanges, QueryFails,
         Restart, vars, dbVars
<1> QED
  BY <1>1, <1>2, <1>3, <1>4

(* A block that meets the chain is on the branch of any block of the chain *)
(* no higher than the mark.                                                *)
LEMMA MeetsComparable ==
    ASSUME NEW b \in Blocks, NEW c \in Blocks, tip \in Blocks, mark \in Nat, mark # 0,
           Meets(b), On(c, tip), Height(c) <= mark
    PROVE  Comparable(b, c)
<1>1. /\ Bound(b) \in 1..Height(b) /\ Bound(b) <= Height(tip)
      /\ Path[b][Bound(b)] = Path[tip][Bound(b)]
      /\ Height(c) \in Nat /\ Height(c) >= 1 /\ Height(b) \in Nat
  BY MeetsBound, HeightType
<1>2. CASE Height(c) <= Bound(b)
  <2>1. Path[b][Height(c)] = Path[tip][Height(c)]
    BY <1>1, <1>2, AgreeBelow
  <2> QED
    BY <1>1, <1>2, <2>1 DEF On, Comparable
<1>3. CASE ~(Height(c) <= Bound(b))
  <2>1. Height(b) <= mark
    BY <1>1, <1>3 DEF Bound
  <2>2. On(b, tip)
    BY <2>1, MeetsOn
  <2> QED
    BY <2>2, OnComparable
<1> QED
  BY <1>2, <1>3

LEMMA SameBranchStep == ASSUME Calm, IInv, [Next]_vars PROVE SameBranch'
<1> USE DEF IInv, SameBranch, Picked
<1>1. CASE GetRollbackHeight
  <2>1. /\ leafBlk' = leafBlk /\ last' = last /\ rb' = mark /\ pc' = "decide"
        /\ leafBlk # None => Meets(last)
        /\ last \in Blocks /\ mark \in Nat /\ tip \in Blocks
    BY <1>1 DEF GetRollbackHeight, LastMeets, Astray, Emptied, TypeOK, dbVars
  <2>2. CASE mark = 0 /\ leafBlk # None
    <3>1. leafBlk \in Blocks /\ On(leafBlk, tip) /\ On(last, tip)
      BY <2>1, <2>2, MeetsOn DEF MarkCoversFork, TypeOK
    <3>2. Comparable(leafBlk, last)
      BY <2>1, <3>1, OnComparable
    <3> QED
      BY <2>1, <3>2 DEF Comparable, On
  <2> QED
    BY <2>1, <2>2
<1>2. CASE KeepTip
  <2>1. /\ leafBlk' = leafBlk /\ last' = last /\ rb' = rb /\ pc = "decide"
        /\ leafBlk # None => Meets(last)
        /\ last \in Blocks /\ mark \in Nat /\ tip \in Blocks
    BY <1>2 DEF KeepTip, LastMeets, Astray, Emptied, Holding, TypeOK, dbVars, locals, loop
  <2>2. CASE rb # 0 /\ leafBlk # None
    <3>0. mark = rb /\ ~RollbackPending /\ rb \in Nat /\ Height(last) \in Nat
      BY <1>2, <2>1, <2>2, HeightType DEF KeepTip, MarkHeld, TypeOK
    <3>1. mark # 0 /\ Height(last) <= mark
      BY <2>2, <3>0 DEF RollbackPending
    <3>2. On(last, tip)
      BY <2>1, <2>2, <3>1, MeetsOn
    <3>3. Comparable(leafBlk, last)
      BY <2>1, <2>2, <3>1, <3>2, MeetsComparable DEF MarkCoversFork, TypeOK
    <3> QED
      BY <2>1, <3>3 DEF Comparable, On
  <2> QED
    BY <2>1, <2>2 DEF Comparable, On
<1>3. CASE StepToFork
  <2>1. CASE rb <= Height(tip) /\ leafBlk # None
    <3>1. /\ mark = rb /\ rb \in 1..Height(tip) /\ last' = Path[tip][rb]
          /\ leafBlk' = leafBlk /\ tip \in Blocks /\ leafBlk \in Blocks /\ mark \in Nat
      BY <1>3, <2>1, HeightType
         DEF StepToFork, RollbackPending, MarkHeld, Holding, TypeOK, dbVars
    <3>2. last' \in Blocks /\ Height(last') = mark /\ On(last', tip)
      BY <3>1, AtType DEF On
    <3>3. Comparable(leafBlk, last')
      BY <3>1, <3>2, <2>1, MeetsComparable DEF MarkCoversFork
    <3> QED
      BY <3>1, <3>3 DEF Comparable, On
  <2> QED
    BY <1>3, <2>1 DEF StepToFork, dbVars
<1>4. CASE PutLeafsetAndPurge
  BY <1>4, OnTip, HeightType DEF PutLeafsetAndPurge, Comparable, On, TypeOK, locals, loop
<1>5. CASE pc' \notin Picked \cup {"decide"} \/ leafBlk' = None
  BY <1>5
<1>6. CASE /\ UNCHANGED <<leafBlk, last, rb>>
           /\ pc' \in Picked => pc \in Picked
           /\ pc' = "decide" => pc = "decide"
  BY <1>6 DEF Comparable, On
<1> QED
  <2>1. CASE BlockHandler
    BY <2>1, <1>6
       DEF BlockHandler, ConnectHeaders, KnownHeaders, StartReorg, RollbackBlock,
           WriteBranchHead, WriteBranchRest, Publish, Woken, locals, loop, dbVars
  <2>2. CASE MwebHandler
    BY <2>2, <1>1, <1>2, <1>3, <1>4, <1>5, <1>6
       DEF MwebHandler, WaitHeadersSynced, ReadChainTip, PurgeCoins, RollbackLeavesAtHeight,
           AskMwebHeaders, EndPass, PutMwebHeaders, VerifyLeafset, PutLeavesAtHeight, DiffLeafsets,
           PutCoins, ClearRollbackHeight, Recheck, WaitHeaderTip,
           QueryTimesOut, locals, loop, dbVars
  <2>3. CASE SyncedChanges \/ QueryFails \/ Restart \/ UNCHANGED vars
    BY <2>3, <1>5, <1>6 DEF SyncedChanges, QueryFails, Restart, vars, locals, loop, dbVars
  <2> QED
    BY <2>1, <2>2, <2>3 DEF Next
-----------------------------------------------------------------------------
(* What is fetched and what is stored. *)

LEMMA FetchShapeStep == ASSUME Calm, IInv, [Next]_vars PROVE FetchShape'
<1> USE DEF IInv, FetchShape
<1>0. TypeOK'
  BY TypeStep
<1>1. CASE AskMwebHeaders
  <2>1. CASE pc' = "headers"
    <3>1. /\ UNCHANGED <<pass, from, asked, last, leavesAt>> /\ hdrTip' = tip
          /\ WantedHeights \subseteq 1..Height(tip)
      BY <1>1, <2>1 DEF AskMwebHeaders, EndLoop, dbVars
    <3>2. WantedHeights' = WantedHeights
      BY <3>1 DEF WantedHeights, ToHeight, PassStride
    <3> QED
      BY <2>1, <3>1, <3>2
  <2>2. CASE pc' # "headers"
    BY <1>1, <2>2 DEF AskMwebHeaders
  <2> QED
    BY <2>1, <2>2
<1>2. CASE DiffLeafsets
  BY <1>2 DEF DiffLeafsets, dbVars
<1>3. ASSUME NEW i \in Leaves, PutCoins(i) PROVE FetchShape'
  <2>1. /\ pc = "fetch" /\ pc' = "fetch" /\ last' = last /\ leafBlk' = leafBlk
        /\ i \in todo /\ todo' = todo \ {i}
        /\ leafMap' = [leafMap EXCEPT ![i] = Outs[last][i]]
        /\ coins' = [coins EXCEPT ![Outs[last][i]] = RoughHeight(i)]
    BY <1>3 DEF PutCoins
  <2>2. /\ last \in Blocks /\ leafMap \in [Leaves -> Output \cup {None}]
        /\ coins \in [Output -> Nat]
    BY DEF TypeOK
  <2>3. RoughHeight(i) \in Nat /\ RoughHeight(i) > 0
    BY RoughHeightPositive
  <2>4. \A j \in Unspent[last] : j \in Leaves /\ Outs[last][j] \in Output
    BY <2>2, OutsType
  <2>5. LeafsetOf(leafBlk)' = LeafsetOf(leafBlk)
    BY <2>1 DEF LeafsetOf
  <2>6. ASSUME NEW j \in (Unspent[last] \ LeafsetOf(leafBlk)) \ todo'
        PROVE  leafMap'[j] = Outs[last][j] /\ (leafMap'[j] \in MinedOnce => coins'[leafMap'[j]] > 0)
    <3>1. CASE j = i
      BY <3>1, <2>1, <2>2, <2>3, <2>4
    <3>2. CASE j # i
      <4>1. /\ leafMap'[j] = Outs[last][j]
            /\ Outs[last][j] \in MinedOnce => coins[Outs[last][j]] > 0
        BY <3>2, <2>6, <2>1, <2>2, <2>4
      <4> QED
        BY <4>1, <2>1, <2>2, <2>3, <2>4, <2>6
    <3> QED
      BY <3>1, <3>2
  <2> QED
    BY <2>1, <2>5, <2>6
<1>4. CASE PutLeafsetAndPurge
  BY <1>4 DEF PutLeafsetAndPurge, locals, loop
<1>5. CASE pc' \notin {"fetch", "clear", "headers"}
  BY <1>5
<1>6. CASE pc' = pc /\ UNCHANGED <<leafBlk, leafMap, coins, leavesAt, last, loop, todo>>
  <2>1. WantedHeights' = WantedHeights /\ hdrTip' = hdrTip
    BY <1>6 DEF WantedHeights, ToHeight, PassStride, loop
  <2>2. LeafsetOf(leafBlk)' = LeafsetOf(leafBlk)
    BY <1>6 DEF LeafsetOf
  <2> QED
    BY <1>6, <2>1, <2>2
<1> QED
  <2>1. CASE BlockHandler
    BY <2>1, <1>5, <1>6
       DEF BlockHandler, ConnectHeaders, KnownHeaders, StartReorg, RollbackBlock,
           WriteBranchHead, WriteBranchRest, Publish, Woken, locals, loop, dbVars
  <2>2. CASE MwebHandler
    BY <2>2, <1>1, <1>2, <1>3, <1>4, <1>5
       DEF MwebHandler, WaitHeadersSynced, ReadChainTip, GetRollbackHeight, KeepTip, PurgeCoins, StepToFork,
           RollbackLeavesAtHeight, PutMwebHeaders, EndPass, VerifyLeafset, PutLeavesAtHeight,
           ClearRollbackHeight, Recheck, WaitHeaderTip, QueryTimesOut
  <2>3. CASE SyncedChanges \/ QueryFails \/ Restart \/ UNCHANGED vars
    BY <2>3, <1>5, <1>6 DEF SyncedChanges, QueryFails, Restart, vars, locals, loop, dbVars
  <2> QED
    BY <2>1, <2>2, <2>3 DEF Next

(* The coins a round removes belong to none of the leaves it keeps, unless  *)
(* they are of an output that the branch mines twice.                       *)
LEMMA KeptCoins ==
    ASSUME IInv, pc = "fetch", todo = {},
           NEW j \in Unspent[last], leafMap[j] = Outs[last][j], leafMap[j] \in MinedOnce,
           NEW i \in RemovedLeaves
    PROVE  leafMap[i] # leafMap[j]
<1> USE DEF IInv
<1>1. leafBlk # None /\ leafBlk \in Blocks /\ last \in Blocks /\ i \in Unspent[leafBlk] /\ i # j
  BY DEF RemovedLeaves, LeafsetOf, TypeOK
<1>2. i \in 1..Len(Outs[leafBlk]) /\ j \in 1..Len(Outs[last]) /\ Outs[last][j] \in Output
  BY <1>1, OutsType
<1>3. Comparable(leafBlk, last)
  BY <1>1 DEF SameBranch, Picked
<1>4. Outs[leafBlk][i] # Outs[last][j]
  BY <1>1, <1>2, <1>3, OutsAgree
<1>5. leafMap[i] = Outs[leafBlk][i] \/ leafMap[i] = None
  BY <1>1 DEF LeafsetBacked, Backed
<1> QED
  BY <1>2, <1>4, <1>5, MwebAssumption

LEMMA LeafsetBackedStep == ASSUME Calm, IInv, [Next]_vars PROVE LeafsetBacked'
<1> USE DEF IInv
<1>1. ASSUME NEW i \in Leaves, PutCoins(i) PROVE LeafsetBacked'
  <2>1. /\ i \in todo /\ todo \subseteq Unspent[last] \ LeafsetOf(leafBlk)
        /\ leafBlk' = leafBlk /\ last \in Blocks
        /\ leafMap' = [leafMap EXCEPT ![i] = Outs[last][i]]
        /\ coins' = [coins EXCEPT ![Outs[last][i]] = RoughHeight(i)]
        /\ leafMap \in [Leaves -> Output \cup {None}] /\ coins \in [Output -> Nat]
    BY <1>1 DEF PutCoins, FetchShape, TypeOK
  <2>2. RoughHeight(i) \in Nat /\ RoughHeight(i) > 0
    BY RoughHeightPositive
  <2>3. ASSUME leafBlk # None, NEW j \in Unspent[leafBlk]
        PROVE  \/ /\ leafMap'[j] = Outs[leafBlk][j]
                  /\ leafMap'[j] \in MinedOnce => coins'[leafMap'[j]] > 0
               \/ Sparse /\ j \in Unspent[Base] /\ leafMap'[j] = None
    <3>1. j # i /\ j \in Leaves /\ Outs[leafBlk][j] \in Output
      BY <2>1, <2>3, OutsType DEF LeafsetOf, TypeOK
    <3>2. leafMap'[j] = leafMap[j]
      BY <2>1, <3>1
    <3>3. CASE Backed(j)
      <4>1. /\ leafMap[j] = Outs[leafBlk][j]
            /\ Outs[leafBlk][j] \in MinedOnce => coins[Outs[leafBlk][j]] > 0
        BY <3>3 DEF Backed
      <4>2. Outs[leafBlk][j] \in MinedOnce => coins'[Outs[leafBlk][j]] > 0
        BY <4>1, <2>1, <2>2, <3>1
      <4> QED
        BY <4>1, <4>2, <3>2
    <3> QED
      BY <2>3, <3>2, <3>3 DEF LeafsetBacked
  <2> QED
    BY <2>1, <2>3 DEF LeafsetBacked, Backed
<1>2. CASE PutLeafsetAndPurge
  <2>1. /\ pc = "fetch" /\ todo = {} /\ leafBlk' = last /\ last \in Blocks
        /\ coins' = [o \in Output |-> IF \E i \in RemovedLeaves : leafMap[i] = o
                                        THEN 0 ELSE coins[o]]
        /\ leafMap' = [i \in Leaves |-> IF i \in RemovedLeaves THEN None ELSE leafMap[i]]
    BY <1>2 DEF PutLeafsetAndPurge, TypeOK
  <2>2. ASSUME NEW j \in Unspent[last]
        PROVE  \/ /\ leafMap'[j] = Outs[last][j]
                  /\ leafMap'[j] \in MinedOnce => coins'[leafMap'[j]] > 0
               \/ Sparse /\ j \in Unspent[Base] /\ leafMap'[j] = None
    <3>1. /\ j \in Leaves /\ j \in 1..Len(Outs[last]) /\ Outs[last][j] \in Output
          /\ leafMap'[j] = leafMap[j]
      BY <2>1, OutsType DEF RemovedLeaves
    <3>2. \/ /\ leafMap[j] = Outs[last][j]
             /\ leafMap[j] \in MinedOnce => coins[leafMap[j]] > 0
          \/ Sparse /\ j \in Unspent[Base] /\ leafMap[j] = None
      <4>1. CASE j \in LeafsetOf(leafBlk)
        <5>1. /\ leafBlk # None /\ leafBlk \in Blocks /\ j \in Unspent[leafBlk]
              /\ Comparable(leafBlk, last)
          BY <2>1, <4>1 DEF LeafsetOf, SameBranch, Picked, TypeOK
        <5>2. Outs[leafBlk][j] = Outs[last][j]
          BY <5>1, <3>1, <2>1, OutsType, OutsSame
        <5> QED
          BY <5>1, <5>2 DEF LeafsetBacked, Backed
      <4>2. CASE j \notin LeafsetOf(leafBlk)
        BY <2>1, <4>2 DEF FetchShape
      <4> QED
        BY <4>1, <4>2
    <3>3. CASE /\ leafMap[j] = Outs[last][j]
               /\ leafMap[j] \in MinedOnce => coins[leafMap[j]] > 0
      <4>1. leafMap[j] \in MinedOnce => \A i \in RemovedLeaves : leafMap[i] # leafMap[j]
        BY <2>1, <3>3, KeptCoins
      <4> QED
        BY <2>1, <3>1, <3>3, <4>1
    <3> QED
      BY <3>1, <3>2, <3>3
  <2> QED
    BY <2>1, <2>2 DEF LeafsetBacked, Backed
<1>3. CASE UNCHANGED <<leafBlk, leafMap, coins>>
  BY <1>3 DEF LeafsetBacked, Backed
<1>4. CASE leafBlk' = None
  BY <1>4 DEF LeafsetBacked
<1> QED
  BY <1>1, <1>2, <1>3, <1>4
     DEF Next, BlockHandler, ConnectHeaders, KnownHeaders, StartReorg, RollbackBlock,
         WriteBranchHead, WriteBranchRest, Publish, MwebHandler, WaitHeadersSynced, ReadChainTip,
         GetRollbackHeight, KeepTip, PurgeCoins, StepToFork, RollbackLeavesAtHeight, AskMwebHeaders, EndPass,
         PutMwebHeaders, VerifyLeafset, PutLeavesAtHeight, DiffLeafsets,
         ClearRollbackHeight, Recheck, WaitHeaderTip, QueryTimesOut, SyncedChanges, QueryFails,
         Restart, vars, dbVars
-----------------------------------------------------------------------------
(* The theorems. *)

LEMMA Inductive == ASSUME Calm PROVE IInv /\ [Next]_vars => IInv'
<1> SUFFICES ASSUME IInv, [Next]_vars PROVE IInv'
  OBVIOUS
<1> QED
  BY TypeStep, MarkHeldStep, ReorgShapeStep, LastMeetsStep, SameBranchStep, FetchShapeStep,
     LeafsetBackedStep, MarkCoversForkStep DEF IInv

LEMMA AlwaysIInv == ASSUME Calm PROVE Spec => []IInv
<1>1. IInv /\ [Next]_vars => IInv'
  BY Inductive
<1> QED
  BY InitInv, <1>1, PTL DEF Spec

(* Every variable of the two goroutines and of the two stores keeps its type *)
(* (in particular no leaf outside the MMR is ever looked up).                *)
THEOREM TypeCorrect == ASSUME Calm PROVE Spec => []TypeOK
<1>1. IInv => TypeOK
  BY DEF IInv
<1> QED
  BY AlwaysIInv, <1>1, PTL

(* For every block tree, every order of reorgs, failed queries and restarts: *)
(* each leaf of the leafset the store holds leads to its output, and its     *)
(* coin can be read back unless a branch mines the output twice.             *)
THEOREM StoreBacked == ASSUME Calm PROVE Spec => []LeafsetBacked
<1>1. IInv => LeafsetBacked
  BY DEF IInv
<1> QED
  BY AlwaysIInv, <1>1, PTL

(* No step of either goroutine, and no crash, loses the rollback mark while *)
(* the stored leafset belongs to a branch the chain has left.               *)
THEOREM MarkSafe == ASSUME Calm PROVE Spec => []MarkCoversFork
<1>1. IInv => MarkCoversFork
  BY DEF IInv
<1> QED
  BY AlwaysIInv, <1>1, PTL
-----------------------------------------------------------------------------
(* The coin store implements ChainView. *)

LEMMA ShownInit == Init => CV!Init
<1> SUFFICES ASSUME Init PROVE CV!Init
  OBVIOUS
<1>1. \A o \in Output : coins[o] = 0
  BY DEF Init, NoCoins
<1>2. Shown = {}
  BY <1>1 DEF Shown
<1>3. leafBlk \in {None, Base}
  BY DEF Init
<1> QED
  BY <1>2, <1>3 DEF CV!Init

(* A mapping of the stored leafset is that of its block. *)
LEMMA StoredMapping ==
    ASSUME IInv, NEW j \in LeafsetOf(leafBlk)
    PROVE  /\ leafBlk \in Blocks /\ j \in Unspent[leafBlk] /\ j \in 1..Len(Outs[leafBlk])
           /\ Outs[leafBlk][j] \in Output /\ Outs[leafBlk][j] \in UnspentOf(leafBlk)
           /\ leafMap[j] = None \/ leafMap[j] = Outs[leafBlk][j]
<1>1. leafBlk # None /\ leafBlk \in Blocks /\ j \in Unspent[leafBlk]
  BY DEF LeafsetOf, IInv, TypeOK
<1>2. leafMap[j] = None \/ leafMap[j] = Outs[leafBlk][j]
  BY <1>1 DEF IInv, LeafsetBacked, Backed
<1> QED
  BY <1>1, <1>2, OutsType DEF UnspentOf

(* What the store shows is unspent, in any case. *)
LEMMA ShownUnspent == IInv => Shown \subseteq UnspentOf(leafBlk)
<1> SUFFICES ASSUME IInv, NEW o \in Shown PROVE o \in UnspentOf(leafBlk)
  OBVIOUS
<1>1. PICK i \in LeafsetOf(leafBlk) : leafMap[i] = o /\ o \in Output
  BY DEF Shown
<1> QED
  BY <1>1, StoredMapping, MwebAssumption

LEMMA ShownUnspentNext == (IInv => Shown \subseteq UnspentOf(leafBlk))'
BY ShownUnspent, PTL

(* The view's operators are the store's. *)
LEMMA SameView ==
    /\ \A b \in Blocks, c \in Blocks : Comparable(b, c) => CV!Comparable(b, c)
    /\ \A b \in Blocks \cup {None} : CV!UnspentOf(b) = UnspentOf(b)
    /\ CV!MinedOnce = MinedOnce
BY DEF Comparable, On, Height, UnspentOf, MinedOnce,
       CV!Comparable, CV!On, CV!Height, CV!UnspentOf, CV!MinedOnce

(* A step that leaves the leafset alone adds coins of other leaves, and of an *)
(* output mined once it has no other leaf.                                    *)
LEMMA ShownFetch ==
    ASSUME Calm, IInv, [Next]_vars, IInv', NEW i \in Leaves, PutCoins(i)
    PROVE  (leafBlk \in Blocks /\ CV!Move(leafBlk)) \/ UNCHANGED CV!vars
<1>1. /\ i \in todo /\ todo \subseteq Unspent[last] \ LeafsetOf(leafBlk)
      /\ leafBlk' = leafBlk /\ last \in Blocks /\ pc = "fetch"
      /\ leafMap' = [leafMap EXCEPT ![i] = Outs[last][i]]
      /\ coins' = [coins EXCEPT ![Outs[last][i]] = RoughHeight(i)]
      /\ leafMap \in [Leaves -> Output \cup {None}] /\ coins \in [Output -> Nat]
  BY DEF PutCoins, FetchShape, TypeOK, IInv
<1>2. ASSUME NEW j \in LeafsetOf(leafBlk)
      PROVE  leafMap'[j] = leafMap[j] /\ (Outs[last][i] \in MinedOnce => leafMap[j] # Outs[last][i])
  <2>1. /\ leafBlk # None /\ leafBlk \in Blocks /\ i # j /\ j \in 1..Len(Outs[leafBlk])
        /\ leafMap[j] = None \/ leafMap[j] = Outs[leafBlk][j]
    BY <1>1, <1>2, StoredMapping, BaseType
  <2>2. i \in 1..Len(Outs[last]) /\ Outs[last][i] \in Output /\ j \in Leaves
    BY <1>1, <2>1, OutsType
  <2>3. Comparable(last, leafBlk)
    BY <1>1, <2>1 DEF SameBranch, Picked, IInv, Comparable
  <2>4. Outs[last][i] \in MinedOnce => Outs[leafBlk][j] # Outs[last][i]
    BY <1>1, <2>1, <2>2, <2>3, OutsAgree
  <2> QED
    BY <1>1, <2>1, <2>2, <2>4, MwebAssumption
<1>3. LeafsetOf(leafBlk)' = LeafsetOf(leafBlk)
  BY <1>1 DEF LeafsetOf
<1>4. ASSUME NEW o \in MinedOnce
      PROVE  o \in Shown' <=> o \in Shown
  <2>1. CASE o = Outs[last][i]
    BY <1>2, <1>3, <2>1 DEF Shown
  <2>2. CASE o # Outs[last][i]
    <3>1. coins'[o] = coins[o]
      BY <1>1, <2>2
    <3> QED
      BY <1>2, <1>3, <3>1 DEF Shown
  <2> QED
    BY <2>1, <2>2
<1>5. Shown \subseteq UnspentOf(leafBlk) /\ Shown' \subseteq UnspentOf(leafBlk)
  <2>1. Shown' \subseteq UnspentOf(leafBlk)'
    BY ShownUnspentNext
  <2>2. UnspentOf(leafBlk)' = UnspentOf(leafBlk)
    BY <1>1 DEF UnspentOf
  <2> QED
    BY <2>1, <2>2, ShownUnspent
<1>6. CASE leafBlk = None
  <2>1. Shown' = {} /\ Shown = {}
    BY <1>5, <1>6 DEF UnspentOf
  <2> QED
    BY <1>1, <2>1 DEF CV!vars
<1>7. CASE leafBlk # None
  <2>1. leafBlk \in Blocks /\ Comparable(leafBlk, leafBlk)
    BY <1>7, OnSelf DEF IInv, TypeOK, Comparable
  <2>2. CV!Same(Shown', (Shown \cap UnspentOf(leafBlk)) \cup (UnspentOf(leafBlk) \ UnspentOf(leafBlk)))
    BY <1>4, <1>5, SameView DEF CV!Same
  <2> QED
    BY <1>1, <1>5, <2>1, <2>2, SameView DEF CV!Move
<1> QED
  BY <1>6, <1>7

(* The leafset moves along one branch and takes the difference with it. *)
LEMMA ShownMove ==
    ASSUME Calm, IInv, IInv', [Next]_vars, PutLeafsetAndPurge
    PROVE  CV!Move(last)
<1>1. /\ pc = "fetch" /\ todo = {} /\ leafBlk' = last /\ last \in Blocks /\ last # None
      /\ coins' = [o \in Output |-> IF \E i \in RemovedLeaves : leafMap[i] = o
                                      THEN 0 ELSE coins[o]]
      /\ leafMap' = [i \in Leaves |-> IF i \in RemovedLeaves THEN None ELSE leafMap[i]]
      /\ UNCHANGED last
  BY BaseType DEF PutLeafsetAndPurge, IInv, TypeOK, locals, loop
<1>2. leafBlk = None \/ (leafBlk \in Blocks /\ Comparable(leafBlk, last))
  BY <1>1 DEF SameBranch, Picked, IInv, TypeOK
<1>3. LeafsetOf(leafBlk)' = Unspent[last]
  BY <1>1 DEF LeafsetOf
<1>4. \A j \in Unspent[last] :
        /\ j \in Leaves /\ j \in 1..Len(Outs[last]) /\ Outs[last][j] \in Output
        /\ leafMap'[j] = leafMap[j]
  BY <1>1, OutsType DEF RemovedLeaves
<1>5. \A j \in LeafsetOf(leafBlk) : leafMap[j] = None \/ leafMap[j] = Outs[leafBlk][j]
  BY StoredMapping
<1>6. \A j \in Unspent[last] : j \notin LeafsetOf(leafBlk) =>
        /\ leafMap[j] = Outs[last][j]
        /\ leafMap[j] \in MinedOnce => coins[leafMap[j]] > 0
  BY <1>1 DEF FetchShape, IInv
<1>7. ASSUME NEW i \in LeafsetOf(leafBlk), NEW j \in Unspent[last]
      PROVE  /\ i = j => Outs[leafBlk][i] = Outs[last][j]
             /\ Outs[leafBlk][i] \in MinedOnce /\ Outs[leafBlk][i] = Outs[last][j] => i = j
  <2>1. leafBlk \in Blocks /\ i \in 1..Len(Outs[leafBlk]) /\ Comparable(leafBlk, last)
    BY <1>2, <1>7, StoredMapping, BaseType
  <2>2. i = j => Outs[leafBlk][i] = Outs[last][j]
    BY <1>1, <1>4, <2>1, OutsSame
  <2> QED
    BY <1>1, <1>4, <2>1, <2>2, OutsAgree
<1>8. ASSUME NEW o \in MinedOnce
      PROVE  o \in Shown' <=> \/ o \in Shown /\ o \in UnspentOf(last)
                              \/ o \in UnspentOf(last) /\ o \notin UnspentOf(leafBlk)
  <2>0. /\ o \in UnspentOf(last) <=> \E j \in Unspent[last] : Outs[last][j] = o
        /\ o \in UnspentOf(leafBlk) <=> \E i \in LeafsetOf(leafBlk) : Outs[leafBlk][i] = o
    BY <1>1 DEF UnspentOf, LeafsetOf
  <2>1. o # None /\ o \in Output
    BY MwebAssumption DEF MinedOnce
  <2>2. ASSUME o \in Shown'
        PROVE  \/ o \in Shown /\ o \in UnspentOf(last)
               \/ o \in UnspentOf(last) /\ o \notin UnspentOf(leafBlk)
    <3>1. PICK j \in Unspent[last] : leafMap[j] = o /\ coins[o] > 0
      BY <2>1, <2>2, <1>1, <1>3, <1>4 DEF Shown
    <3>2. CASE j \in LeafsetOf(leafBlk)
      BY <3>1, <3>2, <2>0, <2>1, <1>5, <1>7 DEF Shown
    <3>3. CASE j \notin LeafsetOf(leafBlk)
      <4>1. Outs[last][j] = o
        BY <3>1, <3>3, <1>6
      <4>2. \A i \in LeafsetOf(leafBlk) : Outs[leafBlk][i] # o
        BY <3>1, <3>3, <4>1, <1>7
      <4> QED
        BY <4>1, <4>2, <2>0, <3>1
    <3> QED
      BY <3>2, <3>3
  <2>3. ASSUME o \in Shown, o \in UnspentOf(last)
        PROVE  o \in Shown'
    <3>1. PICK i \in LeafsetOf(leafBlk) : leafMap[i] = o /\ coins[o] > 0
      BY <2>3 DEF Shown
    <3>2. PICK j \in Unspent[last] : Outs[last][j] = o
      BY <2>3, <2>0
    <3>3. i = j
      BY <3>1, <3>2, <2>1, <1>5, <1>7
    <3>4. \A k \in RemovedLeaves : leafMap[k] # o
      BY <3>2, <2>1, <1>5, <1>7 DEF RemovedLeaves
    <3> QED
      BY <3>1, <3>2, <3>3, <3>4, <2>1, <1>1, <1>3, <1>4 DEF Shown
  <2>4. ASSUME o \in UnspentOf(last), o \notin UnspentOf(leafBlk)
        PROVE  o \in Shown'
    <3>1. PICK j \in Unspent[last] : Outs[last][j] = o
      BY <2>4, <2>0
    <3>2. j \notin LeafsetOf(leafBlk)
      BY <3>1, <2>0, <2>4, <1>7
    <3>3. leafMap[j] = o /\ coins[o] > 0
      BY <3>1, <3>2, <1>6
    <3>4. \A k \in RemovedLeaves : leafMap[k] # o
      BY <3>1, <2>1, <1>5, <1>7 DEF RemovedLeaves
    <3> QED
      BY <3>1, <3>3, <3>4, <2>1, <1>1, <1>3, <1>4 DEF Shown
  <2> QED
    BY <2>2, <2>3, <2>4
<1>9. Shown' \subseteq UnspentOf(last)
  <2>1. Shown' \subseteq UnspentOf(leafBlk)'
    BY ShownUnspentNext
  <2> QED
    BY <1>1, <2>1 DEF UnspentOf
<1>10. CV!Same(Shown', (Shown \cap UnspentOf(last)) \cup (UnspentOf(last) \ UnspentOf(leafBlk)))
  BY <1>8, SameView DEF CV!Same
<1> QED
  BY <1>1, <1>2, <1>9, <1>10, SameView DEF CV!Move

LEMMA ShownStep == ASSUME Calm, IInv, IInv', [Next]_vars PROVE [CV!Next]_CV!vars
<1>1. ASSUME NEW i \in Leaves, PutCoins(i) PROVE [CV!Next]_CV!vars
  BY <1>1, ShownFetch DEF CV!Next
<1>2. CASE PutLeafsetAndPurge
  <2>1. CV!Move(last) /\ last \in Blocks
    BY <1>2, ShownMove DEF IInv, TypeOK
  <2> QED
    BY <2>1 DEF CV!Next
<1>3. CASE UNCHANGED <<leafBlk, leafMap, coins>>
  BY <1>3 DEF CV!vars, Shown, LeafsetOf
<1>4. CASE PurgeCoins
  <2>1. Shown' = {} /\ leafBlk' = None
    BY <1>4 DEF PurgeCoins, Shown, NoCoins
  <2> QED
    BY <2>1 DEF CV!Next, CV!Forget
<1> QED
  BY <1>1, <1>2, <1>3, <1>4
     DEF IInv, Next, BlockHandler, ConnectHeaders, KnownHeaders, StartReorg, RollbackBlock,
         WriteBranchHead, WriteBranchRest, Publish, MwebHandler, WaitHeadersSynced, ReadChainTip,
         GetRollbackHeight, KeepTip, StepToFork, RollbackLeavesAtHeight, AskMwebHeaders, EndPass,
         PutMwebHeaders, VerifyLeafset, PutLeavesAtHeight, DiffLeafsets,
         ClearRollbackHeight, Recheck, WaitHeaderTip, QueryTimesOut, SyncedChanges, QueryFails,
         Restart, vars, dbVars

(* Readers of the coin store see the unspent outputs of one block at a time, *)
(* and that block changes branch only through a common ancestor.             *)
THEOREM Implements == ASSUME Calm PROVE Spec => ImplementsChainView
<1>1. IInv /\ IInv' /\ [Next]_vars => [CV!Next]_CV!vars
  BY ShownStep
<1> QED
  BY AlwaysIInv, ShownInit, <1>1, PTL DEF Spec, ImplementsChainView, CV!Spec
-----------------------------------------------------------------------------
(* The heights of the coins.  What the leaf counts have to say of the chain, *)
(* while the handler moves and the mark comes and goes.                      *)

(* The branch the block hashes were read from is in the reach of the mark, or *)
(* no peer will answer.                                                       *)
HeadersMeet == pc = "headers" => Meets(hdrTip) \/ Astray

(* While it holds a mark, no count above it is left; and none at all where    *)
(* the store was emptied in the middle of a rollback.                         *)
CountsTrimmed ==
    /\ pc \in Picked \ {"trim"} /\ rb # 0 /\ mark # 0 => \A h \in Heights : h > rb => leavesAt[h] = 0
    /\ bhPc = "rolling" /\ mark = 0 => leavesAt = NoCounts

(* A count at or below the mark is that of the header chain. *)
CountsTrue ==
    \A h \in Heights :
        leavesAt[h] # 0 /\ (mark = 0 \/ h <= mark) =>
            h <= Height(tip) /\ leavesAt[h] = Len(Outs[Path[tip][h]])

(* The header query leaves no count out below the height it has come to. *)
AskedSoFar ==
    pc \in {"ask", "headers"} /\ (pass = "dense" \/ Stride = 1) =>
        \A k \in 1..Bound(last) :
            StartHeight <= k /\ k < from /\ k < Height(last) => leavesAt[k] # 0

(* Up to the stored block, and to the block the handler syncs to once it has  *)
(* asked for them, every count within the reach of the mark is there.         *)
CountsFull ==
    /\ leafBlk # None => \A k \in 1..Bound(leafBlk) : leavesAt[k] # 0
    /\ pc \in {"query", "size"} =>
         \A k \in 1..Bound(last) : k < Height(last) => leavesAt[k] # 0
    /\ pc \in {"diff", "fetch", "clear"} => \A k \in 1..Bound(last) : leavesAt[k] # 0

(* The leaves that the counts within the reach of the mark account for. *)
Reach(b) == Len(Outs[Path[b][Bound(b)]])

(* Their coins, stored or just fetched, have the height that mined them. *)
StoredHeights ==
    leafBlk # None =>
        \A i \in Unspent[leafBlk] :
            Backed(i) /\ leafMap[i] \in MinedOnce /\ i <= Reach(leafBlk) =>
                coins[leafMap[i]] = MinedAt(leafBlk, i)
FetchedHeights ==
    pc = "fetch" =>
        \A i \in (Unspent[last] \ LeafsetOf(leafBlk)) \ todo :
            Outs[last][i] \in MinedOnce /\ i <= Reach(last) =>
                coins[Outs[last][i]] = MinedAt(last, i)

CInv == /\ HeadersMeet /\ CountsTrimmed /\ CountsTrue /\ AskedSoFar /\ CountsFull
        /\ StoredHeights /\ FetchedHeights

LEMMA InitCounts == Init => CInv
<1> SUFFICES ASSUME Init PROVE CInv
  OBVIOUS
<1>1. /\ pc = "start" /\ bhPc = "idle" /\ tip = Base /\ mark = 0 /\ leafMap = NoLeafMap
      /\ leafBlk # None => leafBlk = Base
      /\ leavesAt \in {NoCounts, [NoCounts EXCEPT ![Height(Base)] = Len(Outs[Base])]}
      /\ leafBlk # None => leavesAt = [NoCounts EXCEPT ![Height(Base)] = Len(Outs[Base])]
  BY DEF Init
<1>2. /\ Height(Base) = 1 /\ Path[Base][1] = Base /\ 1 \in Heights
      /\ Len(Outs[Base]) \in Nat /\ Len(Outs[Base]) >= 1
  BY BaseHeight, BaseType, PathAssumption, OutsType, MwebAssumption, HeightType DEF Heights
<1>3. HeadersMeet /\ CountsTrimmed /\ AskedSoFar /\ FetchedHeights
  BY <1>1 DEF HeadersMeet, CountsTrimmed, AskedSoFar, FetchedHeights, Picked
<1>4. CountsTrue
  BY <1>1, <1>2 DEF CountsTrue, NoCounts
<1>5. CountsFull
  <2>1. leafBlk # None => Bound(leafBlk) = 1 /\ leavesAt[1] = Len(Outs[Base])
    BY <1>1, <1>2 DEF NoCounts, Bound
  <2> QED
    BY <1>1, <1>2, <2>1 DEF CountsFull
<1>6. StoredHeights
  <2>1. ASSUME NEW i \in Unspent[Base] PROVE leafMap[i] # Outs[Base][i]
    BY <1>1, OutsType, BaseType, MwebAssumption DEF NoLeafMap
  <2> QED
    BY <1>1, <2>1 DEF StoredHeights, Backed
<1> QED
  BY <1>3, <1>4, <1>5, <1>6 DEF CInv

(* The mark's reach never grows past a count that is not the chain's. *)
LEMMA HeadersMeetStep == ASSUME Calm, IInv, CInv, [Next]_vars PROVE HeadersMeet'
<1> USE DEF IInv, CInv, HeadersMeet, Astray, Emptied
<1>1. CASE AskMwebHeaders
  <2>1. tip \in Blocks /\ mark \in Nat /\ On(tip, tip)
    BY OnSelf DEF TypeOK
  <2>2. Meets(tip)
    BY <2>1, OnMeets
  <2> QED
    BY <1>1, <2>2 DEF AskMwebHeaders, Meets, bhVars, dbVars
<1>2. CASE pc = "headers" /\ pc' = "headers" /\ hdrTip' = hdrTip /\ leafBlk' = leafBlk
  <2>1. ~ClearRollbackHeight /\ ~PurgeCoins
    BY <1>2 DEF ClearRollbackHeight, PurgeCoins
  <2>2. CASE Astray
    BY <1>2, <2>2 DEF Verified
  <2>3. CASE Meets(hdrTip) /\ (RollbackBlock \/ WriteBranchHead => mark # 0)
    <3>1. Meets(hdrTip)'
      BY <1>2, <2>1, <2>3, MeetsStep DEF Meets, TypeOK
    <3> QED
      BY <3>1
  <2>4. CASE (RollbackBlock \/ WriteBranchHead) /\ mark = 0
    BY <1>2, <2>4, BaseType
       DEF RollbackBlock, WriteBranchHead, ReorgShape, Verified, TypeOK, dbVars
  <2> QED
    BY <1>2, <2>2, <2>3, <2>4
<1>3. CASE pc' # "headers"
  BY <1>3
<1> QED
  BY <1>1, <1>2, <1>3
     DEF Next, BlockHandler, ConnectHeaders, KnownHeaders, StartReorg, RollbackBlock,
         WriteBranchHead, WriteBranchRest, Publish, Woken, MwebHandler, WaitHeadersSynced,
         ReadChainTip, GetRollbackHeight, KeepTip, PurgeCoins, StepToFork,
         RollbackLeavesAtHeight, PutMwebHeaders, EndPass, VerifyLeafset, PutLeavesAtHeight,
         DiffLeafsets, PutCoins, PutLeafsetAndPurge, ClearRollbackHeight, Recheck, WaitHeaderTip,
         QueryTimesOut, SyncedChanges, QueryFails, Restart, vars, dbVars, locals, loop

(* The wanted heights are below the block synced to, and exist on the branch *)
(* the hashes were read from.                                                *)
LEMMA WantedType ==
    ASSUME IInv, pc = "headers"
    PROVE  /\ WantedHeights \subseteq 1..Height(hdrTip)
           /\ WantedHeights \subseteq Heights
           /\ \A h \in WantedHeights : /\ h < Height(last)
                                       /\ Len(Outs[Path[hdrTip][h]]) \in Nat
                                       /\ Len(Outs[Path[hdrTip][h]]) >= 1
<1> USE DEF IInv
<1>1. WantedHeights \subseteq 1..Height(hdrTip) /\ hdrTip \in Blocks
  BY DEF FetchShape, TypeOK
<1>2. WantedHeights \subseteq Heights
  BY <1>1 DEF Heights
<1>3. ASSUME NEW h \in WantedHeights PROVE h < Height(last)
  BY <1>3, LoopType, HeightType DEF WantedHeights, TypeOK
<1>4. ASSUME NEW h \in WantedHeights
      PROVE  Len(Outs[Path[hdrTip][h]]) \in Nat /\ Len(Outs[Path[hdrTip][h]]) >= 1
  BY <1>1, <1>4, AtType, OutsType, MwebAssumption
<1> QED
  BY <1>1, <1>2, <1>3, <1>4

(* Every action but these leaves the counts alone, and every action but      *)
(* those the mark.                                                           *)
LEMMA CountsFrame ==
    ASSUME [Next]_vars
    PROVE  /\ \/ PurgeCoins \/ RollbackLeavesAtHeight \/ PutMwebHeaders \/ PutLeavesAtHeight
              \/ leavesAt' = leavesAt
           /\ \/ (\E b \in Blocks, f \in Heights : StartReorg(b, f))
              \/ PurgeCoins \/ ClearRollbackHeight \/ mark' = mark
BY DEF Next, BlockHandler, ConnectHeaders, KnownHeaders, StartReorg, RollbackBlock,
       WriteBranchHead, WriteBranchRest, Publish, MwebHandler, WaitHeadersSynced,
       ReadChainTip, GetRollbackHeight, KeepTip, StepToFork, AskMwebHeaders, EndPass, VerifyLeafset,
       DiffLeafsets, PutCoins, PutLeafsetAndPurge, ClearRollbackHeight,
       RollbackLeavesAtHeight, PutMwebHeaders, PutLeavesAtHeight,
       Recheck, WaitHeaderTip, QueryTimesOut, SyncedChanges, QueryFails, Restart, vars, dbVars

LEMMA CountsTrimmedStep == ASSUME Calm, IInv, CInv, [Next]_vars PROVE CountsTrimmed'
<1> USE DEF IInv, CInv, CountsTrimmed, Picked
<1>0. leavesAt \in [Heights -> Nat] /\ Heights \subseteq Nat /\ rb \in Nat /\ last \in Blocks
  BY HeightType DEF TypeOK, Heights
<1>1. CASE RollbackLeavesAtHeight
  <2>1. \A h \in Heights : /\ rb > 0 /\ h > rb => leavesAt'[h] = 0
                           /\ leavesAt[h] = 0 => leavesAt'[h] = 0
    BY <1>0, <1>1 DEF RollbackLeavesAtHeight
  <2>2. leavesAt = NoCounts => leavesAt' = NoCounts
    BY <1>1 DEF RollbackLeavesAtHeight, NoCounts
  <2> QED
    BY <1>0, <1>1, <2>1, <2>2 DEF RollbackLeavesAtHeight, bhVars, locals, loop
<1>2. CASE PutMwebHeaders
  <2>1. /\ UNCHANGED <<bhPc, mark, rb>> /\ pc = "headers"
        /\ \A h \in Heights : h \notin WantedHeights => leavesAt'[h] = leavesAt[h]
        /\ leavesAt' = [h \in Heights |-> leavesAt'[h]]
    BY <1>2 DEF PutMwebHeaders, bhVars, locals, loop
  <2>2. ASSUME rb # 0, mark # 0, NEW h \in WantedHeights PROVE h < rb
    BY <1>0, <2>1, <2>2, WantedType, HeightType DEF MarkHeld, Heights
  <2>3. bhPc = "rolling" => WantedHeights = {}
    BY <1>2 DEF PutMwebHeaders, NetworkStep, Calm
  <2>4. bhPc = "rolling" => leavesAt' = leavesAt
    BY <1>0, <2>1, <2>3
  <2> QED
    BY <1>0, <2>1, <2>2, <2>4, WantedType
<1>3. CASE PutLeavesAtHeight
  <2>1. /\ UNCHANGED <<bhPc, mark, rb>> /\ pc = "size"
        /\ \A h \in Heights : h # Height(last) => leavesAt'[h] = leavesAt[h]
    BY <1>0, <1>3 DEF PutLeavesAtHeight, bhVars, locals, loop
  <2>2. rb # 0 /\ mark # 0 => Height(last) <= rb
    BY <1>0, <2>1, HeightType DEF MarkHeld
  <2>3. bhPc = "rolling" => mark # 0
    BY <2>1 DEF MarkHeld, Verified
  <2> QED
    BY <1>0, <2>1, <2>2, <2>3, HeightType
<1>4. CASE PurgeCoins
  BY <1>4 DEF PurgeCoins, NoCounts, bhVars
<1>5. ASSUME NEW b \in Blocks, NEW f \in Heights, StartReorg(b, f) PROVE CountsTrimmed'
  <2>1. f # 0
    BY HeightType DEF Heights
  <2> QED
    BY <1>5, <2>1 DEF StartReorg, Settled, Holding, Calm, locals, loop
<1>6. CASE ClearRollbackHeight
  BY <1>6 DEF ClearRollbackHeight, MarkHeld, Verified, bhVars
<1>7. CASE leavesAt' = leavesAt /\ mark' = mark /\ ~RollbackLeavesAtHeight
  <2>1. bhPc' = "rolling" => bhPc = "rolling" \/ \E b \in Blocks, f \in Heights : StartReorg(b, f)
    BY DEF Next, BlockHandler, ConnectHeaders, KnownHeaders, RollbackBlock,
           WriteBranchHead, WriteBranchRest, Publish, MwebHandler, WaitHeadersSynced,
           ReadChainTip, GetRollbackHeight, KeepTip, PurgeCoins, StepToFork,
           RollbackLeavesAtHeight, AskMwebHeaders, EndPass, PutMwebHeaders, VerifyLeafset,
           PutLeavesAtHeight, DiffLeafsets, PutCoins, PutLeafsetAndPurge, ClearRollbackHeight,
           Recheck, WaitHeaderTip, QueryTimesOut, SyncedChanges, QueryFails, Restart, vars, bhVars
  <2>2. pc' \in Picked \ {"trim"} => pc \in Picked \ {"trim"} /\ rb' = rb
    BY <1>7
       DEF Next, BlockHandler, ConnectHeaders, KnownHeaders, StartReorg, RollbackBlock,
           WriteBranchHead, WriteBranchRest, Publish, Woken, MwebHandler, WaitHeadersSynced,
           ReadChainTip, GetRollbackHeight, KeepTip, PurgeCoins, StepToFork,
           AskMwebHeaders, EndPass, PutMwebHeaders, VerifyLeafset,
           PutLeavesAtHeight, DiffLeafsets, PutCoins, PutLeafsetAndPurge, ClearRollbackHeight,
           Recheck, WaitHeaderTip, QueryTimesOut, SyncedChanges, QueryFails, Restart, vars, locals, loop
  <2> QED
    BY <1>5, <1>7, <2>1, <2>2
<1> QED
  BY <1>1, <1>2, <1>3, <1>4, <1>5, <1>6, <1>7, CountsFrame

(* What the header query adds is of the header chain. *)
LEMMA HeadersServed ==
    ASSUME Calm, IInv, CInv, PutMwebHeaders, WantedHeights # {}
    PROVE  Meets(hdrTip)
<1>1. hdrTip \in Blocks /\ mark \in Nat /\ tip \in Blocks /\ pc = "headers" /\ Served(hdrTip)
  BY DEF IInv, TypeOK, PutMwebHeaders, NetworkStep
<1>2. CASE Astray
  BY <1>1, <1>2, OnMeets DEF Astray, Emptied, Served
<1> QED
  BY <1>1, <1>2 DEF CInv, HeadersMeet

LEMMA CountsTrueStep == ASSUME Calm, IInv, CInv, [Next]_vars PROVE CountsTrue'
<1> USE DEF IInv, CInv
<1>0. /\ leavesAt \in [Heights -> Nat] /\ Heights \subseteq Nat \ {0} /\ tip \in Blocks
      /\ mark \in Nat /\ rb \in Nat /\ last \in Blocks /\ Height(tip) \in Nat
      /\ TypeOK'
  BY HeightType, TypeStep DEF TypeOK, Heights
<1>1. ASSUME NEW h \in Heights, leavesAt[h] # 0, mark = 0 \/ h <= mark, ~PurgeCoins,
             RollbackBlock \/ WriteBranchHead => mark # 0,
             mark' = 0 \/ h <= mark'
      PROVE  h <= Height(tip') /\ leavesAt[h] = Len(Outs[Path[tip'][h]])
  <2>1. h \in 1..Height(tip) /\ leavesAt[h] = Len(Outs[Path[tip][h]])
    BY <1>0, <1>1 DEF CountsTrue
  <2>0. PICK b \in Blocks : b = Path[tip][h]
    BY <1>0, <2>1, AtType
  <2>2. Height(b) = h /\ On(b, tip) /\ h \in Nat /\ mark' \in Nat /\ tip' \in Blocks
    <3>1. Height(b) = h /\ \A k \in 1..h : Path[b][k] = Path[tip][k]
      <4> HIDE DEF IInv, CInv
      <4> QED
        BY <1>0, <2>0, <2>1, AtType
    <3>2. h \in Nat /\ h <= Height(tip)
      BY <1>0, <2>1
    <3>3. On(b, tip)
      BY <2>0, <3>1, <3>2 DEF On
    <3>4. mark' \in Nat /\ tip' \in Blocks
      BY <1>0 DEF TypeOK
    <3> QED
      BY <3>1, <3>2, <3>3, <3>4
  <2>3. Meets(b)
    BY <1>0, <2>2, OnMeets
  <2>4. Meets(b)'
    BY <1>0, <1>1, <2>2, <2>3, MeetsStep
  <2>5. h <= Height(tip') /\ Path[b][h] = Path[tip'][h]
    BY <1>1, <2>2, <2>4 DEF Meets
  <2>6. Path[tip'][h] = b
    BY <2>2, <2>5, OnTip
  <2> QED
    BY <2>0, <2>1, <2>5, <2>6
<1>2. CASE leavesAt' = leavesAt /\ ~PurgeCoins
  <2>1. CASE (RollbackBlock \/ WriteBranchHead) /\ mark = 0
    <3>1. leavesAt = NoCounts
      BY <2>1 DEF RollbackBlock, WriteBranchHead, CountsTrimmed, ReorgShape
    <3> QED
      BY <1>2, <3>1 DEF CountsTrue, NoCounts
  <2>2. CASE RollbackBlock \/ WriteBranchHead => mark # 0
    <3>1. ASSUME NEW h \in Heights, leavesAt[h] # 0, mark' = 0 \/ h <= mark'
          PROVE  mark = 0 \/ h <= mark
      <4>1. CASE mark' = mark
        BY <3>1, <4>1
      <4>2. ASSUME NEW c \in Blocks, NEW f \in Heights, StartReorg(c, f) PROVE mark = 0
        BY <4>2 DEF StartReorg, Settled, Calm
      <4>3. CASE ClearRollbackHeight
        BY <1>0, <3>1, <4>3 DEF ClearRollbackHeight, CountsTrimmed, Picked
      <4> QED
        BY <1>2, <4>1, <4>2, <4>3, CountsFrame
    <3> QED
      BY <1>1, <1>2, <2>2, <3>1 DEF CountsTrue
  <2> QED
    BY <2>1, <2>2
<1>3. CASE RollbackLeavesAtHeight
  <2>1. \A h \in Heights : leavesAt'[h] # 0 => leavesAt'[h] = leavesAt[h]
    BY <1>0, <1>3 DEF RollbackLeavesAtHeight
  <2> QED
    BY <1>3, <2>1 DEF RollbackLeavesAtHeight, CountsTrue, bhVars
<1>4. CASE PutMwebHeaders
  <2>1. ASSUME NEW h \in WantedHeights, mark = 0 \/ h <= mark
        PROVE  h <= Height(tip) /\ Path[hdrTip][h] = Path[tip][h]
    <3>1. /\ hdrTip \in Blocks /\ Meets(hdrTip) /\ h \in 1..Height(hdrTip)
          /\ Height(hdrTip) \in Nat
      BY <1>4, <2>1, HeadersServed, WantedType, HeightType DEF PutMwebHeaders, TypeOK
    <3>2. /\ Bound(hdrTip) \in 1..Height(hdrTip) /\ Bound(hdrTip) <= Height(tip)
          /\ Path[hdrTip][Bound(hdrTip)] = Path[tip][Bound(hdrTip)]
      BY <1>0, <3>1, MeetsBound
    <3>3. h \in 1..Bound(hdrTip)
      BY <1>0, <2>1, <3>1, <3>2 DEF Bound
    <3> QED
      BY <1>0, <3>1, <3>2, <3>3, AgreeBelow
  <2>2. \A h \in Heights : leavesAt'[h] = IF h \in WantedHeights THEN Len(Outs[Path[hdrTip][h]])
                                                                 ELSE leavesAt[h]
    BY <1>4 DEF PutMwebHeaders
  <2> QED
    BY <1>4, <2>1, <2>2 DEF PutMwebHeaders, CountsTrue, bhVars
<1>5. CASE PutLeavesAtHeight
  <2>1. /\ \A h \in Heights : leavesAt'[h] = IF h = Height(last) THEN Len(Outs[last])
                                                                 ELSE leavesAt[h]
        /\ UNCHANGED <<tip, mark>>
    BY <1>0, <1>5 DEF PutLeavesAtHeight, bhVars
  <2>2. ASSUME mark = 0 \/ Height(last) <= mark
        PROVE  Height(last) <= Height(tip) /\ Path[tip][Height(last)] = last
    <3>1. Meets(last)
      BY <1>5 DEF PutLeavesAtHeight, LastMeets, Holding, Astray, Verified
    <3> QED
      BY <1>0, <2>2, <3>1, MeetsOn DEF On
  <2> QED
    BY <2>1, <2>2 DEF CountsTrue
<1>6. CASE PurgeCoins
  BY <1>6 DEF PurgeCoins, CountsTrue, NoCounts
<1> QED
  <2>1. ~PurgeCoins \/ PurgeCoins
    OBVIOUS
  <2> QED
    BY <2>1, <1>2, <1>3, <1>4, <1>5, <1>6, CountsFrame

(* No step extends the reach of the mark past what it was, where the handler *)
(* clears only a mark above the block.                                       *)
LEMMA BoundShrinks ==
    ASSUME Calm, IInv, [Next]_vars, ~PurgeCoins, NEW b \in Blocks,
           ClearRollbackHeight /\ mark = rb /\ rb # 0 => Height(b) <= mark
    PROVE  /\ Bound(b)' \in 1..Bound(b)
           /\ Bound(b) \in 1..Height(b)
           /\ Reach(b)' \in Nat /\ Reach(b) \in Nat /\ Reach(b)' <= Reach(b)
<1>0. /\ mark \in Nat /\ mark' \in Nat /\ Height(b) \in Nat /\ Height(b) >= 1
      /\ Bound(b) \in 1..Height(b)
  BY TypeStep, HeightType, MeetsBound DEF IInv, TypeOK
<1>1. Bound(b)' \in 1..Bound(b)
  <2>1. CASE mark' = mark
    BY <1>0, <2>1 DEF Bound
  <2>2. ASSUME NEW c \in Blocks, NEW f \in Heights, StartReorg(c, f) PROVE Bound(b)' \in 1..Bound(b)
    <3>1. mark = 0 /\ mark' # 0
      BY <2>2, HeightType DEF StartReorg, Settled, Calm, Heights
    <3> QED
      BY <1>0, <3>1 DEF Bound
  <2>3. CASE ClearRollbackHeight
    <3>1. mark' = mark \/ (mark' = 0 /\ Height(b) <= mark)
      BY <2>3 DEF ClearRollbackHeight
    <3> QED
      BY <1>0, <3>1 DEF Bound
  <2> QED
    BY <2>1, <2>2, <2>3, CountsFrame
<1>2. PICK m \in 1..Height(b) : m = Bound(b)
  BY <1>0
<1>3. PICK k \in 1..m : k = Bound(b)'
  BY <1>1, <1>2
<1>4. /\ Path[b][m] \in Blocks /\ Path[b][k] \in Blocks
      /\ Len(Outs[Path[b][k]]) <= Len(Outs[Path[b][m]])
  BY <1>0, AtType, LeavesGrow
<1> QED
  BY <1>0, <1>1, <1>2, <1>3, <1>4, OutsType DEF Reach

LEMMA CountsGrow ==
    ASSUME IInv, [Next]_vars, ~PurgeCoins, ~RollbackLeavesAtHeight, NEW h \in Heights, leavesAt[h] # 0
    PROVE  leavesAt'[h] # 0
<1> USE DEF IInv
<1>1. CASE PutMwebHeaders
  BY <1>1, WantedType DEF PutMwebHeaders
<1>2. CASE PutLeavesAtHeight
  BY <1>2, MwebAssumption, OutsType DEF PutLeavesAtHeight, TypeOK
<1> QED
  BY <1>1, <1>2, CountsFrame

(* A batch asks for every count of its heights that is not there yet, where  *)
(* it takes the heights one by one.                                          *)
LEMMA BatchFull ==
    ASSUME TypeOK, pass = "dense" \/ Stride = 1,
           NEW k \in Heights, from <= k, k < ToHeight, leavesAt[k] = 0
    PROVE  k \in WantedHeights
<1>1. PassStride = 1
  BY DEF PassStride
<1>2. k \in Nat /\ from \in Nat /\ ToHeight \in Nat
  BY LoopType, HeightType DEF Heights, TypeOK
<1>3. k \in from..(ToHeight - 1) /\ (k - from) % 1 = 0
  BY <1>2
<1> QED
  BY <1>1, <1>3 DEF WantedHeights

LEMMA AskedSoFarStep == ASSUME Calm, CountsAll, IInv, CInv, [Next]_vars PROVE AskedSoFar'
<1> USE DEF IInv, CInv
<1>0. /\ last \in Blocks /\ mark \in Nat /\ from \in Nat /\ Height(last) \in Nat
      /\ Bound(last) \in 1..Height(last) /\ 1..Height(last) \subseteq Heights
      /\ StartHeight \in Nat /\ DenseHeight \in Nat /\ ToHeight \in Nat
  BY MeetsBound, HeightType, LoopType DEF TypeOK, Heights
<1>1. CASE RollbackLeavesAtHeight
  <2>1. from' = StartHeight /\ StartHeight' = StartHeight
    BY <1>1 DEF RollbackLeavesAtHeight, StartHeight
  <2> QED
    BY <1>0, <2>1 DEF AskedSoFar
<1>2. CASE AskMwebHeaders
  <2>1. /\ pc = "ask" /\ UNCHANGED <<last, mark, leafBlk, leavesAt>>
        /\ StartHeight' = StartHeight /\ Bound(last)' = Bound(last)
    BY <1>2 DEF AskMwebHeaders, StartHeight, Bound, dbVars
  <2>2. CASE WantedHeights = {} /\ from' = ToHeight /\ UNCHANGED <<pc, pass, asked, hdrTip>>
    <3>1. ASSUME pass = "dense" \/ Stride = 1, NEW k \in 1..Bound(last),
                 StartHeight <= k, k < ToHeight, k < Height(last)
          PROVE  leavesAt[k] # 0
      <4>1. CASE k < from
        BY <2>1, <3>1, <4>1 DEF AskedSoFar
      <4>2. CASE ~(k < from)
        BY <1>0, <2>2, <3>1, <4>2, BatchFull
      <4> QED
        BY <4>1, <4>2
    <3> QED
      BY <2>1, <2>2, <3>1 DEF AskedSoFar
  <2>3. CASE UNCHANGED <<pass, from>>
    BY <2>1, <2>3 DEF AskedSoFar
  <2>4. CASE pc' = "start"
    BY <2>4 DEF AskedSoFar
  <2> QED
    BY <1>2, <2>2, <2>3, <2>4 DEF AskMwebHeaders
<1>3. CASE PutMwebHeaders
  <2>1. /\ pc = "headers" /\ from' = ToHeight /\ UNCHANGED <<last, mark, leafBlk, pass>>
        /\ StartHeight' = StartHeight /\ Bound(last)' = Bound(last)
    BY <1>3 DEF PutMwebHeaders, StartHeight, Bound
  <2>2. ~PurgeCoins /\ ~RollbackLeavesAtHeight
    BY <2>1 DEF PurgeCoins, RollbackLeavesAtHeight
  <2>3. ASSUME pass = "dense" \/ Stride = 1, NEW k \in 1..Bound(last),
               StartHeight <= k, k < ToHeight, k < Height(last)
        PROVE  leavesAt'[k] # 0
    <3>1. k \in Heights
      BY <1>0
    <3>2. CASE leavesAt[k] # 0
      BY <2>2, <3>1, <3>2, CountsGrow
    <3>3. CASE leavesAt[k] = 0
      <4>1. ~(k < from)
        BY <2>1, <2>3, <3>3 DEF AskedSoFar
      <4>2. k \in WantedHeights
        BY <1>0, <2>3, <3>1, <3>3, <4>1, BatchFull
      <4> QED
        BY <1>3, <2>1, <3>1, <4>2, WantedType DEF PutMwebHeaders
    <3> QED
      BY <3>2, <3>3
  <2> QED
    BY <2>1, <2>3 DEF AskedSoFar
<1>4. CASE EndPass
  <2>1. /\ pc = "ask" /\ from >= Height(last) /\ UNCHANGED <<last, mark, leafBlk, leavesAt>>
        /\ StartHeight' = StartHeight /\ Bound(last)' = Bound(last)
    BY <1>4 DEF EndPass, StartHeight, Bound, dbVars
  <2>2. CASE pass = "strided" /\ pass' = "dense" /\ from' = DenseHeight
    <3>1. CASE Stride = 1
      BY <1>0, <2>1, <2>2, <3>1 DEF AskedSoFar
    <3>2. CASE Height(last) <= Dense
      <4>1. DenseHeight = StartHeight
        BY <1>0, <3>2, MwebSyncAssumption DEF DenseHeight
      <4> QED
        BY <1>0, <2>1, <2>2, <4>1 DEF AskedSoFar
    <3> QED
      BY <1>0, <3>1, <3>2 DEF CountsAll
  <2>3. CASE pc' = "query"
    BY <2>3 DEF AskedSoFar
  <2> QED
    BY <1>4, <2>2, <2>3 DEF EndPass
<1>5. CASE pc' \notin {"ask", "headers"}
  BY <1>5 DEF AskedSoFar
<1>6. CASE /\ pc \in {"ask", "headers"} /\ UNCHANGED <<pc, last, loop, leafBlk>>
           /\ ~PutMwebHeaders
  <2>1. ~ClearRollbackHeight /\ ~PurgeCoins /\ ~RollbackLeavesAtHeight
    BY <1>6 DEF ClearRollbackHeight, PurgeCoins, RollbackLeavesAtHeight
  <2>2. Bound(last)' \in 1..Bound(last)
    BY <1>0, <1>6, <2>1, BoundShrinks DEF Bound
  <2>3. StartHeight' = StartHeight
    BY <1>6 DEF StartHeight
  <2>4. \A k \in 1..Bound(last)' : k \in 1..Bound(last) /\ k \in Heights
    BY <1>0, <2>2
  <2>5. \A k \in Heights : leavesAt[k] # 0 => leavesAt'[k] # 0
    BY <2>1, CountsGrow
  <2> QED
    BY <1>6, <2>3, <2>4, <2>5 DEF AskedSoFar, loop
<1> QED
  <2>1. CASE BlockHandler
    BY <2>1, <1>5, <1>6
       DEF BlockHandler, ConnectHeaders, KnownHeaders, StartReorg, RollbackBlock,
           WriteBranchHead, WriteBranchRest, Publish, Woken, PutMwebHeaders, bhVars, dbVars,
           locals
  <2>2. CASE MwebHandler
    BY <2>2, <1>1, <1>2, <1>3, <1>4, <1>5
       DEF MwebHandler, WaitHeadersSynced, ReadChainTip, GetRollbackHeight, KeepTip, PurgeCoins,
           StepToFork, VerifyLeafset, PutLeavesAtHeight, DiffLeafsets, PutCoins,
           PutLeafsetAndPurge, ClearRollbackHeight, Recheck, WaitHeaderTip, QueryTimesOut
  <2>3. CASE SyncedChanges \/ QueryFails \/ Restart \/ UNCHANGED vars
    BY <2>3, <1>5, <1>6
       DEF SyncedChanges, QueryFails, Restart, PutMwebHeaders, vars, dbVars, locals
  <2> QED
    BY <2>1, <2>2, <2>3 DEF Next

(* At its end no count below the block synced to is missing: those below the *)
(* stored block were there before.                                           *)
LEMMA HeadersFill ==
    ASSUME IInv, CInv, CountsAll, pc = "ask", pass = "dense", from >= Height(last),
           NEW k \in 1..Bound(last), k < Height(last)
    PROVE  leavesAt[k] # 0
<1> USE DEF IInv, CInv
<1>0. /\ last \in Blocks /\ mark \in Nat /\ Bound(last) \in 1..Height(last)
      /\ Height(last) \in Nat /\ from \in Nat /\ Activation \in Nat /\ Activation <= 1
      /\ leafBlk # None => leafBlk \in Blocks /\ Height(leafBlk) \in Nat
  BY MeetsBound, HeightType, MwebSyncAssumption DEF TypeOK, CountsAll
<1>1. CASE leafBlk # None /\ k < Height(leafBlk)
  <2>1. k \in 1..Bound(leafBlk)
    BY <1>0, <1>1 DEF Bound
  <2> QED
    BY <1>1, <2>1 DEF CountsFull
<1>2. CASE leafBlk = None \/ k >= Height(leafBlk)
  <2>1. StartHeight <= k
    BY <1>0, <1>2 DEF StartHeight
  <2> QED
    BY <1>0, <2>1 DEF AskedSoFar
<1> QED
  BY <1>0, <1>1, <1>2

LEMMA CountsFullStep == ASSUME Calm, CountsAll, IInv, CInv, [Next]_vars PROVE CountsFull'
<1> USE DEF IInv, CInv
<1>0. /\ leavesAt \in [Heights -> Nat] /\ last \in Blocks /\ mark \in Nat /\ rb \in Nat
      /\ \A b \in Blocks : Bound(b) \in 1..Height(b) /\ 1..Height(b) \subseteq Heights
      /\ mark' \in Nat
  BY MeetsBound, TypeStep DEF TypeOK, Heights
<1>1. (leafBlk # None => \A k \in 1..Bound(leafBlk) : leavesAt[k] # 0)'
  <2>1. CASE leafBlk' = leafBlk /\ leafBlk # None
    <3>1. leafBlk \in Blocks /\ ~PurgeCoins
      BY <2>1 DEF TypeOK, PurgeCoins
    <3>2. ClearRollbackHeight /\ mark = rb /\ rb # 0 => Height(leafBlk) <= mark
      BY DEF ClearRollbackHeight, FetchShape, MarkHeld, Picked, TypeOK
    <3>3. /\ Bound(leafBlk)' \in 1..Bound(leafBlk) /\ Bound(leafBlk) \in 1..Height(leafBlk)
          /\ Height(leafBlk) \in Nat
      BY <2>1, <3>1, <3>2, BoundShrinks, HeightType DEF Bound
    <3>4. ASSUME NEW k \in 1..Bound(leafBlk)' PROVE leavesAt'[k] # 0
      <4>1. k \in 1..Bound(leafBlk) /\ k \in Heights
        BY <1>0, <3>1, <3>3
      <4>2. leavesAt[k] # 0
        BY <2>1, <4>1 DEF CountsFull
      <4>3. CASE RollbackLeavesAtHeight
        <5>1. rb > 0 => mark = rb
          BY <2>1, <4>3 DEF RollbackLeavesAtHeight, MarkHeld, Picked
        <5>2. rb > 0 => Bound(leafBlk) <= rb
          BY <1>0, <3>1, <5>1, HeightType DEF Bound
        <5>3. ~(rb > 0 /\ k > rb)
          BY <1>0, <3>3, <4>1, <5>2
        <5> QED
          BY <4>1, <4>2, <4>3, <5>3 DEF RollbackLeavesAtHeight
      <4> QED
        BY <3>1, <4>1, <4>2, <4>3, CountsGrow
    <3> QED
      BY <3>4
  <2>2. CASE PutLeafsetAndPurge
    BY <2>2 DEF PutLeafsetAndPurge, CountsFull, Bound, locals, loop
  <2>3. CASE leafBlk' = None
    BY <2>3
  <2>4. PutLeafsetAndPurge \/ leafBlk' \in {leafBlk, None}
    BY DEF Next, BlockHandler, ConnectHeaders, KnownHeaders, StartReorg, RollbackBlock,
           WriteBranchHead, WriteBranchRest, Publish, MwebHandler, WaitHeadersSynced,
           ReadChainTip, GetRollbackHeight, KeepTip, PurgeCoins, StepToFork,
           RollbackLeavesAtHeight, AskMwebHeaders, EndPass, PutMwebHeaders, VerifyLeafset,
           PutLeavesAtHeight, DiffLeafsets, PutCoins, ClearRollbackHeight, Recheck,
           WaitHeaderTip, QueryTimesOut, SyncedChanges, QueryFails, Restart, vars, dbVars
  <2> QED
    BY <2>1, <2>2, <2>3, <2>4
<1>2. ASSUME last' = last, pc \notin {"decide", "trim", "clear"} \/ pc' = pc
      PROVE  /\ Bound(last)' \in 1..Bound(last) /\ Bound(last) \in 1..Height(last)
             /\ ~PurgeCoins /\ ~RollbackLeavesAtHeight
  <2>1. ~ClearRollbackHeight /\ ~PurgeCoins /\ ~RollbackLeavesAtHeight
    BY <1>2 DEF ClearRollbackHeight, PurgeCoins, RollbackLeavesAtHeight
  <2> QED
    BY <1>0, <1>2, <2>1, BoundShrinks DEF Bound
<1>3. (pc \in {"query", "size"} => \A k \in 1..Bound(last) : k < Height(last) => leavesAt[k] # 0)'
  <2>1. CASE EndPass /\ pass = "dense"
    <3>1. UNCHANGED <<last, leavesAt>> /\ Bound(last)' = Bound(last)
      BY <2>1 DEF EndPass, Bound, dbVars
    <3> QED
      BY <2>1, <3>1, HeadersFill DEF EndPass
  <2>2. CASE pc \in {"query", "size"} /\ last' = last
    <3>1. \A k \in 1..Bound(last)' : k \in 1..Bound(last) /\ k \in Heights
      BY <1>0, <1>2, <2>2, HeightType
    <3> QED
      BY <1>2, <2>2, <3>1, CountsGrow DEF CountsFull
  <2>3. CASE pc' \notin {"query", "size"}
    BY <2>3
  <2> QED
    BY <2>1, <2>2, <2>3
       DEF Next, BlockHandler, ConnectHeaders, KnownHeaders, StartReorg, RollbackBlock,
           WriteBranchHead, WriteBranchRest, Publish, Woken, MwebHandler, WaitHeadersSynced,
           ReadChainTip, GetRollbackHeight, KeepTip, PurgeCoins, StepToFork,
           RollbackLeavesAtHeight, AskMwebHeaders, PutMwebHeaders, EndPass, VerifyLeafset,
           PutLeavesAtHeight, DiffLeafsets, PutCoins, PutLeafsetAndPurge, ClearRollbackHeight,
           Recheck, WaitHeaderTip, QueryTimesOut, SyncedChanges, QueryFails, Restart, vars, locals
<1>4. (pc \in {"diff", "fetch", "clear"} => \A k \in 1..Bound(last) : leavesAt[k] # 0)'
  <2>1. CASE PutLeavesAtHeight
    <3>1. /\ pc = "size" /\ last' = last /\ Bound(last)' = Bound(last)
          /\ leavesAt' = [leavesAt EXCEPT ![Height(last)] = Len(Outs[last])]
      BY <2>1 DEF PutLeavesAtHeight, Bound, locals, loop
    <3>2. /\ Len(Outs[last]) \in Nat /\ Len(Outs[last]) >= 1
          /\ Height(last) \in Heights /\ Height(last) \in Nat
          /\ \A k \in 1..Bound(last) : k \in Heights /\ (k < Height(last) \/ k = Height(last))
      <4>1. Len(Outs[last]) \in Nat /\ Len(Outs[last]) >= 1
        BY <1>0, MwebAssumption, OutsType
      <4>2. Height(last) \in Nat /\ Height(last) >= 1
        BY <1>0, HeightType
      <4>3. /\ Bound(last) \in 1..Height(last)
            /\ \A k \in 1..Height(last) : k \in Heights
        BY <1>0
      <4> QED
        BY <4>1, <4>2, <4>3
    <3>3. ASSUME NEW k \in 1..Bound(last) PROVE leavesAt'[k] # 0
      <4>1. CASE k = Height(last)
        BY <1>0, <3>1, <3>2, <4>1
      <4>2. CASE k < Height(last)
        BY <1>0, <3>1, <3>2, <4>2 DEF CountsFull
      <4> QED
        BY <3>2, <4>1, <4>2
    <3> QED
      BY <3>1, <3>3
  <2>2. CASE pc \in {"diff", "fetch", "clear"} /\ pc' \in {"diff", "fetch", "clear"} /\ last' = last
    <3>1. pc \notin {"decide", "trim", "clear"} \/ pc' = pc
      BY <2>2
         DEF Next, BlockHandler, ConnectHeaders, KnownHeaders, StartReorg, RollbackBlock,
             WriteBranchHead, WriteBranchRest, Publish, Woken, MwebHandler, WaitHeadersSynced,
             ReadChainTip, GetRollbackHeight, KeepTip, PurgeCoins, StepToFork,
             RollbackLeavesAtHeight, AskMwebHeaders, EndPass, PutMwebHeaders, VerifyLeafset,
             PutLeavesAtHeight, DiffLeafsets, PutCoins, PutLeafsetAndPurge, ClearRollbackHeight,
             Recheck, WaitHeaderTip, QueryTimesOut, SyncedChanges, QueryFails, Restart, vars
    <3>2. \A k \in 1..Bound(last)' : k \in 1..Bound(last) /\ k \in Heights
      BY <1>0, <1>2, <2>2, <3>1, HeightType
    <3> QED
      BY <1>2, <2>2, <3>1, <3>2, CountsGrow DEF CountsFull
  <2>3. CASE pc' \notin {"diff", "fetch", "clear"}
    BY <2>3
  <2> QED
    BY <2>1, <2>2, <2>3
       DEF Next, BlockHandler, ConnectHeaders, KnownHeaders, StartReorg, RollbackBlock,
           WriteBranchHead, WriteBranchRest, Publish, Woken, MwebHandler, WaitHeadersSynced,
           ReadChainTip, GetRollbackHeight, KeepTip, PurgeCoins, StepToFork,
           RollbackLeavesAtHeight, AskMwebHeaders, EndPass, PutMwebHeaders, VerifyLeafset,
           DiffLeafsets, PutCoins, PutLeafsetAndPurge, ClearRollbackHeight, Recheck,
           WaitHeaderTip, QueryTimesOut, SyncedChanges, QueryFails, Restart, vars, locals, loop
<1> QED
  BY <1>1, <1>3, <1>4 DEF CountsFull

(* A leaf of the stored leafset keeps its mapping and its coin as long as    *)
(* the leafset stays.                                                        *)
LEMMA StoredKept ==
    ASSUME IInv, [Next]_vars, leafBlk' = leafBlk, leafBlk # None, ~PutLeafsetAndPurge,
           NEW i \in Unspent[leafBlk], Backed(i)', leafMap'[i] \in MinedOnce
    PROVE  Backed(i) /\ leafMap'[i] = leafMap[i] /\ coins'[leafMap[i]] = coins[leafMap[i]]
<1> USE DEF IInv
<1>0. /\ last \in Blocks /\ leafBlk \in Blocks /\ ~PurgeCoins
      /\ leafMap \in [Leaves -> Output \cup {None}] /\ coins \in [Output -> Nat]
  BY DEF TypeOK, PurgeCoins
<1>1. CASE UNCHANGED <<leafMap, coins>>
  BY <1>1 DEF Backed
<1>2. ASSUME NEW j \in Leaves, PutCoins(j)
      PROVE  Backed(i) /\ leafMap'[i] = leafMap[i] /\ coins'[leafMap[i]] = coins[leafMap[i]]
  <2>1. /\ j \in todo /\ todo \subseteq Unspent[last] \ LeafsetOf(leafBlk) /\ pc = "fetch"
        /\ leafMap' = [leafMap EXCEPT ![j] = Outs[last][j]]
        /\ coins' = [coins EXCEPT ![Outs[last][j]] = RoughHeight(j)]
    BY <1>2 DEF PutCoins, FetchShape
  <2>2. /\ i # j /\ i \in Leaves /\ i \in 1..Len(Outs[leafBlk]) /\ j \in 1..Len(Outs[last])
        /\ Comparable(leafBlk, last)
    BY <1>0, <2>1, OutsType DEF LeafsetOf, SameBranch, Picked
  <2>4. leafMap'[i] = leafMap[i] /\ leafMap[i] = Outs[leafBlk][i]
    BY <1>0, <2>1, <2>2 DEF Backed
  <2>3. Outs[leafBlk][i] # Outs[last][j] /\ Outs[leafBlk][i] \in Output
    BY <1>0, <2>2, <2>4, OutsAgree, OutsType
  <2>5. coins'[leafMap[i]] = coins[leafMap[i]]
    BY <1>0, <2>1, <2>3, <2>4
  <2> QED
    BY <2>4, <2>5 DEF Backed
<1> QED
  BY <1>0, <1>1, <1>2
     DEF Next, BlockHandler, ConnectHeaders, KnownHeaders, StartReorg, RollbackBlock,
         WriteBranchHead, WriteBranchRest, Publish, MwebHandler, WaitHeadersSynced,
         ReadChainTip, GetRollbackHeight, KeepTip, StepToFork, RollbackLeavesAtHeight,
         AskMwebHeaders, EndPass, PutMwebHeaders, VerifyLeafset, PutLeavesAtHeight, DiffLeafsets,
         ClearRollbackHeight, Recheck, WaitHeaderTip, QueryTimesOut, SyncedChanges, QueryFails,
         Restart, vars, dbVars

(* Of two blocks on one branch, the counts reach at least as far on the one  *)
(* as the other has leaves within its own reach.                             *)
LEMMA ReachShared ==
    ASSUME mark \in Nat, NEW a \in Blocks, NEW b \in Blocks, Comparable(a, b),
           NEW i \in 1..Len(Outs[a]), i <= Reach(b)
    PROVE  i <= Reach(a)
<1>1. /\ Bound(a) \in 1..Height(a) /\ Bound(b) \in 1..Height(b)
      /\ Height(a) \in Nat /\ Height(b) \in Nat
  BY MeetsBound, HeightType
<1>2. CASE Bound(a) = Height(a)
  BY <1>2, OnTip DEF Reach
<1>3. CASE Bound(a) # Height(a)
  <2>1. Bound(a) = mark /\ Bound(b) <= mark /\ Bound(b) \in 1..Bound(a) /\ Bound(b) <= Height(a)
    BY <1>1, <1>3 DEF Bound
  <2>2. Path[a][Bound(b)] = Path[b][Bound(b)]
    BY <1>1, <2>1, OnAgree DEF Comparable
  <2>3. PICK m \in 1..Height(a) : m = Bound(a)
    BY <1>1
  <2>4. PICK k \in 1..m : k = Bound(b)
    BY <2>1, <2>3
  <2>5. Len(Outs[Path[a][k]]) <= Len(Outs[Path[a][m]])
    BY LeavesGrow
  <2>6. Path[a][k] \in Blocks /\ Path[a][m] \in Blocks
    BY <1>1, AtType
  <2> QED
    BY <2>2, <2>3, <2>4, <2>5, <2>6, OutsType DEF Reach
<1> QED
  BY <1>2, <1>3

LEMMA StoredHeightsStep == ASSUME Calm, IInv, CInv, [Next]_vars PROVE StoredHeights'
<1> USE DEF IInv, CInv
<1>0. /\ last \in Blocks /\ mark \in Nat
      /\ leafMap \in [Leaves -> Output \cup {None}] /\ coins \in [Output -> Nat]
  BY DEF TypeOK
<1>1. CASE leafBlk' = leafBlk /\ leafBlk # None /\ ~PutLeafsetAndPurge
  <2>1. leafBlk \in Blocks /\ ~PurgeCoins
    BY <1>1 DEF PurgeCoins, TypeOK
  <2>2. ClearRollbackHeight /\ mark = rb /\ rb # 0 => Height(leafBlk) <= mark
    BY DEF ClearRollbackHeight, FetchShape, MarkHeld, Picked, TypeOK
  <2>3. /\ Reach(leafBlk)' \in Nat /\ Reach(leafBlk) \in Nat
        /\ Reach(leafBlk)' <= Reach(leafBlk)
    BY <1>1, <2>1, <2>2, BoundShrinks DEF Reach, Bound
  <2>4. ASSUME NEW i \in Unspent[leafBlk], Backed(i)', leafMap'[i] \in MinedOnce,
               i <= Reach(leafBlk)'
        PROVE  coins'[leafMap'[i]] = MinedAt(leafBlk, i)
    <3>1. Backed(i) /\ leafMap'[i] = leafMap[i] /\ coins'[leafMap[i]] = coins[leafMap[i]]
      BY <1>1, <2>4, StoredKept
    <3>2. i <= Reach(leafBlk)
      BY <2>1, <2>3, <2>4, OutsType
    <3> QED
      BY <1>1, <2>4, <3>1, <3>2 DEF StoredHeights
  <2> QED
    BY <1>1, <2>4 DEF StoredHeights
<1>2. CASE PutLeafsetAndPurge
  <2>1. /\ pc = "fetch" /\ todo = {} /\ leafBlk' = last /\ UNCHANGED <<mark, last>>
        /\ coins' = [o \in Output |-> IF \E i \in RemovedLeaves : leafMap[i] = o
                                        THEN 0 ELSE coins[o]]
        /\ leafMap' = [i \in Leaves |-> IF i \in RemovedLeaves THEN None ELSE leafMap[i]]
    BY <1>2 DEF PutLeafsetAndPurge, locals, loop
  <2>2. Reach(last)' = Reach(last)
    BY <2>1 DEF Reach, Bound
  <2>3. ASSUME NEW i \in Unspent[last], leafMap'[i] = Outs[last][i], coins'[leafMap'[i]] > 0,
               leafMap'[i] \in MinedOnce, i <= Reach(last)
        PROVE  coins'[leafMap'[i]] = MinedAt(last, i)
    <3>1. /\ i \in 1..Len(Outs[last]) /\ i \in Leaves /\ Outs[last][i] \in Output
          /\ leafMap[i] = Outs[last][i]
      BY <1>0, <2>1, <2>3, OutsType DEF RemovedLeaves
    <3>2. coins'[Outs[last][i]] = coins[Outs[last][i]] /\ coins[Outs[last][i]] > 0
      BY <2>1, <2>3, <3>1
    <3>3. coins[Outs[last][i]] = MinedAt(last, i)
      <4>1. CASE i \in LeafsetOf(leafBlk)
        <5>1. leafBlk # None /\ leafBlk \in Blocks /\ i \in Unspent[leafBlk] /\ Comparable(leafBlk, last)
          BY <2>1, <4>1 DEF LeafsetOf, SameBranch, Picked, TypeOK
        <5>2. i \in 1..Len(Outs[leafBlk]) /\ Outs[leafBlk][i] = Outs[last][i]
          <6>1. i \in 1..Len(Outs[leafBlk])
            BY <5>1, OutsType
          <6> QED
            BY <1>0, <3>1, <5>1, <6>1, OutsSame
        <5>3. i <= Reach(leafBlk)
          BY <1>0, <2>3, <5>1, <5>2, ReachShared
        <5>4. MinedAt(leafBlk, i) = MinedAt(last, i)
          BY <1>0, <3>1, <5>1, <5>2, MinedAgree
        <5>5. Backed(i)
          BY <3>1, <3>2, <5>2 DEF Backed
        <5> QED
          BY <2>3, <3>1, <5>1, <5>3, <5>4, <5>5 DEF StoredHeights
      <4>2. CASE i \notin LeafsetOf(leafBlk)
        BY <2>1, <2>3, <4>2 DEF FetchedHeights
      <4> QED
        BY <4>1, <4>2
    <3> QED
      BY <2>3, <3>2, <3>3
  <2> QED
    BY <2>1, <2>2, <2>3 DEF StoredHeights, Backed
<1>3. CASE leafBlk' = None
  BY <1>3 DEF StoredHeights
<1>4. PutLeafsetAndPurge \/ leafBlk' \in {leafBlk, None}
  BY DEF Next, BlockHandler, ConnectHeaders, KnownHeaders, StartReorg, RollbackBlock,
         WriteBranchHead, WriteBranchRest, Publish, MwebHandler, WaitHeadersSynced,
         ReadChainTip, GetRollbackHeight, KeepTip, PurgeCoins, StepToFork,
         RollbackLeavesAtHeight, AskMwebHeaders, EndPass, PutMwebHeaders, VerifyLeafset,
         PutLeavesAtHeight, DiffLeafsets, PutCoins, ClearRollbackHeight, Recheck,
         WaitHeaderTip, QueryTimesOut, SyncedChanges, QueryFails, Restart, vars, dbVars
<1> QED
  BY <1>1, <1>2, <1>3, <1>4

(* Within the reach of the mark the first height known to have a leaf is the *)
(* height that created it.                                                   *)
LEMMA RoughHeightExact ==
    ASSUME IInv, CInv, pc = "fetch", NEW i \in 1..Len(Outs[last]), i <= Reach(last)
    PROVE  RoughHeight(i) = MinedAt(last, i)
<1> USE DEF IInv, CInv
<1> DEFINE m == MinedAt(last, i)
<1>0. /\ last \in Blocks /\ mark \in Nat /\ tip \in Blocks
      /\ leavesAt \in [Heights -> Nat] /\ Heights \subseteq Nat \ {0}
      /\ Height(last) \in Nat /\ Meets(last)
  BY HeightType DEF TypeOK, Heights, LastMeets, Holding, Astray, Verified
<1>1. /\ m \in 1..Height(last) /\ Len(Outs[Path[last][m]]) >= i
      /\ \A k \in 1..Height(last) : Len(Outs[Path[last][k]]) >= i => m <= k
  BY <1>0, MinedFirst
<1>2. /\ Bound(last) \in 1..Height(last) /\ Bound(last) <= Height(tip)
      /\ Path[last][Bound(last)] = Path[tip][Bound(last)]
      /\ \A k \in 1..Bound(last) : mark = 0 \/ k <= mark
  BY <1>0, MeetsBound DEF Bound
<1> HIDE DEF m
<1>3. m \in 1..Bound(last)
  BY <1>1, <1>2 DEF Reach
<1>4. ASSUME NEW k \in 1..Bound(last)
      PROVE  k \in Heights /\ leavesAt[k] = Len(Outs[Path[last][k]])
  <2>1. k \in Heights
    BY <1>0, <1>2, <1>4 DEF Heights
  <2>2. leavesAt[k] # 0
    BY <1>4 DEF CountsFull
  <2>3. leavesAt[k] = Len(Outs[Path[tip][k]])
    BY <1>2, <1>4, <2>1, <2>2 DEF CountsTrue
  <2>4. Path[last][k] = Path[tip][k]
    BY <1>0, <1>2, <1>4, AgreeBelow
  <2> QED
    BY <2>1, <2>3, <2>4
<1>5. FirstWith(i, m)
  <2>1. m \in Heights /\ leavesAt[m] >= i
    BY <1>1, <1>3, <1>4
  <2>2. ASSUME NEW k \in Heights, leavesAt[k] >= i PROVE m <= k
    <3>1. CASE k <= Bound(last)
      BY <1>0, <1>1, <1>2, <1>4, <2>2, <3>1
    <3>2. CASE ~(k <= Bound(last))
      BY <1>0, <1>2, <1>3, <3>2
    <3> QED
      BY <3>1, <3>2
  <2> QED
    BY <2>1, <2>2 DEF FirstWith
<1>6. m \in Heights /\ \A h \in Heights : FirstWith(i, h) => h = m
  BY <1>0, <1>3, <1>4, <1>5 DEF FirstWith
<1> QED
  BY <1>5, <1>6 DEF RoughHeight, m

LEMMA FetchedHeightsStep == ASSUME Calm, IInv, CInv, [Next]_vars PROVE FetchedHeights'
<1> USE DEF IInv, CInv
<1>0. last \in Blocks /\ coins \in [Output -> Nat] /\ mark \in Nat
  BY DEF TypeOK
<1>1. CASE DiffLeafsets
  BY <1>1 DEF DiffLeafsets, FetchedHeights, dbVars
<1>2. ASSUME NEW j \in Leaves, PutCoins(j) PROVE FetchedHeights'
  <2>1. /\ pc = "fetch" /\ j \in todo /\ todo' = todo \ {j} /\ todo \subseteq Unspent[last]
        /\ UNCHANGED <<last, leafBlk, mark>>
        /\ coins' = [coins EXCEPT ![Outs[last][j]] = RoughHeight(j)]
    BY <1>2 DEF PutCoins, FetchShape
  <2>2. Reach(last)' = Reach(last) /\ LeafsetOf(leafBlk)' = LeafsetOf(leafBlk)
    BY <2>1 DEF Reach, Bound, LeafsetOf
  <2>3. ASSUME NEW i \in (Unspent[last] \ LeafsetOf(leafBlk)) \ todo',
               Outs[last][i] \in MinedOnce, i <= Reach(last)
        PROVE  coins'[Outs[last][i]] = MinedAt(last, i)
    <3>1. /\ i \in 1..Len(Outs[last]) /\ Outs[last][i] \in Output
          /\ j \in 1..Len(Outs[last]) /\ Outs[last][j] \in Output
      BY <1>0, <2>1, OutsType
    <3>2. CASE i = j
      BY <1>0, <2>1, <2>3, <3>1, <3>2, RoughHeightExact
    <3>3. CASE i # j
      <4>1. Outs[last][i] # Outs[last][j]
        BY <1>0, <2>3, <3>1, <3>3 DEF MinedOnce
      <4> QED
        BY <1>0, <2>1, <2>3, <3>1, <3>3, <4>1 DEF FetchedHeights
    <3> QED
      BY <3>2, <3>3
  <2> QED
    BY <2>1, <2>2, <2>3 DEF FetchedHeights
<1>3. CASE pc = "fetch" /\ pc' = "fetch" /\ UNCHANGED <<last, leafBlk, coins, todo>>
  <2>1. ~ClearRollbackHeight /\ ~PurgeCoins
    BY <1>3 DEF ClearRollbackHeight, PurgeCoins
  <2>2. Reach(last)' <= Reach(last) /\ Reach(last)' \in Nat /\ Reach(last) \in Nat
    BY <1>0, <1>3, <2>1, BoundShrinks DEF Reach, Bound
  <2>3. LeafsetOf(leafBlk)' = LeafsetOf(leafBlk)
    BY <1>3 DEF LeafsetOf
  <2>4. \A i \in Unspent[last] : i <= Reach(last)' => i <= Reach(last)
    BY <1>0, <2>2, OutsType
  <2> QED
    BY <1>3, <2>3, <2>4 DEF FetchedHeights
<1>4. CASE pc' # "fetch"
  BY <1>4 DEF FetchedHeights
<1> QED
  BY <1>1, <1>2, <1>3, <1>4
     DEF Next, BlockHandler, ConnectHeaders, KnownHeaders, StartReorg, RollbackBlock,
         WriteBranchHead, WriteBranchRest, Publish, Woken, MwebHandler, WaitHeadersSynced,
         ReadChainTip, GetRollbackHeight, KeepTip, PurgeCoins, StepToFork,
         RollbackLeavesAtHeight, AskMwebHeaders, EndPass, PutMwebHeaders, VerifyLeafset,
         PutLeavesAtHeight, PutLeafsetAndPurge, ClearRollbackHeight, Recheck,
         WaitHeaderTip, QueryTimesOut, SyncedChanges, QueryFails, Restart, vars, dbVars, locals, loop

LEMMA InductiveCounts == ASSUME Calm, CountsAll PROVE IInv /\ CInv /\ [Next]_vars => CInv'
<1> SUFFICES ASSUME IInv, CInv, [Next]_vars PROVE CInv'
  OBVIOUS
<1> QED
  BY HeadersMeetStep, CountsTrimmedStep, CountsTrueStep, AskedSoFarStep, CountsFullStep, StoredHeightsStep,
     FetchedHeightsStep DEF CInv

(* With every leaf count at hand, whatever reorgs, emptied stores, failed    *)
(* queries and restarts came before: once no rollback is pending, each coin  *)
(* of the leafset that is of an output mined once has the height of the      *)
(* block that created it.                                                    *)
THEOREM HeightsExact == ASSUME Calm, CountsAll PROVE Spec => []CoinHeightsExact
<1>1. IInv /\ CInv => CoinHeightsExact
  <2> SUFFICES ASSUME IInv, CInv, leafBlk # None, mark = 0, NEW i \in Unspent[leafBlk],
                      Backed(i), leafMap[i] \in MinedOnce
               PROVE  coins[leafMap[i]] = MinedAt(leafBlk, i)
    BY DEF CoinHeightsExact
  <2>1. leafBlk \in Blocks
    BY DEF IInv, TypeOK
  <2>2. i <= Reach(leafBlk)
    BY <2>1, OnTip, OutsType DEF Reach, Bound
  <2> QED
    BY <2>2 DEF CInv, StoredHeights
<1>2. IInv /\ CInv /\ [Next]_vars => CInv'
  BY InductiveCounts
<1> QED
  BY AlwaysIInv, InitCounts, <1>1, <1>2, PTL DEF Spec
=============================================================================
