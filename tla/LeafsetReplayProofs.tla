-------------------------- MODULE LeafsetReplayProofs --------------------------
(***************************************************************************)
(* Proofs that the replay never loses a block it waits for, that no two    *)
(* goroutines work on one cache file, that every snapshot is the leafset   *)
(* of its block, and where alone a leafset that does not fit makes the     *)
(* replay give up: for any tree, any set of fetchers, any heights asked    *)
(* for and listed, any number of bad answers and kills.                    *)
(*                                                                         *)
(* The parts: the steps and the places of the heights (IInv); what apply   *)
(* makes of a replayer, block by block (Holds); the leafset the replay     *)
(* stands at and the blocks still to come (FInv); the theorems.            *)
(***************************************************************************)
EXTENDS TLAPS, LeafsetReplay, BlockTreeProofs, FiniteSetTheorems

Busy(g) == gpc[g] \in {"reading", "asking", "writing", "sending"}
InResults(h) == \E i \in 1..Len(results) : results[i].height = h
InPending(h) == \E p \in pending : p.height = h

(* A height that is handed out is waited for, and handed out once.         *)
JobsAhead ==
    /\ todo \subseteq ahead
    /\ \A f \in Fetchers : Busy(f) => gjob[f] \in ahead \ todo
    /\ \A i \in 1..Len(results) : results[i].height \in ahead \ todo
    /\ \A p \in pending : p.height \in ahead \ todo

OnePlace ==
    /\ \A f, k \in Fetchers : f # k /\ Busy(f) /\ Busy(k) => gjob[f] # gjob[k]
    /\ \A f \in Fetchers : Busy(f) => ~InResults(gjob[f]) /\ ~InPending(gjob[f])
    /\ \A i, j \in 1..Len(results) : i # j => results[i].height # results[j].height
    /\ \A i \in 1..Len(results) : ~InPending(results[i].height)
    /\ \A p, q \in pending : p.height = q.height => p = q

(* A fetcher leaves only when there is nothing left to hand out.           *)
Exits ==
    /\ \A f \in Fetchers : gpc[f] = "exited" => todo = {}
    /\ phase = "running" => ahead # {} \/ event # 0

(* The recovery of a gap is below everything still waited for.             *)
GapBelow ==
    /\ Busy(Main) => event # 0 /\ gjob[Main] < event
    /\ event # 0 => held \in Blocks /\ \A h \in ahead : event < h

InHand ==
    \A g \in Goroutines : /\ gpc[g] = "writing" => gres[g] \in Blocks
                          /\ gpc[g] = "sending" => gres[g] \in Blocks \cup {Failed}

Recorded == (\E S : snapshots \in Seq(S)) /\ SnapshotsTrue

IInv == /\ ReplayTypeOK /\ JobsAhead /\ OnePlace /\ NothingLost /\ Exits
        /\ GapBelow /\ InHand /\ Recorded
-------------------------------------------------------------------------------
LEMMA HeightsType ==
    /\ ReplayHeights \subseteq Nat
    /\ Heights \subseteq ReplayHeights /\ 0 \in ReplayHeights
    /\ \A h \in ReplayHeights, k \in Nat : k <= h => k \in ReplayHeights
<1>1. \A h \in Heights : h \in Nat /\ \A k \in 1..h : k \in Heights
  BY HeightType DEF Heights
<1> QED
  BY <1>1 DEF ReplayHeights

LEMMA LowestType ==
    ASSUME NEW S \in SUBSET Nat, S # {}
    PROVE  Lowest(S) \in S /\ \A k \in S : Lowest(S) <= k
<1> DEFINE T == {0..k : k \in S}
<1>1. T \subseteq FiniteSubsetsOf(Nat) /\ T # {}
  <2>1. \A k \in S : 0..k \in SUBSET Nat /\ IsFiniteSet(0..k)
    BY FS_Interval
  <2> QED
    BY <2>1 DEF FiniteSubsetsOf
<1>2. PICK i \in T : \A y \in T : <<y, i>> \notin StrictSubsetOrdering(Nat)
  BY <1>1, FS_StrictSubsetOrderingWellFounded, WFMin
<1>3. PICK m \in S : i = 0..m
  BY <1>2
<1>4. ASSUME NEW k \in S, k < m PROVE FALSE
  <2>1. 0..k \subseteq 0..m /\ 0..k # 0..m
    <3>1. m \in 0..m /\ m \notin 0..k
      BY <1>4
    <3> QED
      BY <3>1, <1>4
  <2>2. 0..k \in SUBSET Nat /\ 0..m \in SUBSET Nat
    OBVIOUS
  <2>3. <<0..k, 0..m>> \in StrictSubsetOrdering(Nat)
    BY <2>1, <2>2 DEF StrictSubsetOrdering
  <2> QED
    BY <2>3, <1>2, <1>3, <1>4
<1>5. \A k \in S : m <= k
  BY <1>4
<1> QED
  BY <1>5 DEF Lowest

LEMMA AheadType == ASSUME ReplayTypeOK PROVE ahead \in SUBSET Nat /\ todo \in SUBSET Nat
BY HeightsType DEF ReplayTypeOK, EventHeights
-------------------------------------------------------------------------------
(* The types. *)

LEMMA InitInv == ReplayInit => IInv
<1> SUFFICES ASSUME ReplayInit PROVE IInv
  OBVIOUS
<1>1. ReplayTypeOK
  BY HeightsType, ReplayAssumption DEF ReplayInit, ReplayTypeOK, EventHeights, ClientPCs
<1>2. JobsAhead /\ OnePlace /\ NothingLost /\ Exits /\ GapBelow /\ InHand
  BY DEF ReplayInit, JobsAhead, OnePlace, NothingLost, Exits, GapBelow, InHand, Busy, Goroutines
<1>3. Recorded
  <2>1. snapshots \in Seq({})
    BY DEF ReplayInit
  <2> QED
    BY <2>1 DEF ReplayInit, Recorded, SnapshotsTrue
<1> QED
  BY <1>1, <1>2, <1>3 DEF IInv

LEMMA OnSourceType ==
    ASSUME ReplayTypeOK, NEW h, OnSource(h)
    PROVE  Path[sourceTip][h] \in Blocks
BY AtType DEF ReplayTypeOK, OnSource

(* What a step of client.block may change, in the types it has.            *)
ClientEffect(g) ==
    /\ faults' \in Nat
    /\ cache' \in [ReplayHeights -> Blocks \cup {None, Torn}]
    /\ gpc[g] \in {"reading", "asking", "writing"}
    /\ gtries' \in [Goroutines -> 1..Attempts]
    /\ UNCHANGED <<sourceTip, kills, argVars, channelVars, replayVars, gjob>>
    /\ \E pc \in {"asking", "writing", "sending"}, res \in Blocks \cup {None, Failed} :
         /\ gpc' = [gpc EXCEPT ![g] = pc]
         /\ gres' = [gres EXCEPT ![g] = res]
         /\ pc = "writing" => res \in Blocks
         /\ pc = "sending" => res \in Blocks \cup {Failed}

LEMMA ClientStep ==
    ASSUME ReplayTypeOK, InHand, NEW g \in Goroutines, ClientNext(g)
    PROVE  ClientEffect(g)
<1>1. /\ gpc \in [Goroutines -> ClientPCs] /\ gres \in [Goroutines -> Blocks \cup {None, Failed}]
      /\ gtries \in [Goroutines -> 1..Attempts] /\ gjob[g] \in ReplayHeights
      /\ cache \in [ReplayHeights -> Blocks \cup {None, Torn}] /\ faults \in Nat
      /\ gpc[g] = "writing" => gres[g] \in Blocks
  BY DEF ReplayTypeOK, InHand
<1>2. /\ gres[g] \in Blocks \cup {None, Failed}
      /\ gres = [gres EXCEPT ![g] = gres[g]]
      /\ gpc = [gpc EXCEPT ![g] = gpc[g]]
      /\ [gtries EXCEPT ![g] = 1] \in [Goroutines -> 1..Attempts]
      /\ gtries[g] \in 1..Attempts /\ 1 \in 1..Attempts
  BY <1>1, ReplayAssumption
<1> USE DEF ClientEffect, sourceVars
<1>3. CASE ReadCache(g)
  BY <1>1, <1>2, <1>3 DEF ReadCache, Finish
<1>4. CASE Answered(g)
  BY <1>1, <1>2, <1>4, OnSourceType DEF Answered, Received
<1>5. CASE Misserved(g)
  <2>1. PICK h \in Heights \ {gjob[g]} : OnSource(h) /\ Received(g, Path[sourceTip][h])
    BY <1>5 DEF Misserved
  <2>2. PICK b \in Blocks : Received(g, b)
    BY <2>1, OnSourceType
  <2>3. /\ gpc[g] = "asking" /\ faults' = faults + 1
        /\ UNCHANGED <<sourceTip, kills, argVars, channelVars, replayVars>>
    BY <1>5 DEF Misserved
  <2>4. faults' \in Nat
    BY <1>1, <2>3
  <2>5. /\ cache' \in [ReplayHeights -> Blocks \cup {None, Torn}]
        /\ gtries' \in [Goroutines -> 1..Attempts] /\ gjob' = gjob
        /\ gpc' = [gpc EXCEPT ![g] = "writing"] /\ gres' = [gres EXCEPT ![g] = b]
    BY <1>1, <1>2, <2>2 DEF Received
  <2> QED
    BY <2>3, <2>4, <2>5
<1>6. CASE Absent(g)
  BY <1>1, <1>2, <1>6 DEF Absent, Finish
<1>7. CASE Unanswered(g)
  <2>1. CASE gtries[g] < Attempts /\ gtries' = [gtries EXCEPT ![g] = @ + 1]
                                  /\ UNCHANGED <<gpc, gjob, gres, faults>>
    <3>1. gtries' \in [Goroutines -> 1..Attempts]
      BY <1>1, <1>2, <2>1, ReplayAssumption
    <3>2. /\ gpc[g] = "asking" /\ faults' = faults /\ gpc' = gpc /\ gres' = gres
          /\ UNCHANGED <<sourceTip, kills, cache, argVars, channelVars, replayVars, gjob>>
      BY <1>7, <2>1 DEF Unanswered
    <3>3. gpc' = [gpc EXCEPT ![g] = "asking"] /\ gres' = [gres EXCEPT ![g] = gres[g]]
      BY <1>2, <3>2
    <3>4. gres[g] \in Blocks \cup {None, Failed}
      BY <1>2
    <3>5. faults' \in Nat /\ cache' \in [ReplayHeights -> Blocks \cup {None, Torn}]
      BY <1>1, <3>2
    <3>6. \E pc \in {"asking", "writing", "sending"}, res \in Blocks \cup {None, Failed} :
             /\ gpc' = [gpc EXCEPT ![g] = pc] /\ gres' = [gres EXCEPT ![g] = res]
             /\ pc = "writing" => res \in Blocks
             /\ pc = "sending" => res \in Blocks \cup {Failed}
      BY <3>3, <3>4
    <3> QED
      BY <3>1, <3>2, <3>5, <3>6
  <2>2. CASE faults' = faults + 1 /\ Finish(g, Failed)
    <3>1. /\ gpc[g] = "asking"
          /\ UNCHANGED <<sourceTip, kills, cache, argVars, channelVars, replayVars>>
      BY <1>7 DEF Unanswered
    <3>2. faults' \in Nat
      BY <1>1, <2>2
    <3> QED
      BY <1>1, <1>2, <2>2, <3>1, <3>2 DEF Finish
  <2> QED
    BY <1>7, <2>1, <2>2 DEF Unanswered
<1>8. CASE WriteCache(g)
  BY <1>1, <1>2, <1>8 DEF WriteCache, Finish
<1> QED
  BY <1>3, <1>4, <1>5, <1>6, <1>7, <1>8 DEF ClientNext

LEMMA ClientTypes ==
    ASSUME ReplayTypeOK, InHand, NEW g \in Goroutines, ClientEffect(g)
    PROVE  ReplayTypeOK' /\ InHand'
<1>1. gpc' \in [Goroutines -> ClientPCs] /\ gres' \in [Goroutines -> Blocks \cup {None, Failed}]
  BY DEF ReplayTypeOK, ClientEffect, ClientPCs
<1>2. InHand'
  BY DEF ReplayTypeOK, ClientEffect, InHand
<1> QED
  BY <1>1, <1>2 DEF ReplayTypeOK, ClientEffect, argVars, channelVars, replayVars, Result, EventHeights
-------------------------------------------------------------------------------
(* The rest of the invariant, for the steps that move no height.           *)

Placed == JobsAhead /\ OnePlace /\ NothingLost /\ Exits /\ GapBelow

LEMMA Unmoved ==
    ASSUME Placed, UNCHANGED <<todo, results, pending, ahead, event, held, phase, err, gjob>>,
           \A g \in Goroutines : Busy(g)' <=> Busy(g),
           \A f \in Fetchers : gpc'[f] = "exited" => gpc[f] = "exited"
    PROVE  Placed'
<1>1. \A f \in Fetchers : f \in Goroutines
  BY DEF Goroutines
<1>2. \A h : InResults(h)' <=> InResults(h)
  BY DEF InResults
<1>3. \A h : InPending(h)' <=> InPending(h)
  BY DEF InPending
<1>4. JobsAhead'
  BY <1>1 DEF Placed, JobsAhead
<1>5. OnePlace'
  BY <1>1, <1>2, <1>3 DEF Placed, OnePlace
<1>6. NothingLost'
  BY <1>1 DEF Placed, NothingLost, Fetching, Busy
<1>7. Exits'
  BY DEF Placed, Exits
<1>8. GapBelow'
  BY DEF Placed, GapBelow, Goroutines
<1> QED
  BY <1>4, <1>5, <1>6, <1>7, <1>8 DEF Placed

LEMMA KeepsSnapshots == ASSUME Recorded, snapshots' = snapshots PROVE Recorded'
BY DEF Recorded, SnapshotsTrue

LEMMA ClientPlaced ==
    ASSUME IInv, NEW g \in Goroutines, ClientEffect(g)
    PROVE  Placed' /\ Recorded'
<1>1. /\ UNCHANGED <<todo, results, pending, ahead, event, held, phase, err, gjob, snapshots>>
  BY DEF ClientEffect, channelVars, replayVars
<1>2. gpc \in [Goroutines -> ClientPCs]
  BY DEF IInv, ReplayTypeOK
<1>3. PICK pc \in {"asking", "writing", "sending"} : gpc' = [gpc EXCEPT ![g] = pc]
  BY DEF ClientEffect
<1>4. Busy(g) /\ Busy(g)'
  BY <1>2, <1>3 DEF ClientEffect, Busy
<1>5. \A k \in Goroutines : k # g => gpc'[k] = gpc[k]
  BY <1>2, <1>3
<1>6. \A k \in Goroutines : Busy(k)' <=> Busy(k)
  BY <1>4, <1>5 DEF Busy
<1>7. \A f \in Fetchers : gpc'[f] = "exited" => gpc[f] = "exited"
  BY <1>4, <1>5 DEF Busy, Goroutines
<1> QED
  BY <1>1, <1>6, <1>7, Unmoved, KeepsSnapshots DEF IInv, Placed
-------------------------------------------------------------------------------
(* The fetchers. *)

LEMMA TakeJobStep ==
    ASSUME IInv, NEW f \in Fetchers, TakeJob(f)
    PROVE  ReplayTypeOK' /\ InHand' /\ Placed' /\ Recorded'
<1>0. PICK h \in todo : h = Lowest(todo)
  BY AheadType, LowestType DEF TakeJob, TakeJobLeaving, IInv
<1>1. h \in todo /\ f \in Goroutines /\ f # Main
  BY ReplayAssumption DEF Goroutines
<1>2. /\ gpc \in [Goroutines -> ClientPCs] /\ gjob \in [Goroutines -> ReplayHeights]
      /\ todo \subseteq ahead /\ ahead \subseteq EventHeights /\ EventHeights \subseteq ReplayHeights
      /\ gpc[f] = "idle"
  BY HeightsType DEF IInv, ReplayTypeOK, TakeJob, TakeJobLeaving, JobsAhead, EventHeights
<1>3. /\ gjob' = [gjob EXCEPT ![f] = h] /\ gpc' = [gpc EXCEPT ![f] = "reading"]
      /\ todo' = todo \ {h}
      /\ UNCHANGED <<sourceTip, faults, kills, cache, argVars, results, pending,
                     replayVars, gtries, gres>>
  BY <1>0 DEF TakeJob, TakeJobLeaving, sourceVars
<1>4. ReplayTypeOK'
  BY <1>1, <1>2, <1>3 DEF IInv, ReplayTypeOK, argVars, replayVars, Result, EventHeights, ClientPCs
<1>5. /\ gjob'[f] = h /\ Busy(f)' /\ ~Busy(f)
      /\ \A k \in Goroutines \ {f} : gjob'[k] = gjob[k] /\ gpc'[k] = gpc[k]
  BY <1>1, <1>2, <1>3 DEF Busy
<1>6. UNCHANGED <<results, pending, ahead, event, held, phase, err, snapshots>>
  BY <1>3 DEF replayVars
<1>7. \A k \in Fetchers : k # f => (Busy(k)' <=> Busy(k)) /\ gjob'[k] = gjob[k] /\ gpc'[k] = gpc[k]
  BY <1>5 DEF Busy, Goroutines
<1>8. JobsAhead'
  BY <1>1, <1>2, <1>3, <1>5, <1>6, <1>7 DEF IInv, JobsAhead
<1>9. OnePlace'
  <2>1. \A x : (InResults(x)' <=> InResults(x)) /\ (InPending(x)' <=> InPending(x))
    BY <1>6 DEF InResults, InPending
  <2>2. ~InResults(h) /\ ~InPending(h) /\ \A k \in Fetchers : Busy(k) => gjob[k] # h
    BY <1>1 DEF IInv, JobsAhead, InResults, InPending
  <2> QED
    BY <2>1, <2>2, <1>5, <1>6, <1>7 DEF IInv, OnePlace
<1>10. NothingLost'
  <2>1. Fetching(f, h)'
    BY <1>5 DEF Fetching, Busy
  <2>2. \A k \in Fetchers : \A x : Fetching(k, x) => Fetching(k, x)'
    BY <1>5, <1>7 DEF Fetching, Busy
  <2>3. todo' = todo \ {h}
    BY <1>3
  <2> QED
    BY <2>1, <2>2, <2>3, <1>6 DEF IInv, NothingLost
<1>11. Exits' /\ GapBelow' /\ InHand'
  <2>1. Exits'
    BY <1>1, <1>3, <1>5, <1>6, <1>7 DEF IInv, Exits, Busy
  <2>2. GapBelow'
    <3>1. (Busy(Main)' <=> Busy(Main)) /\ gjob'[Main] = gjob[Main]
      BY <1>1, <1>5 DEF Busy, Goroutines
    <3> QED
      BY <3>1, <1>6 DEF IInv, GapBelow
  <2>3. InHand'
    BY <1>3, <1>2, <1>1 DEF IInv, InHand
  <2> QED
    BY <2>1, <2>2, <2>3
<1> QED
  BY <1>4, <1>6, <1>8, <1>9, <1>10, <1>11, KeepsSnapshots DEF Placed, IInv

(* What comes of one more result in the channel.                           *)
LEMMA OneMore ==
    ASSUME NEW T, NEW r \in Seq(T), NEW e \in T
    PROVE  /\ Append(r, e) \in Seq(T)
           /\ Len(Append(r, e)) = Len(r) + 1 /\ Len(r) \in Nat
           /\ \A i \in 1..Len(r) : Append(r, e)[i] = r[i]
           /\ Append(r, e)[Len(r) + 1] = e
OBVIOUS

LEMMA SendStep ==
    ASSUME IInv, NEW f \in Fetchers, Send(f)
    PROVE  ReplayTypeOK' /\ InHand' /\ Placed' /\ Recorded'
<1>1. f \in Goroutines /\ f # Main
  BY ReplayAssumption DEF Goroutines
<1>2. /\ gpc \in [Goroutines -> ClientPCs] /\ gjob \in [Goroutines -> ReplayHeights]
      /\ gres \in [Goroutines -> Blocks \cup {None, Failed}]
      /\ results \in Seq(Result)
      /\ gpc[f] = "sending" /\ gres[f] \in Blocks \cup {Failed}
  BY <1>1 DEF IInv, ReplayTypeOK, InHand, Send, SendOf
<1>3. PICK h \in ReplayHeights, b \in Blocks \cup {Failed} : h = gjob[f] /\ b = gres[f]
  BY <1>1, <1>2
<1>4. PICK e \in Result : e = [height |-> h, block |-> b]
  BY DEF Result
<1>5. /\ results' = Append(results, e) /\ e.height = h
      /\ gpc' = [gpc EXCEPT ![f] = "idle"] /\ gjob' = [gjob EXCEPT ![f] = 0]
      /\ gres' = [gres EXCEPT ![f] = None]
      /\ UNCHANGED <<sourceTip, faults, kills, cache, argVars, todo, pending, replayVars, gtries>>
  BY <1>2, <1>3, <1>4 DEF Send, SendOf, sourceVars
<1>6. /\ results' \in Seq(Result) /\ Len(results') = Len(results) + 1 /\ Len(results) \in Nat
      /\ \A i \in 1..Len(results) : results'[i] = results[i]
      /\ results'[Len(results) + 1] = e
  BY <1>2, <1>5, OneMore
<1>7. ReplayTypeOK'
  BY <1>1, <1>2, <1>5, <1>6, HeightsType DEF IInv, ReplayTypeOK, argVars, replayVars, Result, EventHeights, ClientPCs
<1>8. /\ ~Busy(f)' /\ Busy(f) /\ h = gjob[f]
      /\ \A k \in Goroutines \ {f} : gjob'[k] = gjob[k] /\ gpc'[k] = gpc[k]
  BY <1>1, <1>2, <1>3, <1>5 DEF Busy
<1>9. UNCHANGED <<todo, pending, ahead, event, held, phase, err, snapshots>>
  BY <1>5 DEF replayVars
<1>10. \A k \in Fetchers : k # f => (Busy(k)' <=> Busy(k)) /\ gjob'[k] = gjob[k] /\ gpc'[k] = gpc[k]
  BY <1>8 DEF Busy, Goroutines
<1>11. h \in ahead \ todo /\ ~InResults(h) /\ ~InPending(h)
       /\ \A k \in Fetchers \ {f} : Busy(k) => gjob[k] # h
  BY <1>8 DEF IInv, JobsAhead, OnePlace
<1>12. /\ \A x : InResults(x)' <=> InResults(x) \/ x = h
       /\ \A x : InPending(x)' <=> InPending(x)
  BY <1>5, <1>6, <1>9 DEF InResults, InPending
<1>13. JobsAhead'
  <2>1. \A i \in 1..Len(results') : results'[i].height \in ahead \ todo
    BY <1>5, <1>6, <1>11 DEF IInv, JobsAhead
  <2> QED
    BY <2>1, <1>8, <1>9, <1>10 DEF IInv, JobsAhead
<1>14. OnePlace'
  <2>1. \A k \in Fetchers : Busy(k)' =>
            /\ \A i \in 1..Len(results') : results'[i].height # gjob'[k]
            /\ \A p \in pending' : p.height # gjob'[k]
    BY <1>5, <1>6, <1>8, <1>9, <1>10, <1>11 DEF IInv, OnePlace, InResults, InPending
  <2>2. \A i, j \in 1..Len(results') : i # j => results'[i].height # results'[j].height
    BY <1>5, <1>6, <1>11 DEF IInv, OnePlace, InResults
  <2>3. \A i \in 1..Len(results') : \A p \in pending' : p.height # results'[i].height
    BY <1>5, <1>6, <1>9, <1>11 DEF IInv, OnePlace, InPending
  <2> QED
    BY <2>1, <2>2, <2>3, <1>8, <1>9, <1>10 DEF IInv, OnePlace, InResults, InPending
<1>15. NothingLost'
  <2>1. \A k \in Fetchers : \A x : Fetching(k, x) => Fetching(k, x)' \/ x = h
    BY <1>8, <1>10 DEF Fetching, Busy
  <2> QED
    BY <2>1, <1>9, <1>12 DEF IInv, NothingLost, InResults
<1>16. Exits' /\ GapBelow' /\ InHand'
  <2>1. Exits'
    BY <1>1, <1>2, <1>5, <1>9, <1>10 DEF IInv, Exits
  <2>2. GapBelow'
    <3>1. (Busy(Main)' <=> Busy(Main)) /\ gjob'[Main] = gjob[Main]
      BY <1>1, <1>8 DEF Busy, Goroutines
    <3> QED
      BY <3>1, <1>9 DEF IInv, GapBelow
  <2>3. InHand'
    BY <1>1, <1>2, <1>5 DEF IInv, InHand
  <2> QED
    BY <2>1, <2>2, <2>3
<1> QED
  BY <1>7, <1>9, <1>13, <1>14, <1>15, <1>16, KeepsSnapshots DEF Placed, IInv

LEMMA ExitStep ==
    ASSUME IInv, NEW f \in Fetchers, FetcherExit(f)
    PROVE  ReplayTypeOK' /\ InHand' /\ Placed' /\ Recorded'
<1>1. f \in Goroutines /\ f # Main
  BY ReplayAssumption DEF Goroutines
<1>2. gpc \in [Goroutines -> ClientPCs] /\ gpc[f] = "idle" /\ todo = {}
  BY DEF IInv, ReplayTypeOK, FetcherExit
<1>3. /\ gpc' = [gpc EXCEPT ![f] = "exited"]
      /\ UNCHANGED <<sourceTip, faults, kills, cache, argVars, channelVars, replayVars,
                     gjob, gtries, gres>>
  BY DEF FetcherExit, sourceVars
<1>4. UNCHANGED <<todo, results, pending, ahead, event, held, phase, err, gjob, snapshots>>
  BY <1>3 DEF channelVars, replayVars
<1>5. \A k \in Goroutines : Busy(k)' <=> Busy(k)
  BY <1>1, <1>2, <1>3 DEF Busy
<1>6. ReplayTypeOK' /\ InHand'
  BY <1>1, <1>2, <1>3 DEF IInv, InHand, ReplayTypeOK, argVars, channelVars, replayVars, Result,
                          EventHeights, ClientPCs
<1>7. JobsAhead' /\ OnePlace' /\ NothingLost' /\ GapBelow'
  <2>1. \A k \in Fetchers : k \in Goroutines
    BY DEF Goroutines
  <2>2. \A x : (InResults(x)' <=> InResults(x)) /\ (InPending(x)' <=> InPending(x))
    BY <1>4 DEF InResults, InPending
  <2>3. NothingLost'
    BY <1>4, <1>5, <2>1 DEF IInv, NothingLost, Fetching, Busy
  <2> QED
    BY <1>4, <1>5, <2>1, <2>2, <2>3 DEF IInv, JobsAhead, OnePlace, GapBelow, Goroutines
<1>8. Exits'
  BY <1>2, <1>4 DEF IInv, Exits
<1> QED
  BY <1>4, <1>6, <1>7, <1>8, KeepsSnapshots DEF Placed, IInv
-------------------------------------------------------------------------------
(* The replay.  What a step of it leaves true of its own state.            *)

MainEffect ==
    /\ phase' \in {"running", "done", "failed"} /\ err' \in {"none", "fetch", "gap", "mismatch"}
    /\ event' \in ReplayHeights /\ held' \in Blocks \cup {None}
    /\ lastApplied' \in Int /\ lastApplied' >= -1
    /\ gpc' \in [Goroutines -> ClientPCs] /\ gjob' \in [Goroutines -> ReplayHeights]
    /\ gres' \in [Goroutines -> Blocks \cup {None, Failed}] /\ gtries' = gtries
    /\ \A f \in Fetchers : gpc'[f] = gpc[f] /\ gjob'[f] = gjob[f]
    /\ phase' = "running" => ahead' # {} \/ event' # 0
    /\ GapBelow' /\ InHand' /\ Recorded'

(* The leafset that is kept is the block's own: the leaf root says so of   *)
(* its bits, and num_txos of its size.                                     *)
LEMMA KeepRecorded ==
    ASSUME Recorded, NEW b, NEW r, NEW h, VerifyBlockState(r, b), Keep(h, b, r)
    PROVE  Recorded'
<1>1. CASE snapshots' = snapshots
  BY <1>1, KeepsSnapshots
<1>2. ASSUME snapshots' = Append(snapshots, [height |-> h, block |-> b,
                                             bits |-> r.bits, size |-> r.size])
      PROVE  Recorded'
  <2>1. PICK S : snapshots \in Seq(S)
    BY DEF Recorded
  <2>2. PICK e : e = [height |-> h, block |-> b, bits |-> r.bits, size |-> r.size]
    OBVIOUS
  <2>3. PICK T : T = S \cup {e}
    OBVIOUS
  <2>4. snapshots \in Seq(T) /\ e \in T
    BY <2>1, <2>3
  <2>5. /\ snapshots' \in Seq(T) /\ Len(snapshots') = Len(snapshots) + 1 /\ Len(snapshots) \in Nat
        /\ \A i \in 1..Len(snapshots) : snapshots'[i] = snapshots[i]
        /\ snapshots'[Len(snapshots) + 1] = e
    BY <1>2, <2>2, <2>4, OneMore
  <2>6. e.bits = Unspent[e.block] /\ (e.block \in Sized => e.size = SizeOf(e.block))
    BY <2>2 DEF VerifyBlockState, LeafRoot
  <2>7. SnapshotsTrue'
    BY <2>5, <2>6 DEF Recorded, SnapshotsTrue
  <2> QED
    BY <2>5, <2>7 DEF Recorded
<1> QED
  BY <1>1, <1>2 DEF Keep

LEMMA MainType ==
    /\ Main \in Goroutines /\ Main \notin Fetchers /\ Fetchers \subseteq Goroutines
BY ReplayAssumption DEF Goroutines

LEMMA FailEffect ==
    ASSUME IInv, NEW why \in {"fetch", "gap", "mismatch"}, Fail(why), ahead' \subseteq ahead
    PROVE  MainEffect
<1>1. InHand' /\ Recorded'
  BY KeepsSnapshots DEF IInv, InHand, Fail, clientVars
<1>2. GapBelow'
  BY DEF IInv, GapBelow, Busy, Fail, clientVars
<1> QED
  BY <1>1, <1>2 DEF MainEffect, Fail, clientVars, IInv, ReplayTypeOK

(* With the goroutine of the caller at rest the leafset is kept.           *)
LEMMA KeepEffect ==
    ASSUME IInv, NEW b, NEW r, NEW h, VerifyBlockState(r, b), Keep(h, b, r),
           lastApplied' \in Int, lastApplied' >= -1, phase = "running",
           ~Busy(Main)',
           gpc' \in [Goroutines -> ClientPCs], gjob' \in [Goroutines -> ReplayHeights],
           gres' \in [Goroutines -> Blocks \cup {None, Failed}], gtries' = gtries,
           \A f \in Fetchers : gpc'[f] = gpc[f] /\ gjob'[f] = gjob[f] /\ gres'[f] = gres[f]
    PROVE  MainEffect
<1>1. Recorded'
  BY KeepRecorded DEF IInv
<1>2. event' = 0 /\ held' = None /\ err' = err /\ phase' \in {"running", "done"}
      /\ (phase' = "running" => ahead' # {})
  BY DEF Keep
<1>3. GapBelow'
  BY <1>2 DEF GapBelow
<1>4. InHand'
  BY MainType DEF IInv, InHand, Busy, Goroutines
<1>5. err' \in {"none", "fetch", "gap", "mismatch"}
  BY <1>2 DEF IInv, ReplayTypeOK, NothingLost
<1> QED
  BY <1>1, <1>2, <1>3, <1>4, <1>5, HeightsType DEF MainEffect

LEMMA FetchGapEffect ==
    ASSUME IInv, NEW h \in ReplayHeights, FetchGap(h), phase' = phase, phase = "running",
           event' \in ReplayHeights, held' \in Blocks, h < event',
           \A k \in ahead' : event' < k,
           UNCHANGED <<err, lastApplied, snapshots>>
    PROVE  MainEffect
<1>1. /\ gpc \in [Goroutines -> ClientPCs] /\ gjob \in [Goroutines -> ReplayHeights]
      /\ gres \in [Goroutines -> Blocks \cup {None, Failed}]
  BY DEF IInv, ReplayTypeOK
<1>2. /\ gpc' = [gpc EXCEPT ![Main] = "reading"] /\ gjob' = [gjob EXCEPT ![Main] = h]
      /\ gres' = [gres EXCEPT ![Main] = None] /\ gtries' = gtries
  BY DEF FetchGap
<1>3. /\ gpc' \in [Goroutines -> ClientPCs] /\ gjob' \in [Goroutines -> ReplayHeights]
      /\ gres' \in [Goroutines -> Blocks \cup {None, Failed}]
  BY <1>1, <1>2 DEF ClientPCs
<1>4. /\ \A f \in Fetchers : gpc'[f] = gpc[f] /\ gjob'[f] = gjob[f]
      /\ InHand'
  BY <1>1, <1>2, MainType DEF IInv, InHand, Goroutines
<1>5. event' # 0
  BY HeightsType
<1>6. GapBelow'
  BY <1>1, <1>2, <1>5, MainType DEF GapBelow
<1>7. Recorded' /\ err' \in {"none", "fetch", "gap", "mismatch"} /\ lastApplied' \in Int /\ lastApplied' >= -1
  BY KeepsSnapshots DEF IInv, ReplayTypeOK, NothingLost
<1> QED
  BY <1>3, <1>2, <1>4, <1>5, <1>6, <1>7 DEF MainEffect

LEMMA ProcessEffect ==
    ASSUME IInv, Waiting, NEW h \in ahead, \A k \in ahead : h <= k,
           NEW res \in Blocks \cup {Failed}, Process(h, res)
    PROVE  MainEffect /\ ahead' = ahead \ {h}
<1>1. /\ ahead' = ahead \ {h} /\ ahead \subseteq ReplayHeights /\ h \in ReplayHeights /\ h \in Nat
      /\ phase = "running" /\ event = 0 /\ ~Busy(Main)
      /\ lastApplied \in Int /\ lastApplied >= -1
  BY HeightsType DEF IInv, ReplayTypeOK, Process, Waiting, GapBelow, EventHeights
<1>2. \A k \in ahead' : h < k
  BY <1>1, HeightsType
<1>3. CASE Fail("fetch")
  BY <1>1, <1>3, FailEffect
<1>4. CASE Fail("mismatch")
  BY <1>1, <1>4, FailEffect
<1>5. ASSUME NEW b, NEW r, VerifyBlockState(r, b), Keep(h, b, r), UNCHANGED clientVars,
             lastApplied' \in {lastApplied, h}
      PROVE  MainEffect
  <2>1. ~Busy(Main)' /\ lastApplied' \in Int /\ lastApplied' >= -1
    BY <1>1, <1>5 DEF Busy, clientVars
  <2>2. /\ gpc' \in [Goroutines -> ClientPCs] /\ gjob' \in [Goroutines -> ReplayHeights]
        /\ gres' \in [Goroutines -> Blocks \cup {None, Failed}] /\ gtries' = gtries
        /\ \A f \in Fetchers : gpc'[f] = gpc[f] /\ gjob'[f] = gjob[f] /\ gres'[f] = gres[f]
    BY <1>5 DEF IInv, ReplayTypeOK, clientVars
  <2> QED
    BY <1>1, <1>5, <2>1, <2>2, KeepEffect
<1>6. ASSUME res \in Blocks, ApplyEvent(h, res) PROVE MainEffect
  <2>1. PICK r : r = Applied(replayer, h, res)
    OBVIOUS
  <2>2. CASE VerifyBlockState(r, res) /\ Keep(h, res, r) /\ lastApplied' = h /\ UNCHANGED clientVars
    BY <1>5, <2>2
  <2>3. CASE lastApplied + 1 <= h - 1 /\ RecoverGap(h, res)
    <3>1. PICK k \in Nat : k = lastApplied + 1 /\ k < h
      BY <1>1, <2>3
    <3>2. k \in ReplayHeights
      BY <1>1, <3>1, HeightsType
    <3>3. FetchGap(k) /\ event' = h /\ held' = res /\ UNCHANGED <<phase, err, lastApplied, snapshots>>
      BY <2>3, <3>1 DEF RecoverGap, RecoverFrom
    <3> QED
      BY <1>1, <1>2, <1>6, <3>1, <3>2, <3>3, FetchGapEffect
  <2> QED
    BY <1>4, <1>6, <2>1, <2>2, <2>3 DEF ApplyEvent
<1>7. ASSUME res \in Blocks, CheckEmpty(h, res) PROVE MainEffect
  <2>1. PICK r : r = replayer
    OBVIOUS
  <2>2. CASE VerifyBlockState(r, res) /\ Keep(h, res, r) /\ UNCHANGED <<lastApplied, clientVars>>
    BY <1>5, <2>2
  <2> QED
    BY <1>4, <1>7, <2>1, <2>2 DEF CheckEmpty
<1> QED
  BY <1>1, <1>3, <1>6, <1>7 DEF Process

LEMMA RecoverEffect ==
    ASSUME IInv, RecoverBlock
    PROVE  MainEffect /\ ahead' = ahead
<1>1. /\ phase = "running" /\ event # 0 /\ gpc[Main] = "sending" /\ ahead' = ahead
      /\ event \in ReplayHeights /\ held \in Blocks
      /\ gjob[Main] \in ReplayHeights /\ gjob[Main] < event
      /\ gres[Main] \in Blocks \cup {Failed}
      /\ \A k \in ahead' : event < k
  BY MainType DEF IInv, ReplayTypeOK, RecoverBlock, GapBelow, InHand, Busy
<1>2. PICK h \in ReplayHeights, b \in Blocks \cup {Failed} : h = gjob[Main] /\ b = gres[Main]
  BY <1>1
<1>3. PICK r : r = IF HasLeafsetEvents(b) THEN Applied(replayer, h, b) ELSE replayer
  OBVIOUS
<1>4. PICK last, e, c : last = Applied(r, event, held) /\ e = event /\ c = held
  OBVIOUS
<1>5. \/ Fail("gap")
      \/ Fail("mismatch")
      \/ /\ h < e - 1 /\ FetchGap(h + 1)
         /\ UNCHANGED <<phase, err, event, held, lastApplied, snapshots>>
      \/ /\ VerifyBlockState(last, c) /\ Keep(e, c, last) /\ lastApplied' = e
         /\ gpc' = [gpc EXCEPT ![Main] = "idle"] /\ gjob' = [gjob EXCEPT ![Main] = 0]
         /\ gres' = [gres EXCEPT ![Main] = None] /\ UNCHANGED gtries
  BY <1>2, <1>3, <1>4 DEF RecoverBlock
<1>6. CASE Fail("gap") \/ Fail("mismatch")
  BY <1>1, <1>6, FailEffect
<1>7. CASE /\ h < e - 1 /\ FetchGap(h + 1)
           /\ UNCHANGED <<phase, err, event, held, lastApplied, snapshots>>
  <2>1. PICK k \in ReplayHeights : k = h + 1 /\ k < event
    BY <1>1, <1>2, <1>4, <1>7, HeightsType
  <2> QED
    BY <1>1, <1>7, <2>1, FetchGapEffect
<1>8. CASE /\ VerifyBlockState(last, c) /\ Keep(e, c, last) /\ lastApplied' = e
           /\ gpc' = [gpc EXCEPT ![Main] = "idle"] /\ gjob' = [gjob EXCEPT ![Main] = 0]
           /\ gres' = [gres EXCEPT ![Main] = None] /\ UNCHANGED gtries
  <2>1. /\ gpc \in [Goroutines -> ClientPCs] /\ gjob \in [Goroutines -> ReplayHeights]
        /\ gres \in [Goroutines -> Blocks \cup {None, Failed}]
    BY DEF IInv, ReplayTypeOK
  <2>2. /\ gpc' \in [Goroutines -> ClientPCs] /\ gjob' \in [Goroutines -> ReplayHeights]
        /\ gres' \in [Goroutines -> Blocks \cup {None, Failed}] /\ gtries' = gtries
        /\ \A f \in Fetchers : gpc'[f] = gpc[f] /\ gjob'[f] = gjob[f] /\ gres'[f] = gres[f]
        /\ ~Busy(Main)'
    BY <1>8, <2>1, HeightsType, MainType DEF Busy, ClientPCs
  <2>3. lastApplied' \in Int /\ lastApplied' >= -1
    BY <1>1, <1>4, <1>8, HeightsType
  <2> QED
    BY <1>1, <1>8, <2>2, <2>3, KeepEffect
<1> QED
  BY <1>1, <1>5, <1>6, <1>7, <1>8

LEMMA MainTypes ==
    ASSUME IInv, MainEffect, UNCHANGED <<sourceVars, kills, cache, argVars, todo>>,
           ahead' \subseteq ahead, results' \in Seq(Result), pending' \subseteq Result
    PROVE  ReplayTypeOK'
BY DEF IInv, MainEffect, ReplayTypeOK, sourceVars, argVars, Result, EventHeights

(* A height has been dealt with: it was in one place, and is in none now.  *)
LEMMA HeightDone ==
    ASSUME IInv, phase = "running", MainEffect, NEW h,
           ahead' = ahead \ {h}, todo' = todo, h \notin todo,
           \A f \in Fetchers : Busy(f) => gjob[f] # h,
           NEW d \in {0, 1}, Len(results') = Len(results) - d, Len(results) \in Nat,
           \A i \in 1..Len(results') : results'[i] = results[i + d] /\ results'[i].height # h,
           pending' \subseteq pending, \A p \in pending' : p.height # h,
           \A x \in ahead' : InResults(x) => InResults(x)',
           \A x \in ahead' : InPending(x) => InPending(x)'
    PROVE  Placed'
<1>1. \A f \in Fetchers : (Busy(f)' <=> Busy(f)) /\ gjob'[f] = gjob[f] /\ gpc'[f] = gpc[f]
  BY DEF MainEffect, Busy
<1>2. \A i \in 1..Len(results') : i + d \in 1..Len(results)
  OBVIOUS
<1>3. JobsAhead'
  BY <1>1, <1>2 DEF IInv, JobsAhead
<1>4. OnePlace'
  <2>1. \A f \in Fetchers : Busy(f)' =>
            /\ \A i \in 1..Len(results') : results'[i].height # gjob'[f]
            /\ \A p \in pending' : p.height # gjob'[f]
    BY <1>1, <1>2 DEF IInv, OnePlace, InResults, InPending
  <2>2. \A i, j \in 1..Len(results') : i # j => results'[i].height # results'[j].height
    BY <1>2 DEF IInv, OnePlace
  <2>3. \A i \in 1..Len(results') : \A p \in pending' : p.height # results'[i].height
    BY <1>2 DEF IInv, OnePlace, InPending
  <2> QED
    BY <2>1, <2>2, <2>3, <1>1 DEF IInv, OnePlace, InResults, InPending
<1>5. NothingLost'
  <2>1. \A f \in Fetchers : \A x : Fetching(f, x) => Fetching(f, x)'
    BY <1>1 DEF Fetching, Busy
  <2>2. err' # "missing" /\ ahead' \subseteq ahead
    BY DEF MainEffect
  <2> QED
    BY <2>1, <2>2 DEF IInv, NothingLost, InResults, InPending
<1>6. Exits' /\ GapBelow'
  BY <1>1 DEF IInv, Exits, MainEffect
<1> QED
  BY <1>3, <1>4, <1>5, <1>6 DEF Placed

LEMMA WaitingLowest ==
    ASSUME IInv, Waiting
    PROVE  Lowest(ahead) \in ahead /\ \A k \in ahead : Lowest(ahead) <= k
BY AheadType, LowestType DEF IInv, Exits, Waiting

LEMMA TakePendingStep ==
    ASSUME IInv, TakePending
    PROVE  ReplayTypeOK' /\ InHand' /\ Placed' /\ Recorded'
<1>1. PICK p \in Early : Process(p.height, p.block) /\ pending' = pending \ {p}
  BY DEF TakePending
<1>2. PICK h \in ahead : h = p.height /\ \A k \in ahead : h <= k
  BY <1>1, WaitingLowest DEF Early, TakePending
<1>3. PICK b \in Blocks \cup {Failed} : b = p.block
  BY <1>1 DEF Early, IInv, ReplayTypeOK, Result
<1>4. Waiting /\ UNCHANGED <<sourceVars, kills, cache, argVars, todo, results>>
  BY DEF TakePending
<1>5. MainEffect /\ ahead' = ahead \ {h}
  BY <1>1, <1>2, <1>3, <1>4, ProcessEffect
<1>6. p \in pending /\ results \in Seq(Result) /\ pending \subseteq Result
  BY <1>1 DEF Early, IInv, ReplayTypeOK
<1>7. ReplayTypeOK'
  BY <1>1, <1>4, <1>5, <1>6, MainTypes
<1>8. Placed'
  <2>1. InPending(h)
    BY <1>2, <1>6 DEF InPending
  <2>2. h \notin todo /\ \A f \in Fetchers : Busy(f) => gjob[f] # h
    BY <2>1, <1>2, <1>6 DEF IInv, JobsAhead, OnePlace
  <2>3. \A i \in 1..Len(results) : results[i].height # h
    BY <2>1 DEF IInv, OnePlace
  <2>4. pending' \subseteq pending /\ \A q \in pending' : q.height # h
    BY <1>1, <1>2, <1>6 DEF IInv, OnePlace
  <2>5. Len(results) \in Nat /\ 0 \in {0, 1} /\ Len(results') = Len(results) - 0
        /\ \A i \in 1..Len(results') : results'[i] = results[i + 0] /\ results'[i].height # h
    BY <1>4, <1>6, <2>3
  <2>6. /\ \A x \in ahead' : InResults(x) => InResults(x)'
        /\ \A x \in ahead' : InPending(x) => InPending(x)'
    BY <1>1, <1>2, <1>4, <1>5 DEF InResults, InPending
  <2>7. todo' = todo /\ phase = "running"
    BY <1>4 DEF Waiting
  <2> QED
    BY <1>5, <2>2, <2>4, <2>5, <2>6, <2>7, HeightDone
<1> QED
  BY <1>5, <1>7, <1>8 DEF MainEffect

LEMMA OneLess ==
    ASSUME NEW r \in Seq(Result), r # <<>>
    PROVE  /\ Head(r) \in Result /\ Head(r) = r[1] /\ Tail(r) \in Seq(Result)
           /\ Len(r) \in Nat /\ Len(Tail(r)) = Len(r) - 1 /\ Len(r) >= 1
           /\ \A i \in 1..Len(Tail(r)) : Tail(r)[i] = r[i + 1]
OBVIOUS

LEMMA TakeResultStep ==
    ASSUME IInv, TakeResult
    PROVE  ReplayTypeOK' /\ InHand' /\ Placed' /\ Recorded'
<1>1. /\ Waiting /\ results # <<>> /\ results' = Tail(results)
      /\ UNCHANGED <<sourceVars, kills, cache, argVars, todo>>
      /\ results \in Seq(Result) /\ pending \subseteq Result
  BY DEF TakeResult, IInv, ReplayTypeOK
<1>2. PICK p \in Result : p = Head(results)
  BY <1>1, OneLess
<1>3. /\ p = results[1] /\ 1 \in 1..Len(results) /\ results' \in Seq(Result)
      /\ Len(results) \in Nat /\ Len(results') = Len(results) - 1
      /\ \A i \in 1..Len(results') : results'[i] = results[i + 1]
  BY <1>1, <1>2, OneLess
<1>4. PICK h \in ReplayHeights, b \in Blocks \cup {Failed} : h = p.height /\ b = p.block
  BY DEF Result
<1>5. /\ h \in ahead \ todo /\ ~InPending(h)
      /\ \A i \in 1..Len(results') : results'[i].height # h
      /\ \A f \in Fetchers : Busy(f) => gjob[f] # h
  <2>1. InResults(h)
    BY <1>3, <1>4 DEF InResults
  <2>2. \A i \in 1..Len(results') : i + 1 \in 1..Len(results) /\ i + 1 # 1
    BY <1>3
  <2> QED
    BY <2>1, <2>2, <1>3, <1>4 DEF IInv, JobsAhead, OnePlace
<1>6. \A x : InResults(x) /\ x # h => InResults(x)'
  <2>1. ASSUME NEW i \in 1..Len(results), i # 1
        PROVE  i - 1 \in 1..Len(results') /\ results'[i - 1] = results[i]
    BY <1>3, <2>1
  <2>2. ASSUME NEW x, x # h, NEW i \in 1..Len(results), results[i].height = x
        PROVE  \E j \in 1..Len(results') : results'[j].height = x
    BY <1>3, <1>4, <2>1, <2>2
  <2> QED
    BY <2>2 DEF InResults
<1>7. CASE Process(h, b) /\ h = Lowest(ahead) /\ pending' = pending
  <2>1. MainEffect /\ ahead' = ahead \ {h}
    BY <1>1, <1>5, <1>7, WaitingLowest, ProcessEffect
  <2>2. ReplayTypeOK'
    BY <1>1, <1>3, <1>7, <2>1, MainTypes
  <2>3. Placed'
    <3>1. pending' \subseteq pending /\ \A q \in pending' : q.height # h
      BY <1>5, <1>7 DEF InPending
    <3>2. /\ \A x \in ahead' : InResults(x) => InResults(x)'
          /\ \A x \in ahead' : InPending(x) => InPending(x)'
      BY <1>6, <1>7, <2>1 DEF InPending
    <3>3. todo' = todo /\ phase = "running" /\ h \notin todo /\ 1 \in {0, 1}
      BY <1>1, <1>5 DEF Waiting
    <3> QED
      BY <1>3, <1>5, <2>1, <3>1, <3>2, <3>3, HeightDone
  <2> QED
    BY <2>1, <2>2, <2>3 DEF MainEffect
<1>8. CASE pending' = pending \cup {p} /\ UNCHANGED <<replayVars, clientVars>>
  <2>1. UNCHANGED <<phase, err, ahead, event, held, lastApplied, snapshots, gpc, gjob, gtries, gres, todo>>
    BY <1>1, <1>8 DEF replayVars, clientVars
  <2>2. ReplayTypeOK' /\ InHand' /\ Recorded'
    <3>1. InHand' /\ Recorded'
      BY <2>1, KeepsSnapshots DEF IInv, InHand
    <3> QED
      BY <1>1, <1>3, <1>8, <2>1, <3>1 DEF IInv, ReplayTypeOK, sourceVars, argVars, Result, EventHeights
  <2>3. \A i \in 1..Len(results') : i + 1 \in 1..Len(results) /\ results'[i] = results[i + 1]
    BY <1>3
  <2>4. JobsAhead'
    BY <1>4, <1>5, <1>8, <2>1, <2>3 DEF IInv, JobsAhead, Busy
  <2>5. OnePlace'
    <3>1. \A f \in Fetchers : Busy(f)' =>
              /\ \A i \in 1..Len(results') : results'[i].height # gjob'[f]
              /\ \A q \in pending' : q.height # gjob'[f]
      BY <1>4, <1>5, <1>8, <2>1, <2>3 DEF IInv, OnePlace, InResults, InPending, Busy
    <3>2. \A i, j \in 1..Len(results') : i # j => results'[i].height # results'[j].height
      BY <2>3 DEF IInv, OnePlace
    <3>3. \A i \in 1..Len(results') : \A q \in pending' : q.height # results'[i].height
      BY <1>4, <1>5, <1>8, <2>3 DEF IInv, OnePlace, InPending
    <3>4. \A q, r \in pending' : q.height = r.height => q = r
      BY <1>4, <1>5, <1>8 DEF IInv, OnePlace, InPending
    <3> QED
      BY <3>1, <3>2, <3>3, <3>4, <2>1 DEF IInv, OnePlace, InResults, InPending, Busy
  <2>6. NothingLost'
    <3>1. \A x : InPending(x) \/ x = h => InPending(x)'
      BY <1>4, <1>8 DEF InPending
    <3>2. \A f \in Fetchers : \A x : Fetching(f, x) => Fetching(f, x)'
      BY <2>1 DEF Fetching
    <3> QED
      BY <3>1, <3>2, <1>6, <2>1 DEF IInv, NothingLost, InResults, InPending
  <2>7. Exits' /\ GapBelow'
    BY <2>1 DEF IInv, Exits, GapBelow, Busy
  <2> QED
    BY <2>2, <2>4, <2>5, <2>6, <2>7 DEF Placed
<1> QED
  BY <1>2, <1>4, <1>7, <1>8 DEF TakeResult

(* The channel is never found closed with a block still awaited.           *)
LEMMA NeverMissing == ASSUME IInv, NothingFetched PROVE FALSE
<1>1. PICK h \in ahead : h = Lowest(ahead)
  BY WaitingLowest DEF NothingFetched
<1>2. todo = {}
  <2>1. \E f \in Fetchers : gpc[f] = "exited"
    BY ReplayAssumption DEF NothingFetched
  <2> QED
    BY <2>1 DEF IInv, Exits
<1>3. \A f \in Fetchers : ~Fetching(f, h)
  BY DEF NothingFetched, Fetching
<1>4. ~InResults(h)
  BY DEF NothingFetched, InResults
<1>5. \A p \in pending : p.height # h
  BY <1>1 DEF NothingFetched, Early
<1> QED
  BY <1>2, <1>3, <1>4, <1>5 DEF IInv, NothingLost, InResults, NothingFetched, Waiting

LEMMA RecoverStep ==
    ASSUME IInv, RecoverBlock
    PROVE  ReplayTypeOK' /\ InHand' /\ Placed' /\ Recorded'
<1>1. MainEffect /\ ahead' = ahead
  BY RecoverEffect
<1>2. /\ UNCHANGED <<sourceVars, kills, cache, argVars, todo, results, pending>>
      /\ phase = "running" /\ results \in Seq(Result) /\ pending \subseteq Result
  BY DEF RecoverBlock, channelVars, IInv, ReplayTypeOK
<1>3. ReplayTypeOK'
  BY <1>1, <1>2, MainTypes
<1>4. \A f \in Fetchers : (Busy(f)' <=> Busy(f)) /\ gjob'[f] = gjob[f] /\ gpc'[f] = gpc[f]
  BY <1>1 DEF MainEffect, Busy
<1>5. JobsAhead' /\ OnePlace'
  BY <1>1, <1>2, <1>4 DEF IInv, JobsAhead, OnePlace, InResults, InPending
<1>6. NothingLost' /\ Exits' /\ GapBelow'
  <2>1. \A f \in Fetchers : \A x : Fetching(f, x) => Fetching(f, x)'
    BY <1>4 DEF Fetching, Busy
  <2> QED
    BY <2>1, <1>1, <1>2, <1>4 DEF IInv, NothingLost, Exits, MainEffect
<1> QED
  BY <1>1, <1>3, <1>5, <1>6 DEF Placed, MainEffect

(* A new replay, or the end of the process.                                *)
LEMMA QuietStep ==
    ASSUME NEW C \in SUBSET ReplayHeights, NEW N \in SUBSET Heights, Quiet(C, N),
           phase' \in {"idle", "running"}, phase' = "running" => C # {},
           ReplayTypeOK, cache' = cache, sourceTip' = sourceTip, faults' = faults, kills' \in Nat
    PROVE  ReplayTypeOK' /\ InHand' /\ Placed' /\ Recorded'
<1>1. ReplayTypeOK'
  BY HeightsType, ReplayAssumption DEF Quiet, ReplayTypeOK, EventHeights, ClientPCs, Result
<1>2. InHand' /\ JobsAhead' /\ OnePlace' /\ GapBelow'
  BY MainType DEF Quiet, InHand, JobsAhead, OnePlace, GapBelow, Busy, InResults, InPending
<1>3. NothingLost' /\ Exits'
  BY MainType DEF Quiet, NothingLost, Exits
<1>4. Recorded'
  <2>1. snapshots' \in Seq({}) /\ Len(snapshots') = 0
    BY DEF Quiet
  <2> QED
    BY <2>1 DEF Recorded, SnapshotsTrue
<1> QED
  BY <1>1, <1>2, <1>3, <1>4 DEF Placed

LEMMA AloneStep ==
    ASSUME IInv, ReplayAlone
    PROVE  IInv'
<1> SUFFICES ReplayTypeOK' /\ InHand' /\ Placed' /\ Recorded'
  BY DEF IInv, Placed
<1>1. ASSUME NEW g \in Goroutines, ClientNext(g)
      PROVE  ReplayTypeOK' /\ InHand' /\ Placed' /\ Recorded'
  BY <1>1, ClientStep, ClientTypes, ClientPlaced DEF IInv
<1>2. CASE \E f \in Fetchers : FetcherNext(f)
  BY <1>1, <1>2, MainType, TakeJobStep, SendStep, ExitStep DEF FetcherNext
<1>3. CASE TakePending \/ TakeResult \/ NothingFetched \/ RecoverBlock
  BY <1>3, TakePendingStep, TakeResultStep, NeverMissing, RecoverStep
<1>4. CASE Kill \/ ProcessExit
  <2>1. Quiet({}, {}) /\ phase' = "idle" /\ cache' = cache /\ sourceTip' = sourceTip /\ faults' = faults
    BY <1>4 DEF Kill, ProcessExit, EndReplay, sourceVars
  <2>2. kills' \in Nat
    BY <1>4 DEF Kill, ProcessExit, IInv, ReplayTypeOK
  <2> QED
    BY <2>1, <2>2, QuietStep DEF IInv
<1>5. ASSUME NEW C \in SUBSET ReplayHeights, NEW N \in SUBSET Heights, Begin(C, N)
      PROVE  ReplayTypeOK' /\ InHand' /\ Placed' /\ Recorded'
  BY <1>5, QuietStep DEF Begin, IInv, ReplayTypeOK, sourceVars
<1>6. ASSUME NEW b \in Blocks, MoveSource(b)
      PROVE  ReplayTypeOK' /\ InHand' /\ Placed' /\ Recorded'
  <2>1. UNCHANGED <<kills, cache, argVars, channelVars, replayVars, clientVars>>
    BY <1>6 DEF MoveSource
  <2>2. faults' \in Nat /\ sourceTip' \in Blocks
    BY <1>6 DEF MoveSource, IInv, ReplayTypeOK
  <2>3. /\ UNCHANGED <<todo, results, pending, ahead, event, held, phase, err, gjob, gpc>>
        /\ UNCHANGED <<snapshots, gres, gtries, lastApplied>>
    BY <2>1 DEF channelVars, replayVars, clientVars
  <2>4. ReplayTypeOK' /\ InHand'
    BY <2>1, <2>2, <2>3 DEF IInv, ReplayTypeOK, InHand, argVars, Result, EventHeights
  <2> QED
    BY <2>3, <2>4, Unmoved, KeepsSnapshots DEF IInv, Placed, Busy
<1> QED
  BY <1>1, <1>2, <1>3, <1>4, <1>5, <1>6, MainType DEF ReplayAlone, ReplayNext

(* A step of the rest of the command that at most counts a fault.          *)
LEMMA Elsewhere ==
    ASSUME IInv, faults' \in Nat,
           UNCHANGED <<sourceTip, kills, cache, argVars, channelVars, replayVars, clientVars>>
    PROVE  IInv'
<1>1. /\ UNCHANGED <<todo, results, pending, ahead, event, held, phase, err, gjob, gpc>>
      /\ UNCHANGED <<snapshots, gres, gtries, lastApplied>>
  BY DEF channelVars, replayVars, clientVars
<1>2. ReplayTypeOK' /\ InHand'
  BY <1>1 DEF IInv, ReplayTypeOK, InHand, argVars, Result, EventHeights
<1> QED
  BY <1>1, <1>2, Unmoved, KeepsSnapshots DEF IInv, Placed, Busy

LEMMA Invariance == ReplaySpec => []IInv
<1>1. IInv /\ [ReplayAlone]_replayState => IInv'
  <2> SUFFICES ASSUME IInv, [ReplayAlone]_replayState PROVE IInv'
    OBVIOUS
  <2>1. CASE UNCHANGED replayState
    BY <2>1, Elsewhere DEF replayState, sourceVars, IInv, ReplayTypeOK
  <2> QED
    BY <2>1, AloneStep
<1> QED
  BY <1>1, InitInv, PTL DEF ReplaySpec

LEMMA OneWriter == ASSUME IInv PROVE OneWriterPerFile
<1> SUFFICES ASSUME NEW g \in Goroutines, NEW k \in Goroutines, g # k, Busy(g), Busy(k)
             PROVE  gjob[g] # gjob[k]
  BY DEF OneWriterPerFile, Busy
<1>1. CASE g \in Fetchers /\ k \in Fetchers
  BY <1>1 DEF IInv, OnePlace
<1>2. ASSUME NEW f \in Fetchers, Busy(f), Busy(Main) PROVE gjob[f] # gjob[Main]
  <2>1. gjob[f] \in ahead /\ gjob[f] \in Nat /\ gjob[Main] \in Nat /\ event \in Nat
    BY <1>2, HeightsType, MainType DEF IInv, JobsAhead, ReplayTypeOK
  <2> QED
    BY <1>2, <2>1 DEF IInv, GapBelow
<1> QED
  BY <1>1, <1>2 DEF Goroutines
-------------------------------------------------------------------------------
(* Induction up to n, over the set of the numbers for which a claim holds. *)
LEMMA Upto ==
    ASSUME NEW n \in Nat, NEW S, 0 \in S, \A i \in 0..(n - 1) : i \in S => i + 1 \in S
    PROVE  \A i \in 0..n : i \in S
<1> DEFINE T == {i \in 0..n : i \notin S}
<1>1. CASE T # {}
  <2>1. T \in SUBSET Nat
    OBVIOUS
  <2>2. PICK m \in T : \A k \in T : m <= k
    <3> HIDE DEF T
    <3> QED
      BY <1>1, <2>1, LowestType
  <2>3. m \in 1..n /\ m \notin S
    BY <2>2
  <2>4. m - 1 \in 0..(n - 1) /\ m - 1 \notin T
    BY <2>2, <2>3
  <2> QED
    BY <2>3, <2>4
<1> QED
  BY <1>1

(* FoldLeft, for the two operators apply folds with.  Eqs is the recursion *)
(* of MapThenFoldSet, over the sets of indices.                            *)
Do(k, r, o) == IF k = "add" THEN AddOutput(r, o) ELSE SpendOutput(r, o)
SpendAll(r, s) == FoldLeft(SpendOutput, r, s)
AddAll(r, s) == FoldLeft(AddOutput, r, s)
Eqs(k, n, r, s, f) ==
    f = [S \in SUBSET (1..n) |-> IF S = {} THEN r ELSE Do(k, f[S \ {Max(S)}], s[Max(S)])]

(* f[i] is what k makes of r with the first i elements of s.               *)
Stages(k, r, s, f) ==
    /\ f[0] = r
    /\ \A i \in 0..(Len(s) - 1) : f[i + 1] = Do(k, f[i], s[i + 1])

LEMMA MaxOfRange == ASSUME NEW n \in Nat, NEW S \in SUBSET (1..n), n \in S PROVE Max(S) = n
<1>1. \A y \in S : n >= y
  OBVIOUS
<1>2. \A x \in S : (\A y \in S : x >= y) => x = n
  OBVIOUS
<1> QED
  BY <1>1, <1>2 DEF Max

LEMMA EqsNext ==
    ASSUME NEW k, NEW r, NEW s, NEW n \in Nat, NEW f, Eqs(k, n, r, s, f)
    PROVE  \E g : Eqs(k, n + 1, r, s, g)
<1> DEFINE g == [S \in SUBSET (1..(n + 1)) |->
                   IF n + 1 \in S THEN Do(k, f[S \ {n + 1}], s[n + 1]) ELSE f[S]]
<1>1. ASSUME NEW S \in SUBSET (1..(n + 1))
      PROVE  g[S] = IF S = {} THEN r ELSE Do(k, g[S \ {Max(S)}], s[Max(S)])
  <2>1. CASE n + 1 \in S
    <3>1. Max(S) = n + 1
      BY <2>1, MaxOfRange
    <3>2. S \ {n + 1} \in SUBSET (1..(n + 1)) /\ n + 1 \notin S \ {n + 1}
      OBVIOUS
    <3>3. g[S \ {n + 1}] = f[S \ {n + 1}]
      BY <3>2
    <3> QED
      BY <2>1, <3>1, <3>3
  <2>2. CASE n + 1 \notin S
    <3>1. S \in SUBSET (1..n) /\ g[S] = f[S]
      BY <2>2
    <3>2. f[S] = IF S = {} THEN r ELSE Do(k, f[S \ {Max(S)}], s[Max(S)])
      BY <3>1 DEF Eqs
    <3>3. S \ {Max(S)} \in SUBSET (1..(n + 1)) /\ n + 1 \notin S \ {Max(S)}
      BY <2>2
    <3>4. g[S \ {Max(S)}] = f[S \ {Max(S)}]
      BY <3>3
    <3> QED
      BY <3>1, <3>2, <3>4
  <2> QED
    BY <2>1, <2>2
<1>2. Eqs(k, n + 1, r, s, g)
  <2> DEFINE h == [S \in SUBSET (1..(n + 1)) |->
                     IF S = {} THEN r ELSE Do(k, g[S \ {Max(S)}], s[Max(S)])]
  <2>1. g = h
    BY <1>1
  <2> QED
    BY <2>1 DEF Eqs
<1> QED
  BY <1>2

LEMMA EqsExist ==
    ASSUME NEW k, NEW r, NEW s, NEW n \in Nat
    PROVE  \E f : Eqs(k, n, r, s, f)
<1> DEFINE P == {m \in Nat : \E f : Eqs(k, m, r, s, f)}
<1>1. 0 \in P
  <2>1. SUBSET (1..0) = {{}}
    OBVIOUS
  <2>2. PICK f : f = [S \in SUBSET (1..0) |-> r]
    OBVIOUS
  <2>3. f = [S \in SUBSET (1..0) |-> IF S = {} THEN r ELSE Do(k, f[S \ {Max(S)}], s[Max(S)])]
    BY <2>1, <2>2
  <2> QED
    BY <2>3 DEF Eqs
<1>2. \A i \in 0..(n - 1) : i \in P => i + 1 \in P
  BY EqsNext
<1> HIDE DEF P
<1>3. n \in P
  BY <1>1, <1>2, Upto
<1> QED
  BY <1>3 DEF P

LEMMA EqsStages ==
    ASSUME NEW k, NEW r, NEW T, NEW s \in Seq(T), NEW g, Eqs(k, Len(s), r, s, g)
    PROVE  \E f : Stages(k, r, s, f) /\ f[Len(s)] = g[1..Len(s)]
<1> DEFINE f == [i \in 0..Len(s) |-> g[1..i]]
<1>0. Len(s) \in Nat
  OBVIOUS
<1>1. f[0] = r
  <2>1. 1..0 = {} /\ {} \in SUBSET (1..Len(s)) /\ f[0] = g[1..0]
    BY <1>0
  <2> QED
    BY <2>1 DEF Eqs
<1>2. ASSUME NEW i \in 0..(Len(s) - 1) PROVE f[i + 1] = Do(k, f[i], s[i + 1])
  <2>1. /\ i \in 0..Len(s) /\ i + 1 \in 0..Len(s) /\ i \in Nat /\ i + 1 \in Nat
        /\ 1..(i + 1) \in SUBSET (1..Len(s)) /\ 1..(i + 1) # {}
        /\ i + 1 \in 1..(i + 1) /\ (1..(i + 1)) \ {i + 1} = 1..i
    <3>1. i \in Nat /\ i + 1 <= Len(s)
      BY <1>0
    <3>2. (1..(i + 1)) \ {i + 1} = 1..i
      BY <3>1
    <3>3. i + 1 \in 1..(i + 1)
      BY <3>1
    <3> QED
      BY <1>0, <3>1, <3>2, <3>3
  <2>2. Max(1..(i + 1)) = i + 1
    BY <2>1, MaxOfRange
  <2>3. f[i] = g[1..i] /\ f[i + 1] = g[1..(i + 1)]
    BY <2>1
  <2>4. g[1..(i + 1)] = Do(k, g[(1..(i + 1)) \ {Max(1..(i + 1))}], s[Max(1..(i + 1))])
    BY <2>1 DEF Eqs
  <2> QED
    BY <2>1, <2>2, <2>3, <2>4
<1>3. f[Len(s)] = g[1..Len(s)]
  BY <1>0
<1>4. Stages(k, r, s, f)
  BY <1>1, <1>2 DEF Stages
<1> QED
  BY <1>3, <1>4

LEMMA SpendStages ==
    ASSUME NEW r, NEW T, NEW s \in Seq(T)
    PROVE  \E f : Stages("spend", r, s, f) /\ f[Len(s)] = SpendAll(r, s)
<1>1. DOMAIN s = 1..Len(s) /\ Len(s) \in Nat
  OBVIOUS
<1>2. PICK g : g = CHOOSE f : Eqs("spend", Len(s), r, s, f)
  OBVIOUS
<1>3. Eqs("spend", Len(s), r, s, g)
  BY <1>1, <1>2, EqsExist
<1>4. SpendAll(r, s) = g[1..Len(s)]
  BY <1>1, <1>2 DEF SpendAll, FoldLeft, MapThenFoldSet, Eqs, Do
<1>5. PICK f : Stages("spend", r, s, f) /\ f[Len(s)] = g[1..Len(s)]
  BY <1>3, EqsStages
<1> QED
  BY <1>4, <1>5

LEMMA AddStages ==
    ASSUME NEW r, NEW T, NEW s \in Seq(T)
    PROVE  \E f : Stages("add", r, s, f) /\ f[Len(s)] = AddAll(r, s)
<1>1. DOMAIN s = 1..Len(s) /\ Len(s) \in Nat
  OBVIOUS
<1>2. PICK g : g = CHOOSE f : Eqs("add", Len(s), r, s, f)
  OBVIOUS
<1>3. Eqs("add", Len(s), r, s, g)
  BY <1>1, <1>2, EqsExist
<1>4. AddAll(r, s) = g[1..Len(s)]
  BY <1>1, <1>2 DEF AddAll, FoldLeft, MapThenFoldSet, Eqs, Do
<1>5. PICK f : Stages("add", r, s, f) /\ f[Len(s)] = g[1..Len(s)]
  BY <1>3, EqsStages
<1> QED
  BY <1>4, <1>5

LEMMA ApplyIs ==
    ASSUME NEW r, NEW b
    PROVE  Apply(r, b) = AddAll(SpendAll(r, SetToSeq(Inputs(b))), Outputs(b))
BY DEF Apply, SpendAll, AddAll, FoldLeft, MapThenFoldSet

(* SetToSeq enumerates a finite set, each element once.                    *)
LEMMA Enumerated ==
    ASSUME NEW S, IsFiniteSet(S)
    PROVE  /\ SetToSeq(S) \in Seq(S)
           /\ \A i, j \in 1..Len(SetToSeq(S)) : SetToSeq(S)[i] = SetToSeq(S)[j] => i = j
           /\ \A x \in S : \E i \in 1..Len(SetToSeq(S)) : SetToSeq(S)[i] = x
<1>1. Cardinality(S) \in Nat /\ ExistsBijection(1..Cardinality(S), S)
  BY FS_CardinalityType
<1>2. \E f \in [1..Cardinality(S) -> S] : IsInjective(f)
  BY <1>1 DEF ExistsBijection, Bijection, Injection
<1>3. PICK f \in [1..Cardinality(S) -> S] : f = SetToSeq(S) /\ IsInjective(f)
  BY <1>2 DEF SetToSeq
<1>4. f \in Injection(1..Cardinality(S), S)
  BY <1>3 DEF Injection
<1>5. Cardinality(1..Cardinality(S)) = Cardinality(S)
  BY <1>1, FS_Interval
<1>6. f \in Surjection(1..Cardinality(S), S)
  BY <1>4, <1>5, FS_Injection
<1>7. f \in Seq(S) /\ Len(f) = Cardinality(S)
  BY <1>1
<1> QED
  BY <1>3, <1>6, <1>7 DEF IsInjective, Surjection

-------------------------------------------------------------------------------
(* A replayer whose map and bits agree, with the outputs of block b.       *)
Replayers == [leaf : [Output -> Nat], bits : SUBSET Nat, size : Nat, failed : BOOLEAN]

Indexed(r, b) ==
    /\ r \in Replayers /\ ~r.failed /\ r.size <= SizeOf(b) /\ r.bits \subseteq 1..r.size
    /\ \A o \in Output : r.leaf[o] # 0 => r.leaf[o] \in r.bits /\ Outs[b][r.leaf[o]] = o
    /\ \A i \in r.bits : r.leaf[Outs[b][i]] = i

(* It holds the leafset of block b, or of no block.                        *)
Holds(r, b) == Indexed(r, b) /\ r.size = SizeOf(b) /\ r.bits = LeafsetOf(b)

LEMMA BlockOuts ==
    ASSUME NEW b \in Blocks
    PROVE  /\ SizeOf(b) = Len(Outs[b]) /\ SizeOf(b) \in Nat /\ SizeOf(b) >= 1
           /\ LeafsetOf(b) = Unspent[b] /\ Unspent[b] \subseteq 1..SizeOf(b)
           /\ Outs[b] \in Seq(Output)
           /\ \A i \in 1..SizeOf(b) : Outs[b][i] \in Output
           /\ \A i, j \in Unspent[b] : Outs[b][i] = Outs[b][j] => i = j
<1>1. b # None
  BY PathAssumption
<1>2. SizeOf(b) = Len(Outs[b]) /\ LeafsetOf(b) = Unspent[b]
  BY <1>1 DEF SizeOf, LeafsetOf
<1>3. /\ Outs[b] \in Seq(Output) /\ Len(Outs[b]) >= 1 /\ Unspent[b] \subseteq 1..Len(Outs[b])
      /\ \A i, j \in Unspent[b] : Outs[b][i] = Outs[b][j] => i = j
  BY MwebAssumption
<1> QED
  BY <1>2, <1>3

(* Spending one output that is held, and one that is not.                  *)
LEMMA SpendOne ==
    ASSUME NEW b \in Blocks, NEW r, Indexed(r, b), NEW o \in Output
    PROVE  LET t == SpendOutput(r, o) IN
           /\ t \in Replayers
           /\ r.leaf[o] = 0 => t.failed
           /\ r.leaf[o] # 0 => /\ Indexed(t, b)
                               /\ t.size = r.size /\ t.bits = r.bits \ {r.leaf[o]}
                               /\ \A p \in Output \ {o} : t.leaf[p] = r.leaf[p]
<1> DEFINE t == SpendOutput(r, o)
<1>1. r \in Replayers /\ ~r.failed
  BY DEF Indexed
<1>2. CASE r.leaf[o] = 0
  <2>1. t = [r EXCEPT !.failed = TRUE]
    BY <1>2 DEF SpendOutput
  <2> QED
    BY <1>1, <1>2, <2>1 DEF Replayers
<1>3. CASE r.leaf[o] # 0
  <2>1. t = [r EXCEPT !.leaf[o] = 0, !.bits = @ \ {r.leaf[o]}]
    BY <1>1, <1>3 DEF SpendOutput
  <2>2. /\ t \in Replayers /\ t.failed = r.failed /\ t.size = r.size
        /\ t.bits = r.bits \ {r.leaf[o]} /\ t.leaf = [r.leaf EXCEPT ![o] = 0]
    <3> HIDE DEF t
    <3>1. /\ r = [leaf |-> r.leaf, bits |-> r.bits, size |-> r.size, failed |-> r.failed]
          /\ r.leaf \in [Output -> Nat] /\ r.bits \in SUBSET Nat /\ r.size \in Nat
          /\ r.failed \in BOOLEAN
      BY <1>1 DEF Replayers
    <3>2. t = [leaf |-> [r.leaf EXCEPT ![o] = 0], bits |-> r.bits \ {r.leaf[o]},
               size |-> r.size, failed |-> r.failed]
      BY <2>1, <3>1
    <3>3. [r.leaf EXCEPT ![o] = 0] \in [Output -> Nat] /\ r.bits \ {r.leaf[o]} \in SUBSET Nat
      BY <3>1
    <3> QED
      BY <3>1, <3>2, <3>3 DEF Replayers
  <2>3. /\ r.leaf \in [Output -> Nat] /\ t.leaf[o] = 0
        /\ \A p \in Output \ {o} : t.leaf[p] = r.leaf[p]
    BY <1>1, <2>2 DEF Replayers
  <2>4. ASSUME NEW p \in Output, t.leaf[p] # 0
        PROVE  t.leaf[p] \in t.bits /\ Outs[b][t.leaf[p]] = p
    <3>1. p # o /\ t.leaf[p] = r.leaf[p]
      BY <2>3, <2>4
    <3>2. r.leaf[p] \in r.bits /\ Outs[b][r.leaf[p]] = p /\ Outs[b][r.leaf[o]] = o
      BY <1>3, <2>4, <3>1 DEF Indexed
    <3>3. r.leaf[p] # r.leaf[o]
      BY <3>1, <3>2
    <3> QED
      BY <2>2, <3>1, <3>2, <3>3
  <2>5. ASSUME NEW i \in t.bits PROVE t.leaf[Outs[b][i]] = i
    <3>1. i \in r.bits /\ i # r.leaf[o] /\ r.leaf[Outs[b][i]] = i
      BY <2>2 DEF Indexed
    <3>2. Outs[b][i] \in Output
      BY <3>1, BlockOuts DEF Indexed, Replayers
    <3> QED
      BY <2>3, <3>1, <3>2
  <2>6. Indexed(t, b)
    BY <1>1, <2>2, <2>4, <2>5 DEF Indexed
  <2> QED
    BY <1>3, <2>2, <2>3, <2>6
<1> HIDE DEF t
<1> QED
  BY <1>2, <1>3 DEF t

(* Adding the next output of the block, when nothing spent is held.        *)
LEMMA AddOne ==
    ASSUME NEW b \in Blocks, NEW r, Indexed(r, b), r.size + 1 <= SizeOf(b),
           r.bits \subseteq Unspent[b], r.size + 1 \in Unspent[b]
    PROVE  LET t == AddOutput(r, Outs[b][r.size + 1]) IN
           Indexed(t, b) /\ t.size = r.size + 1 /\ t.bits = r.bits \cup {r.size + 1}
<1> DEFINE o == Outs[b][r.size + 1]
<1> DEFINE t == AddOutput(r, o)
<1>1. r \in Replayers /\ ~r.failed /\ r.size \in Nat /\ r.bits \subseteq 1..r.size
  BY DEF Indexed, Replayers
<1>2. r.size + 1 \in 1..SizeOf(b) /\ o \in Output /\ SizeOf(b) \in Nat
  BY <1>1, BlockOuts
<1>3. r.leaf[o] = 0
  <2>1. SUFFICES ASSUME r.leaf[o] # 0 PROVE FALSE
    OBVIOUS
  <2>2. r.leaf[o] \in r.bits /\ r.leaf[o] \in 1..r.size /\ Outs[b][r.leaf[o]] = o
    BY <1>1, <1>2, <2>1 DEF Indexed
  <2>3. r.leaf[o] \in Unspent[b] /\ r.leaf[o] # r.size + 1
    BY <1>1, <1>2, <2>2
  <2> QED
    BY <1>2, <2>2, <2>3, BlockOuts
<1> HIDE DEF o
<1>4. t = [r EXCEPT !.leaf[o] = r.size + 1, !.bits = @ \cup {r.size + 1}, !.size = @ + 1]
  BY <1>1, <1>3 DEF AddOutput
<1>5. /\ t \in Replayers /\ t.failed = r.failed /\ t.size = r.size + 1
      /\ t.bits = r.bits \cup {r.size + 1} /\ t.leaf = [r.leaf EXCEPT ![o] = r.size + 1]
  <2> HIDE DEF t
  <2>1. /\ r = [leaf |-> r.leaf, bits |-> r.bits, size |-> r.size, failed |-> r.failed]
        /\ r.leaf \in [Output -> Nat] /\ r.bits \in SUBSET Nat /\ r.size \in Nat
        /\ r.failed \in BOOLEAN
    BY <1>1 DEF Replayers
  <2>2. t = [leaf |-> [r.leaf EXCEPT ![o] = r.size + 1], bits |-> r.bits \cup {r.size + 1},
             size |-> r.size + 1, failed |-> r.failed]
    BY <1>4, <2>1
  <2>3. /\ [r.leaf EXCEPT ![o] = r.size + 1] \in [Output -> Nat]
        /\ r.bits \cup {r.size + 1} \in SUBSET Nat /\ r.size + 1 \in Nat
    <3>1. r.size + 1 \in Nat
      BY <2>1
    <3>2. [r.leaf EXCEPT ![o] = r.size + 1] \in [Output -> Nat]
      BY <2>1, <3>1
    <3>3. r.bits \cup {r.size + 1} \in SUBSET Nat
      BY <2>1, <3>1
    <3> QED
      BY <3>1, <3>2, <3>3
  <2> QED
    BY <2>1, <2>2, <2>3 DEF Replayers
<1> HIDE DEF t
<1>6. /\ r.leaf \in [Output -> Nat] /\ t.leaf[o] = r.size + 1
      /\ \A p \in Output \ {o} : t.leaf[p] = r.leaf[p]
  BY <1>1, <1>2, <1>5 DEF Replayers
<1>7. Outs[b][r.size + 1] = o
  BY DEF o
<1>8. ASSUME NEW p \in Output, t.leaf[p] # 0
      PROVE  t.leaf[p] \in t.bits /\ Outs[b][t.leaf[p]] = p
  BY <1>5, <1>6, <1>7, <1>8 DEF Indexed
<1>9. ASSUME NEW i \in t.bits PROVE t.leaf[Outs[b][i]] = i
  <2>1. CASE i = r.size + 1
    BY <1>6, <1>7, <2>1
  <2>2. CASE i \in r.bits
    <3>1. r.leaf[Outs[b][i]] = i /\ i \in 1..SizeOf(b) /\ i # 0
      BY <1>1, <1>2, <2>2 DEF Indexed
    <3>2. Outs[b][i] \in Output /\ Outs[b][i] # o
      BY <1>3, <3>1, BlockOuts
    <3> QED
      BY <1>6, <3>1, <3>2
  <2> QED
    BY <1>5, <2>1, <2>2
<1>10. t.bits \subseteq 1..t.size /\ t.size <= SizeOf(b)
  BY <1>1, <1>5
<1>11. Indexed(t, b)
  BY <1>1, <1>5, <1>8, <1>9, <1>10 DEF Indexed
<1> QED
  BY <1>5, <1>11 DEF t, o

(* The inputs of a block, one after the other.                             *)
LEMMA SpendEffect ==
    ASSUME NEW b \in Blocks, NEW r, Indexed(r, b), NEW s \in Seq(Output),
           \A i, j \in 1..Len(s) : s[i] = s[j] => i = j
    PROVE  LET t == SpendAll(r, s) IN
           /\ t \in Replayers
           /\ (\A j \in 1..Len(s) : r.leaf[s[j]] # 0) => ~t.failed
           /\ ~t.failed => /\ Indexed(t, b) /\ t.size = r.size
                           /\ t.bits = r.bits \ {r.leaf[s[j]] : j \in 1..Len(s)}
<1> DEFINE Gone(i) == {s[j] : j \in 1..i}
<1> DEFINE Part(i, t) ==
      /\ t \in Replayers
      /\ (\A j \in 1..i : r.leaf[s[j]] # 0) => ~t.failed
      /\ ~t.failed => /\ Indexed(t, b) /\ t.size = r.size
                      /\ t.bits = r.bits \ {r.leaf[s[j]] : j \in 1..i}
                      /\ \A o \in Output \ Gone(i) : t.leaf[o] = r.leaf[o]
<1>1. PICK f : Stages("spend", r, s, f) /\ f[Len(s)] = SpendAll(r, s)
  BY SpendStages
<1>2. Len(s) \in Nat /\ \A i \in 1..Len(s) : s[i] \in Output
  OBVIOUS
<1> DEFINE P == {i \in 0..Len(s) : Part(i, f[i])}
<1>3. 0 \in P
  <2>1. f[0] = r /\ ~r.failed /\ {r.leaf[s[j]] : j \in 1..0} = {}
    BY <1>1 DEF Stages, Indexed
  <2>2. Part(0, r)
    BY <2>1 DEF Indexed
  <2> QED
    BY <1>2, <2>1, <2>2
<1>4. ASSUME NEW i \in 0..(Len(s) - 1), i \in P PROVE i + 1 \in P
  <2>1. /\ i \in Nat /\ i + 1 \in 1..Len(s) /\ Part(i, f[i]) /\ s[i + 1] \in Output
        /\ 1..(i + 1) = (1..i) \cup {i + 1}
    <3>1. i \in Nat /\ i + 1 \in 1..Len(s)
      BY <1>2
    <3>2. Part(i, f[i])
      BY <1>4
    <3>3. 1..(i + 1) = (1..i) \cup {i + 1}
      BY <3>1
    <3> QED
      BY <1>2, <3>1, <3>2, <3>3
  <2>2. PICK o \in Output, t \in {f[i]}, u \in {f[i + 1]} : o = s[i + 1] /\ t = f[i] /\ u = f[i + 1]
    BY <2>1
  <2>3. u = SpendOutput(t, o) /\ Part(i, t)
    BY <1>1, <2>1, <2>2 DEF Stages, Do
  <2>4. o \notin Gone(i)
    BY <1>2, <2>1, <2>2
  <2>5. /\ {r.leaf[s[j]] : j \in 1..(i + 1)} = {r.leaf[s[j]] : j \in 1..i} \cup {r.leaf[o]}
        /\ Gone(i + 1) = Gone(i) \cup {o}
    BY <2>1, <2>2
  <2>6. CASE t.failed
    <3>1. u.failed /\ u \in Replayers
      BY <2>3, <2>6 DEF SpendOutput, Replayers
    <3>2. \E j \in 1..i : r.leaf[s[j]] = 0
      BY <2>3, <2>6
    <3>3. Part(i + 1, u)
      BY <2>1, <3>1, <3>2
    <3> QED
      BY <2>1, <2>2, <3>3
  <2>7. CASE ~t.failed
    <3>1. /\ Indexed(t, b) /\ t.size = r.size /\ t.leaf[o] = r.leaf[o]
          /\ t.bits = r.bits \ {r.leaf[s[j]] : j \in 1..i}
          /\ \A p \in Output \ Gone(i) : t.leaf[p] = r.leaf[p]
      BY <2>3, <2>4, <2>7
    <3>2. CASE r.leaf[o] = 0
      <4>1. u.failed /\ u \in Replayers
        BY <2>3, <3>1, <3>2, SpendOne
      <4>2. Part(i + 1, u)
        BY <2>1, <2>2, <3>2, <4>1
      <4> QED
        BY <2>1, <2>2, <4>2
    <3>3. CASE r.leaf[o] # 0
      <4>1. /\ Indexed(u, b) /\ u.size = r.size /\ u.bits = t.bits \ {r.leaf[o]}
            /\ \A p \in Output \ {o} : u.leaf[p] = t.leaf[p]
        BY <2>3, <3>1, <3>3, SpendOne
      <4>2. u.bits = r.bits \ {r.leaf[s[j]] : j \in 1..(i + 1)}
        BY <2>5, <3>1, <4>1
      <4>3. \A p \in Output \ Gone(i + 1) : u.leaf[p] = r.leaf[p]
        BY <2>5, <3>1, <4>1
      <4>4. ~u.failed /\ u \in Replayers
        BY <4>1 DEF Indexed
      <4>5. Part(i + 1, u)
        BY <4>1, <4>2, <4>3, <4>4
      <4> QED
        BY <2>1, <2>2, <4>5
    <3> QED
      BY <3>2, <3>3
  <2> QED
    BY <2>6, <2>7
<1>5. Part(Len(s), f[Len(s)])
  <2> HIDE DEF P
  <2>1. \A i \in 0..Len(s) : i \in P
    BY <1>2, <1>3, <1>4, Upto
  <2>2. Len(s) \in P
    BY <1>2, <2>1
  <2> QED
    BY <2>2 DEF P
<1> QED
  BY <1>1, <1>5

(* The outputs of a block, one after the other.                            *)
LEMMA AddSize ==
    ASSUME NEW r \in Replayers, NEW s \in Seq(Output)
    PROVE  /\ AddAll(r, s) \in Replayers
           /\ ~AddAll(r, s).failed => /\ ~r.failed /\ AddAll(r, s).size = r.size + Len(s)
                                      /\ r.bits \subseteq AddAll(r, s).bits
<1> DEFINE Part(i, t) == /\ t \in Replayers
                         /\ ~t.failed => /\ ~r.failed /\ t.size = r.size + i
                                         /\ r.bits \subseteq t.bits
<1>1. PICK f : Stages("add", r, s, f) /\ f[Len(s)] = AddAll(r, s)
  BY AddStages
<1>2. Len(s) \in Nat /\ \A i \in 1..Len(s) : s[i] \in Output
  OBVIOUS
<1> DEFINE P == {i \in 0..Len(s) : Part(i, f[i])}
<1>3. 0 \in P
  BY <1>1, <1>2 DEF Stages, Replayers
<1>4. ASSUME NEW i \in 0..(Len(s) - 1), i \in P PROVE i + 1 \in P
  <2>1. i \in Nat /\ i + 1 \in 1..Len(s) /\ Part(i, f[i]) /\ s[i + 1] \in Output
    BY <1>2, <1>4
  <2>2. PICK o \in Output, t \in {f[i]}, u \in {f[i + 1]} : o = s[i + 1] /\ t = f[i] /\ u = f[i + 1]
    BY <2>1
  <2>3. u = AddOutput(t, o) /\ Part(i, t)
    BY <1>1, <2>1, <2>2 DEF Stages, Do
  <2>4. /\ u \in Replayers
        /\ ~u.failed => ~t.failed /\ u.size = t.size + 1 /\ t.bits \subseteq u.bits
    <3>1. CASE t.failed \/ t.leaf[o] # 0
      BY <2>3, <3>1 DEF AddOutput, Replayers
    <3>2. CASE ~(t.failed \/ t.leaf[o] # 0)
      <4>1. u = [t EXCEPT !.leaf[o] = t.size + 1, !.bits = @ \cup {t.size + 1}, !.size = @ + 1]
        BY <2>3, <3>2 DEF AddOutput
      <4>2. /\ t = [leaf |-> t.leaf, bits |-> t.bits, size |-> t.size, failed |-> t.failed]
            /\ t.leaf \in [Output -> Nat] /\ t.bits \in SUBSET Nat /\ t.size \in Nat
            /\ t.failed \in BOOLEAN
        BY <2>3 DEF Replayers
      <4>3. u = [leaf |-> [t.leaf EXCEPT ![o] = t.size + 1], bits |-> t.bits \cup {t.size + 1},
                 size |-> t.size + 1, failed |-> t.failed]
        BY <4>1, <4>2
      <4>4. t.size + 1 \in Nat
        BY <4>2
      <4>5. [t.leaf EXCEPT ![o] = t.size + 1] \in [Output -> Nat]
        BY <4>2, <4>4
      <4> QED
        BY <4>2, <4>3, <4>4, <4>5 DEF Replayers
    <3> QED
      BY <3>1, <3>2
  <2>5. Part(i + 1, u)
    <3>1. PICK n \in Nat : n = r.size
      BY DEF Replayers
    <3>2. ~t.failed => ~r.failed /\ t.size = n + i /\ r.bits \subseteq t.bits
      BY <2>3, <3>1
    <3>3. ~u.failed => ~r.failed /\ u.size = (n + i) + 1 /\ r.bits \subseteq u.bits
      BY <2>4, <3>2
    <3>4. (n + i) + 1 = n + (i + 1)
      BY <2>1
    <3> QED
      BY <2>4, <3>1, <3>3, <3>4
  <2> QED
    BY <2>1, <2>2, <2>5
<1>5. Part(Len(s), f[Len(s)])
  <2> HIDE DEF P
  <2>1. \A i \in 0..Len(s) : i \in P
    BY <1>2, <1>3, <1>4, Upto
  <2>2. Len(s) \in P
    BY <1>2, <2>1
  <2> QED
    BY <2>2 DEF P
<1> QED
  BY <1>1, <1>5

LEMMA AddEffect ==
    ASSUME NEW b \in Blocks, NEW r, Indexed(r, b), NEW s \in Seq(Output),
           r.size + Len(s) <= SizeOf(b), \A j \in 1..Len(s) : s[j] = Outs[b][r.size + j],
           r.bits \subseteq Unspent[b], (r.size + 1)..(r.size + Len(s)) \subseteq Unspent[b]
    PROVE  LET t == AddAll(r, s) IN
           /\ Indexed(t, b) /\ t.size = r.size + Len(s)
           /\ t.bits = r.bits \cup (r.size + 1)..(r.size + Len(s))
<1> DEFINE Part(i, t) == /\ Indexed(t, b) /\ t.size = r.size + i
                         /\ t.bits = r.bits \cup (r.size + 1)..(r.size + i)
<1>1. PICK f : Stages("add", r, s, f) /\ f[Len(s)] = AddAll(r, s)
  BY AddStages
<1>2. Len(s) \in Nat /\ r.size \in Nat /\ SizeOf(b) \in Nat
  BY BlockOuts DEF Indexed, Replayers
<1> DEFINE P == {i \in 0..Len(s) : Part(i, f[i])}
<1>3. 0 \in P
  <2>1. f[0] = r /\ (r.size + 1)..(r.size + 0) = {}
    BY <1>1, <1>2 DEF Stages
  <2> QED
    BY <1>2, <2>1
<1>4. ASSUME NEW i \in 0..(Len(s) - 1), i \in P PROVE i + 1 \in P
  <2>1. i \in Nat /\ i + 1 \in 1..Len(s) /\ Part(i, f[i]) /\ i + 1 \in 0..Len(s)
    BY <1>2, <1>4
  <2>2. PICK t, u : t = f[i] /\ u = f[i + 1]
    OBVIOUS
  <2>3. Indexed(t, b) /\ t.size = r.size + i /\ t.bits = r.bits \cup (r.size + 1)..(r.size + i)
    BY <2>1, <2>2
  <2>4. s[i + 1] = Outs[b][t.size + 1] /\ t.size + 1 <= SizeOf(b)
    <3>1. PICK n \in Nat : n = r.size
      BY <1>2
    <3>2. t.size = n + i
      BY <2>3, <3>1
    <3>3. t.size + 1 = n + (i + 1) /\ n + (i + 1) <= n + Len(s) /\ n + Len(s) <= SizeOf(b)
      BY <1>2, <2>1, <3>1, <3>2
    <3>4. s[i + 1] = Outs[b][n + (i + 1)]
      BY <2>1, <3>1
    <3> QED
      BY <1>2, <2>1, <3>3, <3>4
  <2>5. u = AddOutput(t, Outs[b][t.size + 1])
    BY <1>1, <2>2, <2>4 DEF Stages, Do
  <2>6. Indexed(u, b) /\ u.size = t.size + 1 /\ u.bits = t.bits \cup {t.size + 1}
    <3>1. PICK n \in Nat : n = r.size
      BY <1>2
    <3>2. PICK m \in Nat : m = t.size /\ m = n + i
      BY <2>1, <2>3, <3>1
    <3>3. PICK z \in Nat : z = Len(s) /\ i + 1 <= z
      BY <1>2, <2>1
    <3>5. m + 1 \in (n + 1)..(n + z) /\ (n + 1)..(n + i) \subseteq (n + 1)..(n + z)
      BY <2>1, <3>2, <3>3
    <3>6. (n + 1)..(n + z) \subseteq Unspent[b] /\ r.bits \subseteq Unspent[b]
      BY <3>1, <3>3
    <3>7. t.bits = r.bits \cup (n + 1)..(n + i)
      BY <2>3, <3>1
    <3>8. t.size + 1 <= SizeOf(b)
      BY <2>4
    <3>4. t.bits \subseteq Unspent[b] /\ t.size + 1 \in Unspent[b]
      BY <3>2, <3>5, <3>6, <3>7
    <3> QED
      BY <2>3, <2>5, <3>4, <3>8, AddOne, Zenon
  <2>7. (r.size + 1)..(r.size + i) \cup {r.size + i + 1} = (r.size + 1)..(r.size + (i + 1))
    <3>1. PICK n \in Nat : n = r.size
      BY <1>2
    <3>2. (n + 1)..(n + i) \cup {n + i + 1} = (n + 1)..(n + (i + 1))
      <4>1. PICK m \in Nat : m = n + i
        BY <2>1
      <4>2. \A k \in Int : k \in (n + 1)..(m + 1) <=> k \in (n + 1)..m \/ k = m + 1
        BY <4>1
      <4>3. /\ (n + 1)..m \subseteq Int /\ (n + 1)..(m + 1) \subseteq Int /\ m + 1 \in Int
            /\ n + i + 1 = m + 1 /\ n + (i + 1) = m + 1
        BY <2>1, <4>1
      <4>4. (n + 1)..m \cup {m + 1} = (n + 1)..(m + 1)
        BY <4>2, <4>3
      <4> QED
        BY <4>1, <4>3, <4>4
    <3> QED
      BY <3>1, <3>2
  <2>8. u.size = r.size + (i + 1)
    <3>1. PICK n \in Nat : n = r.size
      BY <1>2
    <3>2. u.size = (n + i) + 1
      BY <2>3, <2>6, <3>1
    <3>3. (n + i) + 1 = n + (i + 1)
      BY <2>1
    <3> QED
      BY <3>1, <3>2, <3>3
  <2>9. Part(i + 1, u)
    BY <2>3, <2>6, <2>7, <2>8
  <2> QED
    BY <2>1, <2>2, <2>9
<1>5. Part(Len(s), f[Len(s)])
  <2> HIDE DEF P
  <2>1. \A i \in 0..Len(s) : i \in P
    BY <1>2, <1>3, <1>4, Upto
  <2>2. Len(s) \in P
    BY <1>2, <2>1
  <2> QED
    BY <2>2 DEF P
<1> QED
  BY <1>1, <1>5
-------------------------------------------------------------------------------
(* A block's parent, what the block adds to it and what it spends.         *)
LEMMA ParentBelow ==
    ASSUME NEW b \in Blocks
    PROVE  \/ Parent(b) = None
           \/ Parent(b) \in Blocks /\ On(Parent(b), b)
<1>1. Height(b) \in Nat /\ Height(b) >= 1
  BY HeightType
<1>2. CASE Height(b) = 1
  BY <1>2 DEF Parent
<1>3. CASE Height(b) # 1
  <2>1. Height(b) - 1 \in 1..Height(b)
    BY <1>1, <1>3
  <2>2. /\ Path[b][Height(b) - 1] \in Blocks
        /\ Height(Path[b][Height(b) - 1]) = Height(b) - 1
    BY <2>1, AtType
  <2> QED
    BY <1>1, <1>3, <2>2 DEF Parent, On
<1> QED
  BY <1>2, <1>3

LEMMA GrowsFrom ==
    ASSUME NEW b \in Blocks, NEW a, a = None \/ (a \in Blocks /\ On(a, b))
    PROVE  /\ SizeOf(a) \in Nat /\ SizeOf(a) <= SizeOf(b)
           /\ LeafsetOf(a) \subseteq 1..SizeOf(a)
           /\ a # None => \A i \in 1..SizeOf(a) : Outs[b][i] = Outs[a][i]
           /\ Unspent[b] \cap (1..SizeOf(a)) \subseteq LeafsetOf(a)
<1>1. SizeOf(b) \in Nat /\ SizeOf(b) >= 1 /\ SizeOf(b) = Len(Outs[b])
  BY BlockOuts
<1>2. CASE a = None
  BY <1>1, <1>2 DEF SizeOf, LeafsetOf
<1>3. CASE a \in Blocks /\ On(a, b)
  <2>1. SizeOf(a) = Len(Outs[a]) /\ SizeOf(a) \in Nat /\ LeafsetOf(a) = Unspent[a]
        /\ Unspent[a] \subseteq 1..SizeOf(a)
    BY <1>3, BlockOuts
  <2>2. /\ Len(Outs[a]) <= Len(Outs[b])
        /\ \A i \in 1..Len(Outs[a]) : Outs[b][i] = Outs[a][i]
        /\ Unspent[b] \cap (1..Len(Outs[a])) \subseteq Unspent[a]
    BY <1>3, MwebAssumption
  <2> QED
    BY <1>1, <2>1, <2>2
<1> QED
  BY <1>2, <1>3

LEMMA OutputsType ==
    ASSUME NEW b \in Blocks
    PROVE  /\ Outputs(b) \in Seq(Output)
           /\ Len(Outputs(b)) = SizeOf(b) - SizeOf(Parent(b))
           /\ \A j \in 1..Len(Outputs(b)) : Outputs(b)[j] = Outs[b][SizeOf(Parent(b)) + j]
<1>1. PICK n \in Nat, m \in Nat : n = SizeOf(Parent(b)) /\ m = SizeOf(b) /\ n <= m
  BY BlockOuts, ParentBelow, GrowsFrom
<1>2. PICK s \in Seq(Output) : s = Outs[b] /\ Len(s) = m
  BY <1>1, BlockOuts
<1>3. Outputs(b) = SubSeq(s, n + 1, m)
  BY <1>1, <1>2 DEF Outputs
<1>4. /\ SubSeq(s, n + 1, m) \in Seq(Output)
      /\ Len(SubSeq(s, n + 1, m)) = m - n
      /\ \A j \in 1..(m - n) : SubSeq(s, n + 1, m)[j] = s[n + j]
  BY <1>1, <1>2
<1> QED
  BY <1>1, <1>2, <1>3, <1>4

LEMMA InputsType ==
    ASSUME NEW b \in Blocks
    PROVE  /\ LeafsetOf(Parent(b)) \subseteq 1..SizeOf(Parent(b))
           /\ LeafsetOf(Parent(b)) \subseteq 1..SizeOf(b)
           /\ Inputs(b) \subseteq Output /\ IsFiniteSet(Inputs(b))
<1> DEFINE I == LeafsetOf(Parent(b)) \ Unspent[b]
<1>1. /\ LeafsetOf(Parent(b)) \subseteq 1..SizeOf(Parent(b)) /\ SizeOf(Parent(b)) \in Nat
      /\ SizeOf(Parent(b)) <= SizeOf(b) /\ SizeOf(b) \in Nat
  BY BlockOuts, ParentBelow, GrowsFrom
<1>2. LeafsetOf(Parent(b)) \subseteq 1..SizeOf(b) /\ I \in SUBSET (1..SizeOf(b))
  BY <1>1
<1>3. IsFiniteSet(I)
  <2> HIDE DEF I
  <2>1. IsFiniteSet(1..SizeOf(b))
    BY <1>1, FS_Interval
  <2> QED
    BY <1>2, <2>1, FS_Subset
<1>4. [i \in I |-> Outs[b][i]] \in Surjection(I, Inputs(b))
  BY DEF Inputs, Surjection
<1>5. IsFiniteSet(Inputs(b))
  BY <1>3, <1>4, FS_Surjection
<1> QED
  BY <1>1, <1>2, <1>5, BlockOuts DEF Inputs

LEMMA IndexedUp ==
    ASSUME NEW b \in Blocks, NEW a, a = None \/ (a \in Blocks /\ On(a, b)), NEW r, Indexed(r, a)
    PROVE  Indexed(r, b)
<1>1. /\ SizeOf(a) \in Nat /\ SizeOf(a) <= SizeOf(b) /\ SizeOf(b) \in Nat
      /\ a # None => \A i \in 1..SizeOf(a) : Outs[b][i] = Outs[a][i]
  BY GrowsFrom, BlockOuts
<1>2. r \in Replayers /\ ~r.failed /\ r.size <= SizeOf(a) /\ r.bits \subseteq 1..r.size /\ r.size \in Nat
  BY DEF Indexed, Replayers
<1>3. r.size <= SizeOf(b) /\ r.bits \subseteq 1..SizeOf(a)
  BY <1>1, <1>2
<1>4. CASE a = None
  <2>1. r.bits = {}
    BY <1>2, <1>3, <1>4 DEF SizeOf
  <2> QED
    BY <1>2, <1>3, <2>1 DEF Indexed
<1>5. CASE a # None
  BY <1>1, <1>2, <1>3, <1>5 DEF Indexed
<1> QED
  BY <1>4, <1>5
-------------------------------------------------------------------------------
LEMMA EmptyHolds == Holds(EmptyReplayer, None)
BY DEF EmptyReplayer, Holds, Indexed, Replayers, SizeOf, LeafsetOf

LEMMA HoldsVerified ==
    ASSUME NEW b \in Blocks, NEW r, Holds(r, b)
    PROVE  VerifyBlockState(r, b)
BY BlockOuts DEF Holds, Indexed, VerifyBlockState, LeafRoot

LEMMA NoEvents ==
    ASSUME NEW b \in Blocks, NEW r, Holds(r, Parent(b)), ~HasLeafsetEvents(b)
    PROVE  Holds(r, b)
<1>1. Indexed(r, b)
  BY IndexedUp, ParentBelow DEF Holds
<1>2. SizeOf(b) = SizeOf(Parent(b))
  <2>1. PICK n \in Nat, m \in Nat : n = SizeOf(Parent(b)) /\ m = SizeOf(b) /\ n <= m
    BY BlockOuts, ParentBelow, GrowsFrom
  <2>2. Len(Outputs(b)) = m - n
    BY <2>1, OutputsType
  <2>3. Len(Outputs(b)) = 0
    BY DEF HasLeafsetEvents
  <2> QED
    BY <2>1, <2>2, <2>3
<1>3. LeafsetOf(Parent(b)) = Unspent[b]
  <2>1. LeafsetOf(Parent(b)) \ Unspent[b] = {}
    BY DEF HasLeafsetEvents, Inputs
  <2>2. Unspent[b] \subseteq LeafsetOf(Parent(b))
    BY <1>2, BlockOuts, ParentBelow, GrowsFrom
  <2> QED
    BY <2>1, <2>2
<1> QED
  BY <1>1, <1>2, <1>3, BlockOuts DEF Holds

(* A block applied to its parent's leafset makes its own.                  *)
LEMMA ApplyNext ==
    ASSUME NEW b \in Blocks, NEW r, Holds(r, Parent(b))
    PROVE  Holds(Apply(r, b), b)
<1>1. PICK s \in Seq(Output) :
        /\ s = SetToSeq(Inputs(b))
        /\ \A i, j \in 1..Len(s) : s[i] = s[j] => i = j
        /\ \A i \in 1..Len(s) : s[i] \in Inputs(b)
        /\ \A x \in Inputs(b) : \E i \in 1..Len(s) : s[i] = x
  BY InputsType, Enumerated
<1>2. PICK t, u : t = SpendAll(r, s) /\ u = AddAll(t, Outputs(b))
  OBVIOUS
<1>3. u = Apply(r, b)
  BY <1>1, <1>2, ApplyIs
<1>4. PICK n \in Nat, m \in Nat : n = SizeOf(Parent(b)) /\ m = SizeOf(b) /\ n <= m
  BY BlockOuts, ParentBelow, GrowsFrom
<1>5. /\ Indexed(r, b) /\ r.size = n /\ r.bits = LeafsetOf(Parent(b))
      /\ r.bits \subseteq 1..n /\ 0 \notin r.bits
  BY <1>4, IndexedUp, ParentBelow, InputsType DEF Holds
<1>6. \A x \in Inputs(b) : r.leaf[x] # 0 /\ r.leaf[x] \in r.bits \ Unspent[b]
  BY <1>5 DEF Inputs, Indexed
<1>7. {r.leaf[s[j]] : j \in 1..Len(s)} = r.bits \ Unspent[b]
  <2>1. ASSUME NEW i \in r.bits \ Unspent[b] PROVE \E j \in 1..Len(s) : r.leaf[s[j]] = i
    <3>1. Outs[b][i] \in Inputs(b) /\ r.leaf[Outs[b][i]] = i
      BY <1>5, <2>1 DEF Inputs, Indexed
    <3> QED
      BY <1>1, <3>1
  <2> QED
    BY <1>1, <1>6, <2>1
<1>8. Indexed(t, b) /\ t.size = n /\ t.bits = r.bits \ (r.bits \ Unspent[b])
  <2>1. \A j \in 1..Len(s) : r.leaf[s[j]] # 0
    BY <1>1, <1>6
  <2>2. ~t.failed
    BY <1>1, <1>2, <1>5, <2>1, SpendEffect
  <2>3. Indexed(t, b) /\ t.size = r.size /\ t.bits = r.bits \ {r.leaf[s[j]] : j \in 1..Len(s)}
    BY <1>1, <1>2, <1>5, <2>2, SpendEffect
  <2> QED
    BY <1>5, <1>7, <2>3
<1>9. /\ Outputs(b) \in Seq(Output) /\ Len(Outputs(b)) = m - n
      /\ \A j \in 1..Len(Outputs(b)) : Outputs(b)[j] = Outs[b][n + j]
  BY <1>4, OutputsType
<1>10. Indexed(u, b) /\ u.size = m /\ u.bits = t.bits \cup (n + 1)..m
  <2>1. t.size + Len(Outputs(b)) = m
    BY <1>4, <1>8, <1>9
  <2>2. PICK o \in Seq(Output) : o = Outputs(b)
    BY <1>9
  <2>3. t.size + Len(o) = m /\ m <= SizeOf(b) /\ \A j \in 1..Len(o) : o[j] = Outs[b][t.size + j]
    <3>1. t.size + Len(o) = m /\ m <= SizeOf(b)
      BY <1>4, <2>1, <2>2
    <3>2. t.size = n
      BY <1>8
    <3> QED
      BY <1>9, <2>2, <3>1, <3>2
  <2>4. t.bits \subseteq Unspent[b] /\ (t.size + 1)..(t.size + Len(o)) \subseteq Unspent[b]
    <3>1. t.size = n /\ t.size + Len(o) = m
      BY <1>8, <2>3
    <3> QED
      BY <1>4, <1>8, <3>1, LeafsetAssumption
  <2>5. /\ Indexed(AddAll(t, o), b) /\ AddAll(t, o).size = t.size + Len(o)
        /\ AddAll(t, o).bits = t.bits \cup (t.size + 1)..(t.size + Len(o))
    BY <1>8, <2>3, <2>4, AddEffect
  <2> QED
    BY <1>2, <1>8, <2>2, <2>3, <2>5
<1>11. u.bits = Unspent[b]
  <2>1. (n + 1)..m \subseteq Unspent[b]
    BY <1>4, LeafsetAssumption
  <2>2. Unspent[b] \subseteq 1..m /\ Unspent[b] \cap (1..n) \subseteq r.bits
    BY <1>4, <1>5, BlockOuts, ParentBelow, GrowsFrom
  <2>3. \A i \in Unspent[b] : i \in 1..n \/ i \in (n + 1)..m
    BY <1>4, <2>2
  <2> QED
    BY <1>8, <1>10, <2>1, <2>2, <2>3
<1> QED
  BY <1>3, <1>4, <1>10, <1>11, BlockOuts DEF Holds

(* Applied over a gap, a block whose leafset is then found to fit has made *)
(* it, num_txos and all.                                                   *)
LEMMA ApplyChecked ==
    ASSUME NEW b \in Blocks, NEW a, a = None \/ (a \in Blocks /\ On(a, b)), NEW r, Holds(r, a),
           VerifyBlockState(Apply(r, b), b), b \in Sized
    PROVE  Holds(Apply(r, b), b)
<1>1. PICK s \in Seq(Output) :
        /\ s = SetToSeq(Inputs(b))
        /\ \A i, j \in 1..Len(s) : s[i] = s[j] => i = j
  BY InputsType, Enumerated
<1>2. PICK t, u : t = SpendAll(r, s) /\ u = AddAll(t, Outputs(b))
  OBVIOUS
<1>3. u = Apply(r, b)
  BY <1>1, <1>2, ApplyIs
<1>4. PICK n \in Nat, m \in Nat : n = SizeOf(Parent(b)) /\ m = SizeOf(b) /\ n <= m
  BY BlockOuts, ParentBelow, GrowsFrom
<1>5. Indexed(r, b) /\ r.size = SizeOf(a)
  BY IndexedUp DEF Holds
<1>6. /\ ~t.failed => Indexed(t, b) /\ t.size = SizeOf(a)
  BY <1>1, <1>2, <1>5, SpendEffect
<1>7. /\ Outputs(b) \in Seq(Output) /\ Len(Outputs(b)) = m - n
      /\ \A j \in 1..Len(Outputs(b)) : Outputs(b)[j] = Outs[b][n + j]
  BY <1>4, OutputsType
<1>8. ~u.failed /\ u.bits = Unspent[b] /\ u.size = m
  BY <1>3, <1>4 DEF VerifyBlockState, LeafRoot
<1>9. PICK o \in Seq(Output) : o = Outputs(b)
  BY <1>7
<1>10. t \in Replayers
  BY <1>1, <1>2, <1>5, SpendEffect
<1>11. ~t.failed /\ u.size = t.size + Len(o) /\ t.bits \subseteq u.bits
  BY <1>2, <1>8, <1>9, <1>10, AddSize
<1>12. t.size = n
  <2>1. t.size \in Nat
    BY <1>10 DEF Replayers
  <2>2. PICK k \in Nat : k = t.size
    BY <2>1
  <2>3. Len(o) = m - n /\ m = k + Len(o)
    BY <1>4, <1>7, <1>8, <1>9, <1>11, <2>2
  <2>4. k = n
    BY <2>3
  <2> QED
    BY <2>2, <2>4
<1>13. Indexed(u, b)
  <2>1. t.size + Len(o) <= SizeOf(b)
    BY <1>4, <1>8, <1>11
  <2>2. \A j \in 1..Len(o) : o[j] = Outs[b][t.size + j]
    BY <1>7, <1>9, <1>12
  <2>3. t.bits \subseteq Unspent[b] /\ (t.size + 1)..(t.size + Len(o)) \subseteq Unspent[b]
    <3>1. t.size = n /\ t.size + Len(o) = m
      BY <1>8, <1>11, <1>12
    <3> QED
      BY <1>4, <1>8, <1>11, <3>1, LeafsetAssumption
  <2>4. Indexed(AddAll(t, o), b)
    BY <1>6, <1>11, <2>1, <2>2, <2>3, AddEffect
  <2> QED
    BY <1>2, <1>9, <2>4
<1> QED
  BY <1>3, <1>4, <1>8, <1>13, BlockOuts DEF Holds
-------------------------------------------------------------------------------
(* With a source that neither fails nor reorganises, every block in the    *)
(* cache, in hand or under way is the source's own at its height.          *)
AtOnSource(h, b) == OnSource(h) /\ b = Path[sourceTip][h]

FromSource ==
    /\ \A h \in ReplayHeights : cache[h] \in Blocks => AtOnSource(h, cache[h])
    /\ \A g \in Goroutines :
         \/ gpc[g] = "writing"
         \/ gpc[g] = "sending" /\ gres[g] # Failed
         => AtOnSource(gjob[g], gres[g])
    /\ \A i \in 1..Len(results) :
         results[i].block # Failed => AtOnSource(results[i].height, results[i].block)
    /\ \A p \in pending : p.block # Failed => AtOnSource(p.height, p.block)
    /\ event # 0 => AtOnSource(event, held)

(* The block the replayer stands at, or none below the activation.         *)
SourceAt(h) == IF h < 1 THEN None ELSE Path[sourceTip][h]

(* The replayer holds the leafset of the last block applied, or of the     *)
(* last one the recovery looked at, and no listed block was passed over.   *)
Applying ==
    /\ lastApplied = -1 \/ (lastApplied \in nonEmptySet /\ OnSource(lastApplied))
    /\ \A h \in ahead : lastApplied < h
    /\ \A n \in nonEmptySet : n <= lastApplied \/ n = event \/ n \in ahead
    /\ event = 0 => Holds(replayer, SourceAt(lastApplied))
    /\ event # 0 => /\ event \in nonEmptySet /\ Busy(Main) /\ lastApplied < gjob[Main]
                    /\ gjob[Main] > 1 => OnSource(gjob[Main] - 1)
                    /\ Holds(replayer, SourceAt(gjob[Main] - 1))
                    /\ \E k \in Missed(event) : k > lastApplied

(* The recovery is refused a block only below the activation. *)
GapServed == event # 0 /\ gpc[Main] = "sending" /\ gres[Main] = Failed => gjob[Main] = 0

Fitting == faults = 0 => /\ FromSource /\ GapServed
                         /\ phase = "running" /\ SizesTold => Applying

FInv == Fitting /\ RecoversMissed

LEMMA OnSourceFacts ==
    ASSUME ReplayTypeOK, NEW h, NEW b, AtOnSource(h, b)
    PROVE  /\ b \in Blocks /\ Height(b) = h /\ h \in Nat /\ h >= 1
           /\ SourceAt(h) = b /\ Parent(b) = SourceAt(h - 1)
           /\ \A k \in 1..h : /\ OnSource(k) /\ Path[b][k] = Path[sourceTip][k]
                              /\ Path[sourceTip][k] \in Blocks /\ On(Path[sourceTip][k], b)
<1>1. sourceTip \in Blocks /\ h \in 1..Height(sourceTip) /\ b = Path[sourceTip][h]
  BY DEF ReplayTypeOK, AtOnSource, OnSource
<1>2. Height(sourceTip) \in Nat
  BY <1>1, HeightType
<1>3. b \in Blocks /\ Height(b) = h /\ \A k \in 1..h : Path[b][k] = Path[sourceTip][k]
  BY <1>1, AtType
<1>4. h \in Nat /\ h >= 1 /\ SourceAt(h) = b
  BY <1>1, <1>2 DEF SourceAt
<1>5. ASSUME NEW k \in 1..h
      PROVE  OnSource(k) /\ Path[sourceTip][k] \in Blocks /\ On(Path[sourceTip][k], b)
  <2>1. k \in 1..Height(sourceTip)
    BY <1>1, <1>2, <1>4
  <2>2. Path[sourceTip][k] \in Blocks /\ Height(Path[sourceTip][k]) = k
    BY <1>1, <2>1, AtType
  <2> QED
    BY <1>3, <1>4, <2>1, <2>2 DEF OnSource, On
<1>6. Parent(b) = SourceAt(h - 1)
  <2>1. CASE h = 1
    BY <1>3, <2>1 DEF Parent, SourceAt
  <2>2. CASE h # 1
    <3>1. h - 1 \in 1..h
      BY <1>4, <2>2
    <3> QED
      BY <1>3, <1>4, <2>2, <3>1 DEF Parent, SourceAt
  <2> QED
    BY <2>1, <2>2
<1> QED
  BY <1>3, <1>4, <1>5, <1>6

(* The steps of client.block.                                              *)
LEMMA FromKept ==
    ASSUME IInv, FromSource, NEW g \in Goroutines,
           UNCHANGED <<sourceTip, gjob, results, pending, event, held>>,
           NEW c, cache' = [cache EXCEPT ![gjob[g]] = c], c \in Blocks => AtOnSource(gjob[g], c),
           NEW pc, gpc' = [gpc EXCEPT ![g] = pc],
           NEW x, gres' = [gres EXCEPT ![g] = x],
           pc = "writing" \/ (pc = "sending" /\ x # Failed) => AtOnSource(gjob[g], x)
    PROVE  FromSource'
<1>1. /\ gpc \in [Goroutines -> ClientPCs] /\ gres \in [Goroutines -> Blocks \cup {None, Failed}]
      /\ cache \in [ReplayHeights -> Blocks \cup {None, Torn}] /\ gjob[g] \in ReplayHeights
  BY DEF IInv, ReplayTypeOK
<1> QED
  BY <1>1 DEF FromSource, AtOnSource, OnSource

LEMMA ClientFrom ==
    ASSUME IInv, FromSource, NEW g \in Goroutines, ClientNext(g), faults = 0, faults' = 0
    PROVE  FromSource'
<1>1. /\ gpc \in [Goroutines -> ClientPCs] /\ gres \in [Goroutines -> Blocks \cup {None, Failed}]
      /\ cache \in [ReplayHeights -> Blocks \cup {None, Torn}] /\ gjob[g] \in ReplayHeights
  BY DEF IInv, ReplayTypeOK
<1>2. /\ cache = [cache EXCEPT ![gjob[g]] = cache[gjob[g]]]
      /\ gpc = [gpc EXCEPT ![g] = gpc[g]] /\ gres = [gres EXCEPT ![g] = gres[g]]
      /\ cache[gjob[g]] \in Blocks => AtOnSource(gjob[g], cache[gjob[g]])
      /\ Torn \notin Blocks /\ None \notin Blocks
  BY <1>1, ReplayAssumption, PathAssumption DEF FromSource
<1>3. UNCHANGED <<sourceTip, gjob, results, pending, event, held>>
  BY ClientStep DEF IInv, ClientEffect, channelVars, replayVars
<1>4. PICK c, pc, x :
        /\ cache' = [cache EXCEPT ![gjob[g]] = c] /\ (c \in Blocks => AtOnSource(gjob[g], c))
        /\ gpc' = [gpc EXCEPT ![g] = pc] /\ gres' = [gres EXCEPT ![g] = x]
        /\ pc = "writing" \/ (pc = "sending" /\ x # Failed) => AtOnSource(gjob[g], x)
  <2>1. CASE ReadCache(g)
    BY <1>1, <1>2, <2>1 DEF ReadCache, Finish
  <2>2. CASE Answered(g)
    <3>1. /\ cache' = [cache EXCEPT ![gjob[g]] = Torn] /\ gpc' = [gpc EXCEPT ![g] = "writing"]
          /\ gres' = [gres EXCEPT ![g] = Path[sourceTip][gjob[g]]] /\ OnSource(gjob[g])
      BY <2>2 DEF Answered, Received
    <3> QED
      BY <1>2, <3>1 DEF AtOnSource
  <2>3. CASE Misserved(g)
    BY <2>3 DEF Misserved
  <2>4. CASE Absent(g)
    <3>1. /\ cache' = cache /\ gpc' = [gpc EXCEPT ![g] = "sending"]
          /\ gres' = [gres EXCEPT ![g] = Failed]
      BY <2>4 DEF Absent, Finish
    <3> QED
      BY <1>2, <3>1
  <2>5. CASE Unanswered(g)
    <3>1. cache' = cache /\ gpc' = gpc /\ gres' = gres /\ gpc[g] = "asking"
      BY <2>5 DEF Unanswered
    <3> QED
      BY <1>2, <3>1
  <2>6. CASE WriteCache(g)
    <3>1. /\ cache' = [cache EXCEPT ![gjob[g]] = gres[g]] /\ gpc' = [gpc EXCEPT ![g] = "sending"]
          /\ gres' = [gres EXCEPT ![g] = gres[g]] /\ gpc[g] = "writing"
      BY <2>6 DEF WriteCache, Finish
    <3>2. AtOnSource(gjob[g], gres[g])
      BY <3>1 DEF FromSource
    <3> QED
      BY <3>1, <3>2
  <2> QED
    BY <2>1, <2>2, <2>3, <2>4, <2>5, <2>6 DEF ClientNext
<1> QED
  BY <1>3, <1>4, FromKept

LEMMA ExplainedKept ==
    ASSUME RecoversMissed, UNCHANGED <<sourceTip, phase, err, checkpointSet, nonEmptySet>>,
           faults \in Nat, faults' \in Nat, faults' >= faults
    PROVE  RecoversMissed'
BY DEF RecoversMissed, Missed, SizesTold, OnSource

LEMMA ApplyingKept ==
    ASSUME Applying, Busy(Main) => Busy(Main)',
           UNCHANGED <<sourceTip, nonEmptySet, ahead, event, replayer, lastApplied>>,
           gjob'[Main] = gjob[Main]
    PROVE  Applying'
BY DEF Applying, OnSource, SourceAt, Missed

(* A block of the gap is on the source, as the one above it is; the source  *)
(* lacks only what is below the activation.                                 *)
LEMMA GapKept ==
    ASSUME IInv, FromSource, GapServed, NEW g \in Goroutines, ClientNext(g),
           faults = 0, faults' = 0
    PROVE  GapServed'
<1>1. /\ UNCHANGED <<sourceTip, gjob, event>>
      /\ \A k \in Goroutines \ {g} : gpc'[k] = gpc[k] /\ gres'[k] = gres[k]
  <2>1. ClientEffect(g) /\ gpc \in [Goroutines -> ClientPCs]
        /\ gres \in [Goroutines -> Blocks \cup {None, Failed}]
    BY ClientStep DEF IInv, ReplayTypeOK
  <2>2. UNCHANGED <<sourceTip, gjob, event>>
    BY <2>1 DEF ClientEffect, replayVars
  <2>3. PICK pc, res : gpc' = [gpc EXCEPT ![g] = pc] /\ gres' = [gres EXCEPT ![g] = res]
    BY <2>1 DEF ClientEffect
  <2> QED
    BY <2>1, <2>2, <2>3
<1>2. CASE g # Main
  BY <1>1, <1>2, MainType DEF GapServed
<1>3. CASE g = Main
  <2>1. SUFFICES ASSUME event # 0, gpc'[Main] = "sending", gres'[Main] = Failed
                 PROVE  gjob[Main] = 0
    BY <1>1 DEF GapServed
  <2>2. /\ gpc \in [Goroutines -> ClientPCs] /\ gres \in [Goroutines -> Blocks \cup {None, Failed}]
        /\ gjob[Main] \in Nat /\ event \in Nat /\ Main \in Goroutines
    BY MainType, HeightsType DEF IInv, ReplayTypeOK
  <2>3. Busy(Main) /\ ~OnSource(gjob[Main])
    <3>1. CASE Absent(Main)
      BY <3>1 DEF Absent, Busy
    <3>2. CASE ReadCache(Main) \/ WriteCache(Main)
      <4>1. gres'[Main] \in Blocks
        BY <2>1, <2>2, <3>2 DEF ReadCache, WriteCache, Finish, IInv, InHand
      <4> QED
        BY <2>1, <4>1, ReplayAssumption
    <3>3. CASE Answered(Main) \/ Misserved(Main) \/ Unanswered(Main)
      BY <2>1, <2>2, <3>3 DEF Answered, Misserved, Unanswered, Received
    <3> QED
      BY <1>3, <3>1, <3>2, <3>3 DEF ClientNext
  <2>4. gjob[Main] < event /\ OnSource(event)
    BY <2>1, <2>3 DEF IInv, GapBelow, FromSource, AtOnSource
  <2>5. Height(sourceTip) \in Nat
    BY HeightType DEF IInv, ReplayTypeOK
  <2> QED
    BY <2>2, <2>3, <2>4, <2>5 DEF OnSource
<1> QED
  BY <1>2, <1>3

LEMMA ClientFits ==
    ASSUME IInv, FInv, NEW g \in Goroutines, ClientNext(g)
    PROVE  FInv'
<1>1. ClientEffect(g) /\ faults \in Nat /\ gpc \in [Goroutines -> ClientPCs]
  BY ClientStep DEF IInv, ReplayTypeOK
<1>2. /\ UNCHANGED <<sourceTip, checkpointSet, nonEmptySet, gjob>>
      /\ UNCHANGED <<phase, err, ahead, event, replayer, lastApplied>>
      /\ faults' \in Nat /\ Busy(g)'
      /\ \A k \in Goroutines \ {g} : gpc'[k] = gpc[k]
  BY <1>1 DEF ClientEffect, argVars, replayVars, Busy
<1>3. faults' >= faults
  BY <1>1 DEF ClientNext, ReadCache, Answered, Misserved, Absent, Unanswered, WriteCache, sourceVars
<1>4. Busy(Main) => Busy(Main)'
  BY <1>2, MainType DEF Busy
<1>5. Fitting'
  <2> SUFFICES ASSUME faults' = 0
               PROVE  FromSource' /\ GapServed' /\ (phase' = "running" /\ SizesTold' => Applying')
    BY DEF Fitting
  <2>1. faults = 0
    BY <1>1, <1>2, <1>3
  <2>2. FromSource' /\ GapServed'
    BY <2>1, ClientFrom, GapKept DEF FInv, Fitting
  <2>3. SizesTold' => SizesTold
    BY <1>2 DEF SizesTold, OnSource
  <2> QED
    BY <1>2, <1>4, <2>1, <2>2, <2>3, ApplyingKept DEF FInv, Fitting
<1> QED
  BY <1>1, <1>2, <1>3, <1>5, ExplainedKept DEF FInv

(* Over a stretch of blocks without events the leafset stays what it is.   *)
LEMMA QuietGap ==
    ASSUME ReplayTypeOK, NEW h, NEW b, AtOnSource(h, b), NEW r, NEW l \in Nat, l <= h,
           Holds(r, SourceAt(l)),
           \A k \in 1..h : k > l => ~HasLeafsetEvents(Path[sourceTip][k])
    PROVE  Holds(r, b)
<1> DEFINE S == {k \in 0..h : k < l \/ Holds(r, SourceAt(k))}
<1>1. h \in Nat /\ h >= 1 /\ SourceAt(h) = b
  BY OnSourceFacts
<1>2. 0 \in S
  BY <1>1
<1>3. ASSUME NEW i \in 0..(h - 1), i \in S PROVE i + 1 \in S
  <2>1. i + 1 \in 1..h /\ i \in Nat
    BY <1>1, <1>3
  <2>2. CASE i + 1 < l
    BY <1>1, <2>1, <2>2
  <2>3. CASE i + 1 = l
    BY <1>1, <2>1, <2>3
  <2>4. CASE i + 1 > l
    <3>1. Holds(r, SourceAt(i)) /\ ~HasLeafsetEvents(Path[sourceTip][i + 1])
      BY <1>1, <1>3, <2>1, <2>4
    <3>2. PICK c \in Blocks : c = Path[sourceTip][i + 1] /\ AtOnSource(i + 1, c)
      BY <2>1, OnSourceFacts DEF AtOnSource
    <3>3. SourceAt(i + 1) = c /\ Parent(c) = SourceAt(i)
      <4>1. SourceAt(i + 1) = c /\ Parent(c) = SourceAt((i + 1) - 1)
        BY <3>2, OnSourceFacts
      <4>2. (i + 1) - 1 = i
        BY <2>1
      <4> QED
        BY <4>1, <4>2
    <3>4. Holds(r, c)
      BY <3>1, <3>2, <3>3, NoEvents
    <3> QED
      BY <2>1, <1>1, <3>3, <3>4
  <2> QED
    BY <2>1, <2>2, <2>3, <2>4
<1>4. h \in S
  <2> HIDE DEF S
  <2>1. \A i \in 0..h : i \in S
    BY <1>1, <1>2, <1>3, Upto
  <2> QED
    BY <1>1, <2>1
<1> QED
  BY <1>1, <1>4

(* What the replayer stands at is below the block it is given.             *)
LEMMA StandsBelow ==
    ASSUME ReplayTypeOK, NEW h, NEW b, AtOnSource(h, b), NEW l \in Int, l < h
    PROVE  \/ SourceAt(l) = None
           \/ SourceAt(l) \in Blocks /\ On(SourceAt(l), b)
<1>1. h \in Nat
  BY OnSourceFacts
<1>2. CASE l < 1
  BY <1>2 DEF SourceAt
<1>3. CASE l >= 1
  <2>1. l \in 1..h
    BY <1>1, <1>3
  <2> QED
    BY <2>1, <1>3, OnSourceFacts DEF SourceAt
<1> QED
  BY <1>2, <1>3

(* Steps of the caller's goroutine that leave what it fetches unread.      *)
LEMMA MainFrom ==
    ASSUME IInv, FromSource, UNCHANGED <<sourceTip, cache>>,
           results' \in Seq(Result), Len(results') \in Nat,
           \A i \in 1..Len(results') : \E j \in 1..Len(results) : results'[i] = results[j],
           \A p \in pending' : p \in pending \/ \E j \in 1..Len(results) : p = results[j],
           event' # 0 => AtOnSource(event', held'),
           \A f \in Fetchers : gpc'[f] = gpc[f] /\ gjob'[f] = gjob[f] /\ gres'[f] = gres[f],
           \/ gpc'[Main] \notin {"writing", "sending"}
           \/ gpc'[Main] = gpc[Main] /\ gjob'[Main] = gjob[Main] /\ gres'[Main] = gres[Main]
    PROVE  FromSource'
<1>3. \A h \in ReplayHeights : cache'[h] \in Blocks => AtOnSource(h, cache[h])'
  BY DEF FromSource, AtOnSource, OnSource
<1>4. ASSUME NEW g \in Goroutines,
             gpc'[g] = "writing" \/ (gpc'[g] = "sending" /\ gres'[g] # Failed)
      PROVE  AtOnSource(gjob[g], gres[g])'
  BY <1>4 DEF FromSource, AtOnSource, OnSource, Goroutines
<1>5. ASSUME NEW i \in 1..Len(results'), results'[i].block # Failed
      PROVE  AtOnSource(results[i].height, results[i].block)'
  <2>1. PICK j \in 1..Len(results) : results'[i] = results[j]
    OBVIOUS
  <2> QED
    BY <1>5, <2>1 DEF FromSource, AtOnSource, OnSource
<1>6. ASSUME NEW p \in pending', p.block # Failed
      PROVE  AtOnSource(p.height, p.block)'
  <2>1. AtOnSource(p.height, p.block)
    <3>1. CASE p \in pending
      BY <1>6, <3>1 DEF FromSource
    <3>2. CASE \E j \in 1..Len(results) : p = results[j]
      BY <1>6, <3>2 DEF FromSource
    <3> QED
      BY <3>1, <3>2
  <2> QED
    BY <2>1 DEF AtOnSource, OnSource
<1>7. event' # 0 => AtOnSource(event, held)'
  BY DEF AtOnSource, OnSource
<1> QED
  BY <1>3, <1>4, <1>5, <1>6, <1>7 DEF FromSource

(* A block listed as having events fits when all below it were applied.    *)
LEMMA NextFits ==
    ASSUME ReplayTypeOK, NEW h, NEW b, AtOnSource(h, b), NEW r, Holds(r, SourceAt(h - 1))
    PROVE  /\ Applied(r, h, b) = Apply(r, b) /\ Holds(Applied(r, h, b), b)
           /\ VerifyBlockState(Applied(r, h, b), b)
<1>1. b \in Blocks /\ Height(b) = h /\ Parent(b) = SourceAt(h - 1)
  BY OnSourceFacts
<1>2. Applied(r, h, b) = Apply(r, b)
  BY <1>1 DEF Applied
<1> QED
  BY <1>1, <1>2, ApplyNext, HoldsVerified

(* Nor does a listed one fail at a height all below which was listed.      *)
LEMMA NoMismatch ==
    ASSUME IInv, Applying, event = 0, NEW h \in Nat, NEW b, AtOnSource(h, b),
           lastApplied < h, lastApplied + 1 > h - 1
    PROVE  VerifyBlockState(Applied(replayer, h, b), b)
<1>1. lastApplied \in Int /\ h >= 1 /\ nonEmptySet \subseteq Nat
  BY OnSourceFacts, HeightsType DEF IInv, ReplayTypeOK
<1>2. lastApplied = h - 1
  BY <1>1
<1>3. Holds(replayer, SourceAt(h - 1))
  BY <1>2 DEF Applying
<1> QED
  BY <1>3, NextFits DEF IInv

(* What is not recovered: an unlisted checkpoint height, with a block that *)
(* has events below it and no listed one between.                          *)
LEMMA Unrecovered ==
    ASSUME IInv, Applying, event = 0, NEW h \in ahead, \A k \in ahead : h <= k,
           h \notin nonEmptySet, NEW b, AtOnSource(h, b), ~VerifyBlockState(replayer, b)
    PROVE  /\ h \in checkpointSet
           /\ \E k \in Missed(h) : \A n \in nonEmptySet : n < k \/ n > h
<1>1. /\ lastApplied \in Int /\ lastApplied >= -1 /\ nonEmptySet \subseteq Heights
      /\ ahead \subseteq EventHeights /\ ReplayTypeOK
  BY DEF IInv, ReplayTypeOK
<1>2. /\ ahead \subseteq Nat /\ Heights \subseteq Nat /\ \A n \in nonEmptySet : n \in Nat /\ n >= 1
  BY <1>1, HeightsType, AheadType DEF Heights
<1>3. h \in Nat /\ h >= 1 /\ b \in Blocks
  BY <1>1, OnSourceFacts
<1>4. h \in checkpointSet
  BY <1>1 DEF EventHeights
<1>5. \A n \in nonEmptySet : n <= lastApplied \/ n > h
  BY <1>1, <1>2, <1>3 DEF Applying
<1>6. PICK l \in Nat : /\ l < h /\ Holds(replayer, SourceAt(l))
                       /\ \A k \in 1..h : k > l => k > lastApplied
  <2>1. lastApplied < h /\ Holds(replayer, SourceAt(lastApplied))
    BY DEF Applying
  <2>2. CASE lastApplied >= 0
    BY <1>1, <2>1, <2>2
  <2>3. CASE lastApplied < 0
    <3>1. SourceAt(lastApplied) = SourceAt(0)
      BY <1>1, <2>3 DEF SourceAt
    <3>2. \A k \in 1..h : k > 0 => k > lastApplied
      BY <1>1, <2>3
    <3> QED
      BY <1>3, <2>1, <3>1, <3>2
  <2> QED
    BY <1>1, <2>2, <2>3
<1>7. PICK k \in 1..h : k > l /\ HasLeafsetEvents(Path[sourceTip][k])
  <2>1. SUFFICES ASSUME \A k \in 1..h : k > l => ~HasLeafsetEvents(Path[sourceTip][k])
                 PROVE  FALSE
    OBVIOUS
  <2>2. Holds(replayer, b)
    BY <1>1, <1>3, <1>6, <2>1, QuietGap
  <2> QED
    BY <1>3, <2>2, HoldsVerified
<1>8. k > lastApplied /\ k <= h /\ k \in Nat
  BY <1>3, <1>6, <1>7
<1>9. k \notin nonEmptySet
  BY <1>1, <1>3, <1>5, <1>8
<1>10. OnSource(k)
  BY <1>1, OnSourceFacts
<1>11. k \in Missed(h)
  BY <1>7, <1>9, <1>10 DEF Missed
<1>12. \A n \in nonEmptySet : n < k \/ n > h
  BY <1>1, <1>2, <1>3, <1>5, <1>8
<1> QED
  BY <1>4, <1>11, <1>12

(* A listed block that does not fit has one with events below it, left out. *)
LEMMA LeftOut ==
    ASSUME IInv, Applying, event = 0, NEW h \in ahead, \A k \in ahead : h <= k,
           NEW b, AtOnSource(h, b), lastApplied < h,
           ~VerifyBlockState(Applied(replayer, h, b), b)
    PROVE  \E k \in Missed(h) : k > lastApplied
<1>1. /\ lastApplied \in Int /\ lastApplied >= -1 /\ ReplayTypeOK /\ h \in Nat /\ h >= 1
      /\ \A n \in nonEmptySet : n \in Nat /\ n >= 1
  BY OnSourceFacts, HeightsType DEF IInv, ReplayTypeOK, Heights
<1>2. Holds(replayer, SourceAt(lastApplied))
  BY DEF Applying
<1>3. \A n \in nonEmptySet : n <= lastApplied \/ n >= h
  BY <1>1 DEF Applying
<1>4. PICK l \in Nat : /\ l < h /\ Holds(replayer, SourceAt(l))
                       /\ \A k \in 1..h : k > l => k > lastApplied
  <2>1. CASE lastApplied >= 0
    BY <1>1, <1>2, <2>1
  <2>2. CASE lastApplied < 0
    <3>1. SourceAt(lastApplied) = SourceAt(0)
      BY <1>1, <2>2 DEF SourceAt
    <3>2. \A k \in 1..h : k > 0 => k > lastApplied
      BY <1>1, <2>2
    <3> QED
      BY <1>1, <1>2, <3>1, <3>2
  <2> QED
    BY <1>1, <2>1, <2>2
<1>5. PICK k \in 1..(h - 1) : k > l /\ HasLeafsetEvents(Path[sourceTip][k])
  <2>1. SUFFICES ASSUME \A k \in 1..(h - 1) : k > l => ~HasLeafsetEvents(Path[sourceTip][k])
                 PROVE  FALSE
    OBVIOUS
  <2>2. Holds(replayer, SourceAt(h - 1))
    <3>1. CASE h = 1
      <4>1. l = h - 1
        BY <1>1, <1>4, <3>1
      <4> QED
        BY <1>4, <4>1
    <3>2. CASE h # 1
      <4>1. h - 1 \in 1..h /\ l <= h - 1
        BY <1>1, <1>4, <3>2
      <4>2. PICK c : c = Path[sourceTip][h - 1] /\ AtOnSource(h - 1, c)
        BY <1>1, <4>1, OnSourceFacts DEF AtOnSource
      <4>3. SourceAt(h - 1) = c
        BY <1>1, <4>2, OnSourceFacts
      <4> QED
        BY <1>1, <1>4, <2>1, <4>1, <4>2, <4>3, QuietGap
    <3> QED
      BY <3>1, <3>2
  <2> QED
    BY <1>1, <2>2, NextFits
<1>6. k \in 1..h /\ k < h /\ k > lastApplied
  BY <1>1, <1>4, <1>5
<1>7. k \notin nonEmptySet
  BY <1>1, <1>3, <1>6
<1>8. OnSource(k)
  BY <1>1, <1>6, OnSourceFacts
<1>9. k \in Missed(h)
  BY <1>5, <1>6, <1>7, <1>8 DEF Missed
<1> QED
  BY <1>6, <1>9

(* A listed block whose leafset is found to fit has been made right.       *)
LEMMA ListedFits ==
    ASSUME IInv, Applying, event = 0, SizesTold, NEW h \in nonEmptySet, NEW b, AtOnSource(h, b),
           lastApplied < h, VerifyBlockState(Applied(replayer, h, b), b)
    PROVE  Holds(Applied(replayer, h, b), SourceAt(h))
<1>1. lastApplied \in Int /\ ReplayTypeOK
  BY DEF IInv, ReplayTypeOK
<1>2. b \in Blocks /\ Height(b) = h /\ SourceAt(h) = b
  BY <1>1, OnSourceFacts
<1>3. PICK a : a = SourceAt(lastApplied) /\ (a = None \/ (a \in Blocks /\ On(a, b)))
  BY <1>1, StandsBelow
<1>4. Applied(replayer, h, b) = Apply(replayer, b)
  BY <1>2 DEF Applied
<1>5. b \in Sized
  BY DEF SizesTold, AtOnSource
<1> QED
  BY <1>2, <1>3, <1>4, <1>5, ApplyChecked DEF Applying

LEMMA ProcessFits ==
    ASSUME IInv, FInv, Waiting, NEW h \in ahead, \A k \in ahead : h <= k,
           NEW res \in Blocks \cup {Failed}, Process(h, res),
           faults = 0 /\ res # Failed => AtOnSource(h, res),
           UNCHANGED <<sourceVars, cache, argVars>>,
           results' \in Seq(Result), Len(results') \in Nat,
           \A i \in 1..Len(results') : \E j \in 1..Len(results) : results'[i] = results[j],
           \A p \in pending' : p \in pending \/ \E j \in 1..Len(results) : p = results[j]
    PROVE  FInv'
<1>1. /\ ahead' = ahead \ {h} /\ ahead \subseteq Nat /\ h \in Nat
      /\ phase = "running" /\ event = 0
  BY AheadType DEF IInv, Process, Waiting
<1>2. /\ phase = "running" /\ event = 0 /\ ahead' = ahead \ {h} /\ ahead \subseteq Nat /\ h \in Nat
      /\ ReplayTypeOK /\ lastApplied \in Int /\ lastApplied >= -1
      /\ nonEmptySet \subseteq Nat /\ 0 \notin nonEmptySet
  BY AheadType, HeightsType DEF IInv, Process, Waiting, ReplayTypeOK, Heights
<1>3. UNCHANGED <<sourceTip, faults, cache, checkpointSet, nonEmptySet>>
  BY DEF sourceVars, argVars
<1>4. PICK r : r = Applied(replayer, h, res)
  OBVIOUS
<1>5. \/ Fail("fetch")
      \/ Fail("mismatch")
      \/ Keep(h, res, r) /\ UNCHANGED clientVars
      \/ Keep(h, res, replayer) /\ UNCHANGED clientVars
      \/ res # Failed /\ RecoverGap(h, res)
  BY <1>4 DEF Process, ApplyEvent, CheckEmpty
<1>6. ASSUME faults = 0 PROVE FromSource'
  <2>1. /\ event' # 0 => AtOnSource(event', held')
        /\ \A f \in Fetchers : gpc'[f] = gpc[f] /\ gjob'[f] = gjob[f] /\ gres'[f] = gres[f]
        /\ \/ gpc'[Main] \notin {"writing", "sending"}
           \/ gpc'[Main] = gpc[Main] /\ gjob'[Main] = gjob[Main] /\ gres'[Main] = gres[Main]
    <3>1. CASE event' = 0 /\ UNCHANGED <<gpc, gjob, gres>>
      BY <3>1
    <3>2. CASE res # Failed /\ RecoverGap(h, res)
      <4>1. /\ gpc \in [Goroutines -> ClientPCs]
            /\ gpc' = [gpc EXCEPT ![Main] = "reading"]
            /\ gjob' = [gjob EXCEPT ![Main] = lastApplied + 1]
            /\ gres' = [gres EXCEPT ![Main] = None] /\ event' = h /\ held' = res
        BY <3>2 DEF RecoverGap, RecoverFrom, FetchGap, IInv, ReplayTypeOK
      <4> QED
        BY <4>1, <1>6, <3>2, MainType DEF IInv, ReplayTypeOK
    <3>3. CASE Fail("fetch") \/ Fail("mismatch")
      BY <1>2, <3>1, <3>3 DEF Fail, clientVars
    <3>4. ASSUME NEW q, Keep(h, res, q), UNCHANGED clientVars
          PROVE  event' = 0 /\ UNCHANGED <<gpc, gjob, gres>>
      BY <3>4 DEF Keep, clientVars
    <3> QED
      BY <1>5, <3>1, <3>2, <3>3, <3>4
  <2> QED
    BY <1>3, <1>6, <2>1, MainFrom DEF FInv, Fitting
<1>7. SizesTold' <=> SizesTold
  BY <1>3 DEF SizesTold, OnSource
<1>8. \A k : SourceAt(k)' = SourceAt(k)
  BY <1>3 DEF SourceAt
<1>9. \A k : OnSource(k)' <=> OnSource(k)
  BY <1>3 DEF OnSource
<1>10. ASSUME faults = 0, SizesTold, res # Failed
       PROVE  Applying /\ AtOnSource(h, res) /\ lastApplied < h /\ OnSource(h) /\ h >= 1
  BY <1>2, <1>10, OnSourceFacts DEF FInv, Fitting, Applying, AtOnSource
<1>11. \A k \in ahead' : h < k
  BY <1>2
<1>12. ASSUME faults = 0, SizesTold, phase' = "running" PROVE Applying'
  <2>1. CASE res # Failed /\ h \in nonEmptySet /\ ApplyEvent(h, res)
    <3>1. CASE VerifyBlockState(r, res) /\ Keep(h, res, r) /\ lastApplied' = h
      <4>1. Holds(r, SourceAt(h))
        BY <1>2, <1>4, <1>10, <1>12, <2>1, <3>1, ListedFits
      <4>2. replayer' = r /\ event' = 0 /\ lastApplied' = h
        BY <3>1 DEF Keep
      <4>3. ASSUME NEW n \in nonEmptySet PROVE n <= h \/ n \in ahead'
        <5>1. lastApplied \in Int /\ h \in Nat /\ n \in Nat /\ lastApplied < h /\ event = 0
          BY <1>2, <1>10, <1>12, <2>1
        <5>2. n <= lastApplied \/ n = event \/ n \in ahead
          BY <1>10, <1>12, <2>1 DEF Applying
        <5>3. n <= lastApplied => n <= h
          BY <5>1
        <5> QED
          BY <1>2, <5>1, <5>2, <5>3
      <4> QED
        BY <1>3, <1>8, <1>9, <1>10, <1>11, <1>12, <2>1, <4>1, <4>2, <4>3 DEF Applying
    <3>2. CASE lastApplied + 1 <= h - 1 /\ RecoverGap(h, res)
      <4>1. /\ event' = h /\ replayer' = replayer /\ lastApplied' = lastApplied
            /\ gpc' = [gpc EXCEPT ![Main] = "reading"]
            /\ gjob' = [gjob EXCEPT ![Main] = lastApplied + 1]
            /\ gpc \in [Goroutines -> ClientPCs] /\ gjob \in [Goroutines -> ReplayHeights]
        BY <3>2 DEF RecoverGap, RecoverFrom, FetchGap, IInv, ReplayTypeOK
      <4>2. Busy(Main)' /\ gjob'[Main] = lastApplied + 1
        BY <4>1, MainType DEF Busy
      <4>3. PICK l \in Int : l = lastApplied
        BY <1>2
      <4>4. (l + 1) - 1 = l /\ l < l + 1
        OBVIOUS
      <4>5. lastApplied + 1 > 1 => OnSource(lastApplied)
        BY <1>2, <1>10, <1>12, <2>1 DEF Applying
      <4>6. /\ lastApplied' < gjob'[Main] /\ (gjob'[Main] > 1 => OnSource(gjob'[Main] - 1))
            /\ Holds(replayer', SourceAt(gjob'[Main] - 1))
        BY <1>2, <1>10, <1>12, <2>1, <4>1, <4>2, <4>3, <4>4, <4>5 DEF Applying
      <4>7. \A n \in nonEmptySet : n <= lastApplied \/ n = h \/ n \in ahead'
        BY <1>2, <1>10, <1>12, <2>1 DEF Applying
      <4>8. \A k \in ahead' : lastApplied < k
        BY <1>2, <1>10, <1>12, <2>1 DEF Applying
      <4>9. lastApplied = -1 \/ (lastApplied \in nonEmptySet /\ OnSource(lastApplied))
        BY <1>10, <1>12, <2>1 DEF Applying
      <4>10. h # 0
        BY <1>10, <1>12, <2>1
      <4>11. ~VerifyBlockState(r, res)
        BY <1>4, <1>12, <2>1, <4>1, <4>10 DEF ApplyEvent, Keep, Fail
      <4>12. \E k \in Missed(h) : k > lastApplied
        BY <1>2, <1>4, <1>10, <1>12, <2>1, <4>11, LeftOut
      <4>13. Missed(h)' = Missed(h)
        BY <1>3, <1>9 DEF Missed
      <4> QED
        BY <1>3, <1>8, <1>9, <2>1, <4>1, <4>2, <4>6, <4>7, <4>8, <4>9, <4>10, <4>12, <4>13 DEF Applying
    <3>3. CASE Fail("mismatch")
      BY <1>12, <3>3 DEF Fail
    <3> QED
      BY <1>4, <2>1, <3>1, <3>2, <3>3 DEF ApplyEvent
  <2>2. CASE res # Failed /\ h \notin nonEmptySet /\ CheckEmpty(h, res)
    <3>1. CASE Keep(h, res, replayer) /\ lastApplied' = lastApplied
      <4>1. replayer' = replayer /\ event' = 0 /\ lastApplied' = lastApplied
        BY <3>1 DEF Keep
      <4>2. \A n \in nonEmptySet : n <= lastApplied \/ n \in ahead'
        BY <1>2, <1>10, <1>12, <2>2 DEF Applying
      <4> QED
        BY <1>2, <1>3, <1>8, <1>9, <1>10, <1>12, <2>2, <4>1, <4>2 DEF Applying
    <3> QED
      BY <1>12, <2>2, <3>1 DEF CheckEmpty, Fail
  <2> QED
    BY <1>12, <2>1, <2>2 DEF Process, Fail
<1>13. Fitting'
  <2>1. GapServed'
    <3>1. CASE RecoverGap(h, res)
      <4>1. gpc' = [gpc EXCEPT ![Main] = "reading"] /\ gpc \in [Goroutines -> ClientPCs]
        BY <3>1 DEF RecoverGap, RecoverFrom, FetchGap, IInv, ReplayTypeOK
      <4> QED
        BY <4>1, MainType DEF GapServed
    <3>2. CASE event' = 0
      BY <3>2 DEF GapServed
    <3> QED
      BY <1>2, <1>5, <3>1, <3>2 DEF Fail, Keep
  <2> QED
    BY <1>3, <1>6, <1>7, <1>12, <2>1 DEF Fitting
<1>14. RecoversMissed'
  <2>0. err' # "gap" \/ phase' # "failed"
    BY <1>2, <1>5 DEF Fail, Keep, RecoverGap, RecoverFrom
  <2>1. SUFFICES ASSUME phase' = "failed", err' = "mismatch", faults = 0, SizesTold
                 PROVE  \E k \in checkpointSet \ nonEmptySet :
                          \E m \in Missed(k) : \A n \in nonEmptySet : n < m \/ n > k
    BY <1>3, <1>7, <2>0 DEF RecoversMissed, Missed, OnSource
  <2>2. CASE res # Failed /\ h \in nonEmptySet /\ ApplyEvent(h, res)
    <3>1. ~VerifyBlockState(r, res) /\ lastApplied + 1 > h - 1
      BY <1>2, <1>4, <2>1, <2>2 DEF ApplyEvent, Keep, RecoverGap, RecoverFrom
    <3> QED
      BY <1>2, <1>4, <1>10, <2>1, <2>2, <3>1, NoMismatch
  <2>3. CASE res # Failed /\ h \notin nonEmptySet /\ CheckEmpty(h, res)
    <3>1. ~VerifyBlockState(replayer, res)
      BY <2>1, <2>3 DEF CheckEmpty, Keep
    <3> QED
      BY <1>2, <1>10, <2>1, <2>3, <3>1, Unrecovered
  <2> QED
    BY <2>1, <2>2, <2>3 DEF Process, Fail
<1> QED
  BY <1>13, <1>14 DEF FInv

LEMMA TakePendingFits == ASSUME IInv, FInv, TakePending PROVE FInv'
<1>1. PICK p \in Early : Process(p.height, p.block) /\ pending' = pending \ {p}
  BY DEF TakePending
<1>2. PICK h \in ahead : h = p.height /\ \A k \in ahead : h <= k
  BY <1>1, WaitingLowest DEF Early, TakePending
<1>3. PICK b \in Blocks \cup {Failed} : b = p.block
  BY <1>1 DEF Early, IInv, ReplayTypeOK, Result
<1>4. Waiting /\ UNCHANGED <<sourceVars, kills, cache, argVars, todo, results>>
  BY DEF TakePending
<1>5. faults = 0 /\ b # Failed => AtOnSource(h, b)
  BY <1>1, <1>2, <1>3 DEF Early, FInv, Fitting, FromSource
<1>6. results' \in Seq(Result) /\ Len(results') \in Nat
  BY <1>4 DEF IInv, ReplayTypeOK
<1>7. /\ \A i \in 1..Len(results') : \E j \in 1..Len(results) : results'[i] = results[j]
      /\ \A q \in pending' : q \in pending \/ \E j \in 1..Len(results) : q = results[j]
  BY <1>1, <1>4
<1> QED
  BY <1>1, <1>2, <1>3, <1>4, <1>5, <1>6, <1>7, ProcessFits

(* Steps that leave the replay alone.                                      *)
LEMMA Aside ==
    ASSUME IInv, FInv, faults = 0 => FromSource',
           UNCHANGED <<sourceTip, faults, argVars, replayVars>>,
           gpc'[Main] = gpc[Main], gjob'[Main] = gjob[Main], gres'[Main] = gres[Main]
    PROVE  FInv'
<1>1. /\ UNCHANGED <<sourceTip, checkpointSet, nonEmptySet, phase, err>>
      /\ UNCHANGED <<ahead, event, replayer, lastApplied, faults>>
      /\ faults \in Nat
  BY DEF argVars, replayVars, IInv, ReplayTypeOK
<1>2. SizesTold' => SizesTold
  BY <1>1 DEF SizesTold, OnSource
<1>3. GapServed => GapServed'
  BY <1>1 DEF GapServed
<1>4. Applying => Applying'
  BY <1>1, ApplyingKept DEF Busy
<1>5. Fitting'
  BY <1>1, <1>2, <1>3, <1>4 DEF FInv, Fitting
<1> QED
  BY <1>1, <1>5, ExplainedKept DEF FInv

LEMMA TakeResultFits == ASSUME IInv, FInv, TakeResult PROVE FInv'
<1>1. /\ Waiting /\ results # <<>> /\ results' = Tail(results)
      /\ UNCHANGED <<sourceVars, kills, cache, argVars, todo>>
      /\ results \in Seq(Result) /\ pending \subseteq Result
  BY DEF TakeResult, IInv, ReplayTypeOK
<1>2. PICK p \in Result : p = Head(results)
  BY <1>1, OneLess
<1>3. /\ p = results[1] /\ 1 \in 1..Len(results) /\ results' \in Seq(Result)
      /\ Len(results') \in Nat
      /\ \A i \in 1..Len(results') : i + 1 \in 1..Len(results) /\ results'[i] = results[i + 1]
  BY <1>1, <1>2, OneLess
<1>4. PICK h \in ReplayHeights, b \in Blocks \cup {Failed} : h = p.height /\ b = p.block
  BY DEF Result
<1>5. /\ \A i \in 1..Len(results') : \E j \in 1..Len(results) : results'[i] = results[j]
      /\ \E j \in 1..Len(results) : p = results[j]
  BY <1>3
<1>6. CASE Process(h, b) /\ h = Lowest(ahead) /\ pending' = pending
  <2>1. faults = 0 /\ b # Failed => AtOnSource(h, b)
    BY <1>3, <1>4 DEF FInv, Fitting, FromSource
  <2>2. h \in ahead /\ \A k \in ahead : h <= k
    BY <1>1, <1>6, WaitingLowest
  <2>3. \A q \in pending' : q \in pending \/ \E j \in 1..Len(results) : q = results[j]
    BY <1>6
  <2> QED
    BY <1>1, <1>3, <1>5, <1>6, <2>1, <2>2, <2>3, ProcessFits
<1>7. CASE pending' = pending \cup {p} /\ UNCHANGED <<replayVars, clientVars>>
  <2>1. /\ UNCHANGED <<sourceTip, faults, cache, argVars, replayVars, gpc, gjob, gres>>
        /\ UNCHANGED <<event, held>>
    BY <1>1, <1>7 DEF replayVars, clientVars, sourceVars
  <2>2. \A q \in pending' : q \in pending \/ \E j \in 1..Len(results) : q = results[j]
    BY <1>5, <1>7
  <2>3. faults = 0 => FromSource'
    <3>1. faults = 0 => (event' # 0 => AtOnSource(event', held'))
      BY <2>1 DEF FInv, Fitting, FromSource
    <3> QED
      BY <1>3, <1>5, <2>1, <2>2, <3>1, MainFrom DEF FInv, Fitting
  <2> QED
    BY <2>1, <2>3, Aside
<1> QED
  BY <1>2, <1>4, <1>6, <1>7 DEF TakeResult

LEMMA TakeJobFits ==
    ASSUME IInv, FInv, NEW f \in Fetchers, TakeJob(f)
    PROVE  FInv'
<1>1. f \in Goroutines /\ f # Main /\ gpc \in [Goroutines -> ClientPCs]
      /\ gjob \in [Goroutines -> ReplayHeights]
  BY MainType DEF IInv, ReplayTypeOK
<1>2. PICK h : gjob' = [gjob EXCEPT ![f] = h]
  BY DEF TakeJob, TakeJobLeaving
<1>3. /\ gpc' = [gpc EXCEPT ![f] = "reading"] /\ gres' = gres
      /\ UNCHANGED <<sourceTip, faults, cache, argVars, results, pending, replayVars>>
      /\ UNCHANGED <<event, held>>
  BY DEF TakeJob, TakeJobLeaving, sourceVars, replayVars
<1>4. faults = 0 => FromSource'
  BY <1>1, <1>2, <1>3 DEF FInv, Fitting, FromSource, AtOnSource, OnSource
<1>5. gjob'[Main] = gjob[Main] /\ gpc'[Main] = gpc[Main] /\ gres'[Main] = gres[Main]
  BY <1>1, <1>2, <1>3, MainType
<1> QED
  BY <1>3, <1>4, <1>5, Aside

LEMMA SendFits ==
    ASSUME IInv, FInv, NEW f \in Fetchers, Send(f)
    PROVE  FInv'
<1>1. /\ f \in Goroutines /\ f # Main /\ gpc \in [Goroutines -> ClientPCs]
      /\ gjob \in [Goroutines -> ReplayHeights] /\ results \in Seq(Result)
      /\ gres \in [Goroutines -> Blocks \cup {None, Failed}]
      /\ gpc[f] = "sending" /\ gres[f] \in Blocks \cup {Failed}
  BY MainType DEF IInv, ReplayTypeOK, InHand, Send, SendOf
<1>2. PICK e \in Result : e = [height |-> gjob[f], block |-> gres[f]]
  BY <1>1 DEF Result
<1>3. /\ results' = Append(results, e)
      /\ gpc' = [gpc EXCEPT ![f] = "idle"] /\ gjob' = [gjob EXCEPT ![f] = 0]
      /\ gres' = [gres EXCEPT ![f] = None]
      /\ UNCHANGED <<sourceTip, faults, cache, argVars, pending, replayVars, event, held>>
  BY <1>1, <1>2 DEF Send, SendOf, sourceVars, replayVars
<1>4. /\ Len(results') = Len(results) + 1 /\ Len(results) \in Nat
      /\ \A i \in 1..Len(results) : results'[i] = results[i]
      /\ results'[Len(results) + 1] = e
  BY <1>1, <1>3, OneMore
<1>5. ASSUME faults = 0 PROVE FromSource'
  <2>1. e.block # Failed => AtOnSource(e.height, e.block)
    BY <1>1, <1>2, <1>5 DEF FInv, Fitting, FromSource
  <2>2. ASSUME NEW i \in 1..Len(results'), results'[i].block # Failed
        PROVE  AtOnSource(results[i].height, results[i].block)'
    <3>1. AtOnSource(results'[i].height, results'[i].block)
      BY <1>4, <1>5, <2>1, <2>2 DEF FInv, Fitting, FromSource
    <3> QED
      BY <1>3, <3>1 DEF AtOnSource, OnSource
  <2>3. ASSUME NEW g \in Goroutines,
               gpc'[g] = "writing" \/ (gpc'[g] = "sending" /\ gres'[g] # Failed)
        PROVE  AtOnSource(gjob[g], gres[g])'
    BY <1>1, <1>3, <1>5, <2>3 DEF FInv, Fitting, FromSource, AtOnSource, OnSource
  <2>4. /\ \A h \in ReplayHeights : cache'[h] \in Blocks => AtOnSource(h, cache[h])'
        /\ \A p \in pending' : p.block # Failed => AtOnSource(p.height, p.block)'
        /\ event' # 0 => AtOnSource(event, held)'
    BY <1>3, <1>5 DEF FInv, Fitting, FromSource, AtOnSource, OnSource
  <2> QED
    BY <2>2, <2>3, <2>4 DEF FromSource
<1>6. gjob'[Main] = gjob[Main] /\ gpc'[Main] = gpc[Main] /\ gres'[Main] = gres[Main]
  BY <1>1, <1>3, MainType
<1> QED
  BY <1>3, <1>5, <1>6, Aside

LEMMA ExitFits ==
    ASSUME IInv, FInv, NEW f \in Fetchers, FetcherExit(f)
    PROVE  FInv'
<1>1. /\ f \in Goroutines /\ f # Main /\ gpc \in [Goroutines -> ClientPCs]
      /\ gpc' = [gpc EXCEPT ![f] = "exited"]
      /\ UNCHANGED <<sourceTip, faults, cache, argVars, replayVars, gjob, gres>>
      /\ UNCHANGED <<results, pending, event, held>>
  BY MainType DEF IInv, ReplayTypeOK, FetcherExit, sourceVars, channelVars, replayVars
<1>2. faults = 0 => FromSource'
  BY <1>1 DEF FInv, Fitting, FromSource, AtOnSource, OnSource
<1>3. gpc'[Main] = gpc[Main]
  BY <1>1, MainType
<1> QED
  BY <1>1, <1>2, <1>3, Aside

LEMMA RecoverFits == ASSUME IInv, FInv, RecoverBlock PROVE FInv'
<1>1. /\ phase = "running" /\ event # 0 /\ gpc[Main] = "sending" /\ ahead' = ahead
      /\ event \in Nat /\ held \in Blocks /\ gjob[Main] \in Nat /\ gjob[Main] < event
      /\ gres[Main] \in Blocks \cup {Failed} /\ \A k \in ahead : event < k
      /\ UNCHANGED <<sourceTip, faults, cache, checkpointSet, nonEmptySet, results, pending>>
      /\ results \in Seq(Result) /\ ReplayTypeOK
      /\ gpc \in [Goroutines -> ClientPCs] /\ gjob \in [Goroutines -> ReplayHeights]
      /\ gres \in [Goroutines -> Blocks \cup {None, Failed}]
      /\ lastApplied \in Int /\ nonEmptySet \subseteq Nat
  BY MainType, HeightsType DEF IInv, ReplayTypeOK, RecoverBlock, GapBelow, InHand, Busy,
                               sourceVars, argVars, channelVars
<1>2. PICK h \in Nat, b \in Blocks \cup {Failed}, e \in Nat, c \in Blocks :
        h = gjob[Main] /\ b = gres[Main] /\ e = event /\ c = held
  BY <1>1
<1>3. PICK r : r = IF HasLeafsetEvents(b) THEN Applied(replayer, h, b) ELSE replayer
  OBVIOUS
<1>4. PICK last : last = Applied(r, e, c)
  OBVIOUS
<1>5. \/ b = Failed /\ Fail("gap")
      \/ b # Failed /\ ~VerifyBlockState(r, b) /\ Fail("mismatch")
      \/ /\ b # Failed /\ h < e - 1 /\ replayer' = r /\ FetchGap(h + 1)
         /\ UNCHANGED <<phase, err, event, held, lastApplied, snapshots>>
      \/ /\ b # Failed /\ h = e - 1
         /\ VerifyBlockState(last, c) /\ Keep(e, c, last) /\ lastApplied' = e
         /\ gpc' = [gpc EXCEPT ![Main] = "idle"] /\ gjob' = [gjob EXCEPT ![Main] = 0]
         /\ gres' = [gres EXCEPT ![Main] = None] /\ UNCHANGED gtries
      \/ b # Failed /\ h = e - 1 /\ ~VerifyBlockState(last, c) /\ Fail("mismatch")
  BY <1>2, <1>3, <1>4 DEF RecoverBlock
<1> DEFINE More == /\ b # Failed /\ h < e - 1 /\ replayer' = r /\ FetchGap(h + 1)
                   /\ UNCHANGED <<phase, err, event, held, lastApplied, snapshots>>
           Over == /\ b # Failed /\ h = e - 1
                   /\ VerifyBlockState(last, c) /\ Keep(e, c, last) /\ lastApplied' = e
                   /\ gpc' = [gpc EXCEPT ![Main] = "idle"] /\ gjob' = [gjob EXCEPT ![Main] = 0]
                   /\ gres' = [gres EXCEPT ![Main] = None]
<1>6. ASSUME faults = 0 PROVE FromSource'
  <2>1. /\ event' # 0 => event' = event /\ held' = held
        /\ \A f \in Fetchers : gpc'[f] = gpc[f] /\ gjob'[f] = gjob[f] /\ gres'[f] = gres[f]
        /\ \/ gpc'[Main] \notin {"writing", "sending"}
           \/ gpc'[Main] = gpc[Main] /\ gjob'[Main] = gjob[Main] /\ gres'[Main] = gres[Main]
    <3>1. CASE Fail("gap") \/ Fail("mismatch")
      BY <3>1 DEF Fail, clientVars
    <3>2. CASE More
      BY <1>1, <3>2, MainType DEF FetchGap
    <3>3. CASE Over
      BY <1>1, <3>3, MainType DEF Keep
    <3> QED
      BY <1>5, <3>1, <3>2, <3>3
  <2>2. event' # 0 => AtOnSource(event', held')
    BY <1>1, <1>6, <2>1 DEF FInv, Fitting, FromSource
  <2>3. /\ results' \in Seq(Result) /\ Len(results') \in Nat
        /\ \A i \in 1..Len(results') : \E j \in 1..Len(results) : results'[i] = results[j]
        /\ \A p \in pending' : p \in pending \/ \E j \in 1..Len(results) : p = results[j]
    BY <1>1
  <2> QED
    BY <1>1, <1>6, <2>1, <2>2, <2>3, MainFrom DEF FInv, Fitting
<1>7. SizesTold' <=> SizesTold
  BY <1>1 DEF SizesTold, OnSource
<1>8. \A k : (SourceAt(k)' = SourceAt(k)) /\ (OnSource(k)' <=> OnSource(k))
  BY <1>1 DEF SourceAt, OnSource
<1>9. ASSUME faults = 0, SizesTold, b # Failed
      PROVE  /\ Applying /\ AtOnSource(h, b) /\ AtOnSource(e, c) /\ OnSource(h) /\ OnSource(e)
             /\ Holds(r, SourceAt(h)) /\ VerifyBlockState(r, b)
  <2>1. Applying /\ FromSource
    BY <1>1, <1>9 DEF FInv, Fitting
  <2>2. AtOnSource(h, b) /\ AtOnSource(e, c)
    BY <1>1, <1>2, <1>9, <2>1, MainType DEF FromSource
  <2>3. b \in Blocks /\ SourceAt(h) = b /\ Parent(b) = SourceAt(h - 1)
    BY <1>1, <2>2, OnSourceFacts
  <2>4. Holds(replayer, SourceAt(h - 1))
    BY <1>1, <1>2, <2>1 DEF Applying
  <2>5. Holds(r, b)
    <3>1. CASE HasLeafsetEvents(b)
      BY <1>1, <1>3, <2>2, <2>4, <3>1, NextFits
    <3>2. CASE ~HasLeafsetEvents(b)
      BY <1>3, <2>3, <2>4, <3>2, NoEvents
    <3> QED
      BY <3>1, <3>2
  <2> QED
    BY <2>1, <2>2, <2>3, <2>5, HoldsVerified DEF AtOnSource
<1>10. ASSUME faults = 0, SizesTold, b # Failed, h = e - 1
       PROVE  Holds(last, SourceAt(e)) /\ VerifyBlockState(last, c)
  <2>1. AtOnSource(e, c) /\ Holds(r, SourceAt(e - 1))
    BY <1>9, <1>10
  <2>2. SourceAt(e) = c
    BY <1>1, <2>1, OnSourceFacts
  <2> QED
    BY <1>1, <1>4, <2>1, <2>2, NextFits
<1>11. ASSUME faults = 0, SizesTold, phase' = "running" PROVE Applying'
  <2>1. CASE More
    <3>1. /\ event' = event /\ replayer' = r /\ lastApplied' = lastApplied
          /\ gpc' = [gpc EXCEPT ![Main] = "reading"] /\ gjob' = [gjob EXCEPT ![Main] = h + 1]
      BY <2>1 DEF FetchGap
    <3>2. Busy(Main)' /\ gjob'[Main] = h + 1
      BY <1>1, <3>1, MainType DEF Busy
    <3>3. (h + 1) - 1 = h /\ lastApplied < h + 1
      BY <1>1, <1>2, <1>9, <1>11, <2>1 DEF Applying
    <3>4. /\ lastApplied < gjob'[Main] /\ (gjob'[Main] > 1 => OnSource(gjob'[Main] - 1))
          /\ Holds(r, SourceAt(gjob'[Main] - 1))
      BY <1>9, <1>11, <2>1, <3>2, <3>3
    <3>5. /\ lastApplied = -1 \/ (lastApplied \in nonEmptySet /\ OnSource(lastApplied))
          /\ \A k \in ahead : lastApplied < k
          /\ \A n \in nonEmptySet : n <= lastApplied \/ n = event \/ n \in ahead
          /\ event \in nonEmptySet
          /\ \E k \in Missed(event) : k > lastApplied
      BY <1>1, <1>9, <1>11, <2>1 DEF Applying
    <3>6. Missed(event)' = Missed(event)
      BY <1>1, <1>8, <3>1 DEF Missed
    <3> QED
      BY <1>1, <1>8, <3>1, <3>2, <3>4, <3>5, <3>6 DEF Applying
  <2>2. CASE Over
    <3>1. replayer' = last /\ event' = 0 /\ lastApplied' = e
      BY <2>2 DEF Keep
    <3>2. \A n \in nonEmptySet : n <= e \/ n \in ahead
      BY <1>1, <1>2, <1>9, <1>11, <2>2 DEF Applying
    <3>3. e \in nonEmptySet /\ OnSource(e) /\ Holds(last, SourceAt(e))
      BY <1>1, <1>2, <1>9, <1>10, <1>11, <2>2 DEF Applying
    <3>4. \A k \in ahead : e < k
      BY <1>1, <1>2
    <3> QED
      BY <1>1, <1>8, <3>1, <3>2, <3>3, <3>4 DEF Applying
  <2> QED
    BY <1>5, <1>11, <2>1, <2>2 DEF Fail
<1>12. Fitting'
  <2>1. ASSUME faults = 0 PROVE GapServed'
    <3>1. CASE Fail("gap") \/ Fail("mismatch")
      BY <1>1, <2>1, <3>1 DEF Fail, clientVars, GapServed, FInv, Fitting
    <3>2. CASE More
      BY <1>1, <3>2, MainType DEF FetchGap, GapServed
    <3>3. CASE Over
      BY <3>3 DEF Keep, GapServed
    <3> QED
      BY <1>5, <3>1, <3>2, <3>3
  <2> QED
    BY <1>1, <1>6, <1>7, <1>11, <2>1 DEF Fitting
<1>13. RecoversMissed'
  <2>1. SUFFICES ASSUME phase' = "failed", err' \in {"mismatch", "gap"}, faults = 0, SizesTold
                 PROVE  /\ err' = "gap"
                        /\ \E k \in nonEmptySet : Missed(k) # {} /\ \A n \in nonEmptySet : k <= n
    BY <1>1, <1>7 DEF RecoversMissed, Missed, OnSource
  <2>2. phase # "failed"
    BY <1>1
  <2>3. b = Failed /\ Fail("gap")
    BY <1>1, <1>5, <1>9, <1>10, <2>1, <2>2 DEF Fail, Keep
  <2>4. Applying /\ h = 0
    BY <1>1, <1>2, <2>1, <2>3 DEF FInv, Fitting, GapServed
  <2>5. lastApplied < 0
    BY <1>1, <1>2, <2>4 DEF Applying
  <2>6. event \in nonEmptySet /\ Missed(event) # {}
    BY <1>1, <2>4 DEF Applying
  <2>7. \A n \in nonEmptySet : event <= n
    BY <1>1, <2>4, <2>5, HeightsType DEF Applying
  <2> QED
    BY <2>3, <2>6, <2>7 DEF Fail
<1> QED
  BY <1>12, <1>13 DEF FInv

(* A new replay, or the end of the process.                                *)
LEMMA QuietFits ==
    ASSUME IInv, FInv, NEW C \in SUBSET ReplayHeights, NEW N \in SUBSET Heights, Quiet(C, N),
           phase' \in {"idle", "running"}, UNCHANGED <<cache, sourceTip, faults>>
    PROVE  FInv'
<1>1. Len(results') = 0 /\ event' = 0 /\ pending' = {} /\ \A g \in Goroutines : gpc'[g] = "idle"
  BY DEF Quiet
<1>2. faults = 0 => FromSource'
  BY <1>1 DEF FInv, Fitting, FromSource, AtOnSource, OnSource
<1>3. Applying'
  <2>1. /\ lastApplied' = -1 /\ replayer' = EmptyReplayer /\ nonEmptySet' = N
        /\ ahead' = C \cup N /\ C \cup N \subseteq Nat
    BY HeightsType DEF Quiet
  <2>2. SourceAt(lastApplied)' = None
    BY <2>1 DEF SourceAt
  <2> QED
    BY <1>1, <2>1, <2>2, EmptyHolds DEF Applying
<1>4. RecoversMissed' /\ GapServed'
  BY <1>1 DEF RecoversMissed, GapServed
<1> QED
  BY <1>2, <1>3, <1>4 DEF FInv, Fitting

(* The chain of the source grows.                                          *)
LEMMA MoveFits ==
    ASSUME IInv, FInv, NEW b \in Blocks, MoveSource(b)
    PROVE  FInv'
<1>1. /\ phase # "failed" /\ sourceTip' = b /\ faults \in Nat /\ sourceTip \in Blocks
      /\ UNCHANGED <<cache, argVars, channelVars, replayVars, clientVars>>
  BY DEF MoveSource, IInv, ReplayTypeOK
<1>2. /\ UNCHANGED <<cache, phase, err, checkpointSet, nonEmptySet, results, pending>>
      /\ UNCHANGED <<ahead, event, held, replayer, lastApplied, gpc, gjob, gres>>
  BY <1>1 DEF argVars, channelVars, replayVars, clientVars
<1>3. RecoversMissed'
  BY <1>1, <1>2 DEF RecoversMissed
<1>4. ASSUME faults' = 0 PROVE faults = 0 /\ On(sourceTip, b)
  BY <1>1, <1>4 DEF MoveSource
<1>5. ASSUME faults' = 0, NEW h, OnSource(h)
      PROVE  OnSource(h)' /\ Path[b][h] = Path[sourceTip][h]
  <2>1. /\ Height(sourceTip) \in 1..Height(b) /\ Height(b) \in Nat /\ Height(sourceTip) \in Nat
        /\ sourceTip = Path[b][Height(sourceTip)]
    BY <1>1, <1>4, <1>5, HeightType DEF On
  <2>2. h \in 1..Height(sourceTip) /\ h \in 1..Height(b)
    BY <1>5, <2>1 DEF OnSource
  <2> QED
    BY <1>1, <2>1, <2>2, AtType DEF OnSource
<1>6. ASSUME faults' = 0, NEW h, NEW c, AtOnSource(h, c) PROVE AtOnSource(h, c)'
  BY <1>1, <1>5, <1>6 DEF AtOnSource
<1>7. ASSUME faults' = 0 PROVE FromSource'
  <2>1. FromSource
    BY <1>4, <1>7 DEF FInv, Fitting
  <2>2. \A h, c : AtOnSource(h, c) => h \in 1..Height(b) /\ c = Path[b][h]
    BY <1>1, <1>6, <1>7 DEF AtOnSource, OnSource
  <2>3. sourceTip' = b
    BY <1>1
  <2> QED
    BY <1>2, <2>1, <2>2, <2>3 DEF FromSource, AtOnSource, OnSource
<1>8. ASSUME faults' = 0, SizesTold' PROVE SizesTold
  BY <1>1, <1>2, <1>5, <1>8 DEF SizesTold
<1>9. ASSUME faults' = 0, Applying PROVE Applying'
  <2>1. /\ SourceAt(lastApplied)' = SourceAt(lastApplied)
        /\ lastApplied = -1 \/ (lastApplied \in nonEmptySet /\ OnSource(lastApplied)')
    BY <1>1, <1>2, <1>5, <1>9 DEF Applying, SourceAt
  <2>2. event # 0 => /\ SourceAt(gjob[Main] - 1)' = SourceAt(gjob[Main] - 1)
                     /\ gjob[Main] > 1 => OnSource(gjob[Main] - 1)'
    <3>1. gjob[Main] \in Nat
      BY MainType, HeightsType DEF IInv, ReplayTypeOK
    <3> QED
      BY <3>1, <1>1, <1>2, <1>5, <1>9 DEF Applying, SourceAt
  <2>3. \A k : k \in Missed(event) => k \in Missed(event)'
    BY <1>1, <1>2, <1>5, <1>9 DEF Missed
  <2> QED
    BY <1>2, <1>9, <2>1, <2>2, <2>3 DEF Applying, Busy
<1>10. GapServed => GapServed'
  BY <1>2 DEF GapServed
<1> QED
  BY <1>2, <1>3, <1>4, <1>7, <1>8, <1>9, <1>10 DEF FInv, Fitting

(* A step of the rest of the command that at most counts a fault.          *)
LEMMA ElsewhereFits ==
    ASSUME IInv, FInv, faults' \in Nat, faults' >= faults,
           UNCHANGED <<sourceTip, kills, cache, argVars, channelVars, replayVars, clientVars>>
    PROVE  FInv'
<1>1. /\ UNCHANGED <<sourceTip, cache, phase, err, checkpointSet, nonEmptySet, results, pending>>
      /\ UNCHANGED <<ahead, event, held, replayer, lastApplied, gpc, gjob, gres>>
      /\ faults \in Nat
  BY DEF argVars, channelVars, replayVars, clientVars, IInv, ReplayTypeOK
<1>2. faults' = 0 => faults = 0
  BY <1>1
<1>3. FromSource => FromSource'
  BY <1>1 DEF FromSource, AtOnSource, OnSource
<1>4. Applying => Applying'
  BY <1>1, ApplyingKept DEF Busy
<1>5. SizesTold' => SizesTold
  BY <1>1 DEF SizesTold, OnSource
<1>6. RecoversMissed'
  BY <1>1, ExplainedKept DEF FInv
<1>7. GapServed => GapServed'
  BY <1>1 DEF GapServed
<1> QED
  BY <1>1, <1>2, <1>3, <1>4, <1>5, <1>6, <1>7 DEF FInv, Fitting

LEMMA InitFits == ASSUME ReplayInit PROVE FInv
<1>1. /\ \A h \in ReplayHeights : cache[h] = None
      /\ None \notin Blocks /\ Len(results) = 0 /\ pending = {} /\ event = 0
      /\ \A g \in Goroutines : gpc[g] = "idle"
  BY PathAssumption DEF ReplayInit
<1>2. FromSource
  BY <1>1 DEF FromSource
<1> QED
  BY <1>2 DEF ReplayInit, FInv, Fitting, GapServed, RecoversMissed

LEMMA AloneFits ==
    ASSUME IInv, FInv, ReplayAlone
    PROVE  FInv'
<1>1. CASE \E f \in Fetchers : FetcherNext(f)
  BY <1>1, MainType, ClientFits, TakeJobFits, SendFits, ExitFits DEF FetcherNext
<1>2. CASE ClientNext(Main)
  BY <1>2, MainType, ClientFits
<1>3. CASE TakePending \/ TakeResult \/ NothingFetched \/ RecoverBlock
  BY <1>3, TakePendingFits, TakeResultFits, NeverMissing, RecoverFits
<1>4. CASE Kill \/ ProcessExit
  BY <1>4, QuietFits DEF Kill, ProcessExit, EndReplay, sourceVars
<1>5. CASE \E C \in SUBSET ReplayHeights, N \in SUBSET Heights : Begin(C, N)
  BY <1>5, QuietFits DEF Begin, sourceVars
<1>6. CASE \E b \in Blocks : MoveSource(b)
  BY <1>6, MoveFits
<1> QED
  BY <1>1, <1>2, <1>3, <1>4, <1>5, <1>6 DEF ReplayAlone, ReplayNext

LEMMA FitInvariance == ReplaySpec => []FInv
<1>1. IInv /\ FInv /\ [ReplayAlone]_replayState => FInv'
  <2> SUFFICES ASSUME IInv, FInv, [ReplayAlone]_replayState PROVE FInv'
    OBVIOUS
  <2>1. CASE UNCHANGED replayState
    <3>1. /\ faults' = faults /\ faults \in Nat
          /\ UNCHANGED <<sourceTip, kills, cache, argVars, channelVars, replayVars, clientVars>>
      BY <2>1 DEF replayState, sourceVars, IInv, ReplayTypeOK
    <3> QED
      BY <3>1, ElsewhereFits
  <2> QED
    BY <2>1, AloneFits
<1>2. ReplayInit => FInv
  BY InitFits
<1> QED
  BY <1>1, <1>2, Invariance, PTL DEF ReplaySpec
-------------------------------------------------------------------------------
(* The replay's snapshots *)

LEMMA SpendTyped ==
    ASSUME NEW r \in Replayers, NEW s \in Seq(Output)
    PROVE  SpendAll(r, s) \in Replayers
<1>1. PICK f : Stages("spend", r, s, f) /\ f[Len(s)] = SpendAll(r, s)
  BY SpendStages
<1>2. Len(s) \in Nat /\ \A i \in 1..Len(s) : s[i] \in Output
  OBVIOUS
<1> DEFINE P == {i \in 0..Len(s) : f[i] \in Replayers}
<1>3. 0 \in P
  BY <1>1, <1>2 DEF Stages
<1>4. ASSUME NEW i \in 0..(Len(s) - 1), i \in P PROVE i + 1 \in P
  <2>1. i \in Nat /\ i + 1 \in 0..Len(s) /\ i + 1 \in 1..Len(s) /\ s[i + 1] \in Output
    BY <1>2, <1>4
  <2>2. PICK o \in Output, t \in Replayers, u \in {f[i + 1]} : o = s[i + 1] /\ t = f[i]
    BY <1>4, <2>1
  <2>3. u = SpendOutput(t, o)
    BY <1>1, <2>2 DEF Stages, Do
  <2>4. u \in Replayers
    <3>1. CASE t.failed \/ t.leaf[o] = 0
      BY <2>3, <3>1 DEF SpendOutput, Replayers
    <3>2. CASE ~(t.failed \/ t.leaf[o] = 0)
      <4>1. u = [t EXCEPT !.leaf[o] = 0, !.bits = @ \ {t.leaf[o]}]
        BY <2>3, <3>2 DEF SpendOutput
      <4>2. /\ t = [leaf |-> t.leaf, bits |-> t.bits, size |-> t.size, failed |-> t.failed]
            /\ t.leaf \in [Output -> Nat] /\ t.bits \in SUBSET Nat /\ t.size \in Nat
            /\ t.failed \in BOOLEAN
        BY DEF Replayers
      <4>3. u = [leaf |-> [t.leaf EXCEPT ![o] = 0], bits |-> t.bits \ {t.leaf[o]},
                 size |-> t.size, failed |-> t.failed]
        BY <4>1, <4>2
      <4>4. [t.leaf EXCEPT ![o] = 0] \in [Output -> Nat] /\ t.bits \ {t.leaf[o]} \in SUBSET Nat
        BY <4>2
      <4> QED
        BY <4>2, <4>3, <4>4 DEF Replayers
    <3> QED
      BY <3>1, <3>2
  <2> QED
    BY <2>1, <2>2, <2>4
<1>5. f[Len(s)] \in Replayers
  <2> HIDE DEF P
  <2>1. \A i \in 0..Len(s) : i \in P
    BY <1>2, <1>3, <1>4, Upto
  <2>2. Len(s) \in P
    BY <1>2, <2>1
  <2> QED
    BY <2>2 DEF P
<1> QED
  BY <1>1, <1>5

LEMMA AppliedTyped ==
    ASSUME NEW r \in Replayers, NEW b \in Blocks, NEW h
    PROVE  Applied(r, h, b) \in Replayers
<1>1. [r EXCEPT !.failed = TRUE] \in Replayers
  BY DEF Replayers
<1>2. Apply(r, b) \in Replayers
  <2>1. PICK s \in Seq(Output) : s = SetToSeq(Inputs(b))
    BY InputsType, Enumerated
  <2>2. PICK o \in Seq(Output) : o = Outputs(b)
    BY OutputsType
  <2>3. Apply(r, b) = AddAll(SpendAll(r, s), o)
    BY <2>1, <2>2, ApplyIs
  <2> QED
    BY <2>3, SpendTyped, AddSize
<1> QED
  BY <1>1, <1>2 DEF Applied

(* One snapshot per height, of a height the replay is done with.           *)
Snapshot == [height : ReplayHeights, block : Blocks, bits : SUBSET Nat, size : Nat]

Snapped ==
    /\ replayer \in Replayers /\ snapshots \in Seq(Snapshot)
    /\ \A i \in 1..Len(snapshots) :
         snapshots[i].height \notin ahead /\ (event # 0 => snapshots[i].height # event)
    /\ \A i, j \in 1..Len(snapshots) : snapshots[i].height = snapshots[j].height => i = j

LEMMA SnappedKept ==
    ASSUME Snapped, UNCHANGED snapshots, replayer' \in Replayers, ahead' \subseteq ahead,
           event' # 0 => event' = event \/ event' \in ahead
    PROVE  Snapped'
BY DEF Snapped

LEMMA KeepSnapped ==
    ASSUME Snapped, NEW h \in ReplayHeights, NEW b \in Blocks, NEW r \in Replayers, Keep(h, b, r),
           ahead' \subseteq ahead, h \notin ahead',
           \A i \in 1..Len(snapshots) : snapshots[i].height # h
    PROVE  Snapped'
<1>1. replayer' = r /\ event' = 0
  BY DEF Keep
<1>2. CASE snapshots' = snapshots
  BY <1>1, <1>2, SnappedKept
<1>3. ASSUME snapshots' = Append(snapshots, [height |-> h, block |-> b,
                                             bits |-> r.bits, size |-> r.size])
      PROVE  Snapped'
  <2>1. PICK e \in Snapshot : e = [height |-> h, block |-> b, bits |-> r.bits, size |-> r.size]
    BY DEF Snapshot, Replayers
  <2>2. e.height = h
    BY <2>1
  <2>3. snapshots \in Seq(Snapshot)
    BY DEF Snapped
  <2>4. /\ snapshots' \in Seq(Snapshot)
        /\ Len(snapshots') = Len(snapshots) + 1 /\ Len(snapshots) \in Nat
        /\ \A i \in 1..Len(snapshots) : snapshots'[i] = snapshots[i]
        /\ snapshots'[Len(snapshots) + 1] = e
    BY <1>3, <2>1, <2>3, OneMore
  <2>5. \A i \in 1..Len(snapshots') : i \in 1..Len(snapshots) \/ i = Len(snapshots) + 1
    BY <2>4
  <2>6. \A i \in 1..Len(snapshots') : snapshots'[i].height \notin ahead'
    BY <2>2, <2>4, <2>5 DEF Snapped
  <2>7. \A i, j \in 1..Len(snapshots') : snapshots'[i].height = snapshots'[j].height => i = j
    BY <2>2, <2>4, <2>5 DEF Snapped
  <2> QED
    BY <1>1, <2>4, <2>6, <2>7 DEF Snapped
<1> QED
  BY <1>2, <1>3 DEF Keep

LEMMA ProcessSnapped ==
    ASSUME IInv, Snapped, NEW h \in ahead, NEW res \in Blocks \cup {Failed}, Process(h, res)
    PROVE  Snapped'
<1>1. /\ ahead' = ahead \ {h} /\ h \in ReplayHeights /\ replayer \in Replayers
      /\ \A i \in 1..Len(snapshots) : snapshots[i].height # h
  <2>1. ahead' = ahead \ {h}
    BY DEF Process
  <2>2. h \in ReplayHeights
    BY HeightsType DEF IInv, ReplayTypeOK, EventHeights
  <2> QED
    BY <2>1, <2>2 DEF Snapped
<1>2. ASSUME NEW why, Fail(why) PROVE Snapped'
  BY <1>1, <1>2, SnappedKept DEF Fail
<1>3. ASSUME res \in Blocks, ApplyEvent(h, res) PROVE Snapped'
  <2>1. PICK r \in Replayers : r = Applied(replayer, h, res)
    BY <1>1, <1>3, AppliedTyped
  <2>2. CASE Keep(h, res, r)
    BY <1>1, <1>3, <2>2, KeepSnapped
  <2>3. CASE RecoverGap(h, res)
    BY <1>1, <2>3, SnappedKept DEF RecoverGap, RecoverFrom
  <2> QED
    BY <1>2, <1>3, <2>1, <2>2, <2>3 DEF ApplyEvent
<1>4. ASSUME res \in Blocks, CheckEmpty(h, res) PROVE Snapped'
  <2>1. PICK r \in Replayers : r = replayer
    BY <1>1
  <2>2. CASE Keep(h, res, r)
    BY <1>1, <1>4, <2>2, KeepSnapped
  <2> QED
    BY <1>2, <1>4, <2>1, <2>2 DEF CheckEmpty
<1> QED
  BY <1>2, <1>3, <1>4 DEF Process

LEMMA RecoverSnapped ==
    ASSUME IInv, Snapped, RecoverBlock
    PROVE  Snapped'
<1>1. /\ event # 0 /\ ahead' = ahead /\ event \in ReplayHeights /\ held \in Blocks
      /\ gres[Main] \in Blocks \cup {Failed} /\ replayer \in Replayers
      /\ event \notin ahead
      /\ \A i \in 1..Len(snapshots) : snapshots[i].height # event
  BY MainType, HeightsType, AheadType DEF IInv, ReplayTypeOK, RecoverBlock, GapBelow, InHand, Snapped
<1>2. PICK h \in {gjob[Main]}, b \in Blocks \cup {Failed} : h = gjob[Main] /\ b = gres[Main]
  BY <1>1
<1>3. PICK r : r = IF HasLeafsetEvents(b) THEN Applied(replayer, h, b) ELSE replayer
  OBVIOUS
<1>4. PICK e \in ReplayHeights, c \in Blocks : e = event /\ c = held
  BY <1>1
<1>5. PICK last : last = Applied(r, e, c)
  OBVIOUS
<1>6. \/ Fail("gap")
      \/ Fail("mismatch")
      \/ /\ b # Failed /\ replayer' = r /\ UNCHANGED <<event, snapshots>>
      \/ /\ b # Failed /\ Keep(e, c, last)
  BY <1>2, <1>3, <1>4, <1>5 DEF RecoverBlock
<1>7. ASSUME b # Failed PROVE r \in Replayers /\ last \in Replayers
  <2>1. r \in Replayers
    BY <1>1, <1>3, <1>7, AppliedTyped
  <2> QED
    BY <1>5, <2>1, AppliedTyped
<1>8. CASE Fail("gap") \/ Fail("mismatch")
  BY <1>1, <1>8, SnappedKept DEF Fail
<1>9. CASE b # Failed /\ replayer' = r /\ UNCHANGED <<event, snapshots>>
  BY <1>1, <1>7, <1>9, SnappedKept
<1>10. CASE b # Failed /\ Keep(e, c, last)
  BY <1>1, <1>4, <1>7, <1>10, KeepSnapped
<1> QED
  BY <1>6, <1>8, <1>9, <1>10

LEMMA SnappedStep ==
    ASSUME IInv, Snapped, ReplayNext
    PROVE  Snapped' /\ (phase # "running" => UNCHANGED <<phase, snapshots>>)
<1>1. ASSUME UNCHANGED replayVars
      PROVE  Snapped' /\ (phase # "running" => UNCHANGED <<phase, snapshots>>)
  BY <1>1, SnappedKept DEF replayVars, Snapped
<1>2. ASSUME NEW g \in Goroutines, ClientNext(g) PROVE UNCHANGED replayVars
  BY <1>2 DEF ClientNext, ReadCache, Answered, Misserved, Absent, Unanswered, WriteCache
<1>3. CASE \E f \in Fetchers : FetcherNext(f)
  BY <1>1, <1>2, <1>3, MainType DEF FetcherNext, TakeJob, TakeJobLeaving, Send, SendOf, FetcherExit
<1>4. CASE TakePending
  <2>1. PICK p \in Early : Process(p.height, p.block)
    BY <1>4 DEF TakePending
  <2>2. p.height \in ahead /\ p.block \in Blocks \cup {Failed} /\ phase = "running"
    BY <1>4, <2>1, WaitingLowest DEF TakePending, Early, IInv, ReplayTypeOK, Result, Waiting
  <2> QED
    BY <2>1, <2>2, ProcessSnapped
<1>5. CASE TakeResult
  <2>1. PICK p \in Result : p = Head(results) /\ phase = "running"
    BY <1>5, OneLess DEF TakeResult, IInv, ReplayTypeOK, Waiting
  <2>2. CASE p.height = Lowest(ahead) /\ Process(p.height, p.block)
    <3>1. p.height \in ahead /\ p.block \in Blocks \cup {Failed}
      BY <1>5, <2>2, WaitingLowest DEF TakeResult, Result
    <3> QED
      BY <2>1, <2>2, <3>1, ProcessSnapped
  <2>3. CASE UNCHANGED replayVars
    BY <1>1, <2>3
  <2> QED
    BY <1>5, <2>1, <2>2, <2>3 DEF TakeResult
<1>6. CASE NothingFetched
  BY <1>6, NeverMissing
<1>7. CASE RecoverBlock
  BY <1>7, RecoverSnapped DEF RecoverBlock
<1> QED
  BY <1>1, <1>2, <1>3, <1>4, <1>5, <1>6, <1>7, MainType DEF ReplayNext

LEMMA QuietSnapped ==
    ASSUME NEW C, NEW N, Quiet(C, N)
    PROVE  Snapped'
<1>1. EmptyReplayer \in Replayers
  BY EmptyHolds DEF Holds, Indexed
<1>2. snapshots' = <<>> /\ snapshots' \in Seq(Snapshot) /\ Len(snapshots') = 0 /\ replayer' = EmptyReplayer
  BY DEF Quiet
<1> QED
  BY <1>1, <1>2 DEF Snapped

LEMMA InitSnapped == ASSUME ReplayInit PROVE Snapped
<1>1. EmptyReplayer \in Replayers
  BY EmptyHolds DEF Holds, Indexed
<1> QED
  BY <1>1 DEF ReplayInit, Snapped

-------------------------------------------------------------------------------
(* The replay's state has its types (replayMwebBlocks and its fetchers).   *)
THEOREM ReplayTypeCorrect == ReplaySpec => []ReplayTypeOK
<1> QED
  BY Invariance, PTL DEF IInv

(* A block the replay waits for is with the feeder, a fetcher, the channel *)
(* or the early results, so the channel is never closed without it.        *)
THEOREM ReplayLosesNothing == ReplaySpec => []NothingLost
<1> QED
  BY Invariance, PTL DEF IInv

(* No two goroutines read or write the same cache file at a time.          *)
THEOREM CacheFilesApart == ReplaySpec => []OneWriterPerFile
<1> QED
  BY Invariance, OneWriter, PTL

(* What verifyBlockState lets through is the leafset of the block.         *)
THEOREM SnapshotsHold == ReplaySpec => []SnapshotsTrue
<1> QED
  BY Invariance, PTL DEF IInv, Recorded

(* Told the sizes of the listed blocks by a source that neither fails nor  *)
(* reorganises, the replay gives up over a block the list left out in two  *)
(* places only: with a mismatch at a checkpoint height that is not listed, *)
(* and with an error in the recovery at the first listed height, which     *)
(* asks for a block without MWEB data.                                     *)
THEOREM MissedRecovered == ReplaySpec => []RecoversMissed
<1> QED
  BY FitInvariance, PTL DEF FInv
===============================================================================
