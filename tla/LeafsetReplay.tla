----------------------------- MODULE LeafsetReplay ----------------------------
(***************************************************************************)
(* replayMwebBlocks: the leafset at the checkpoint heights, rebuilt from   *)
(* the blocks listed as having MWEB events.  Fetchers get the blocks ahead *)
(* of the replay, each from its cache file or from the replay source; the  *)
(* replay takes them in order, checks the leafset after each, and when it  *)
(* does not fit goes back to look at every block the list left out.        *)
(*                                                                         *)
(* Height 1 is the MWEB activation; height 0 stands for the heights below  *)
(* it, whose blocks the source serves without MWEB data.  The process may  *)
(* be killed at any step: what is left of it is the cache.                 *)
(***************************************************************************)
EXTENDS MwebLeafset

CONSTANTS
    Fetchers,   \* the goroutines of newReplayBlockFetcher
    Main,       \* the caller's goroutine, which fetches the gaps
    Torn,       \* a cache file cut short
    Attempts,   \* tries of a request (3 in the code)
    MaxFaults,  \* bound: bad answers, failed requests and writes, reorgs of the source
    MaxKills    \* bound: kills of the process

Goroutines == Fetchers \cup {Main}
ReplayHeights == {0} \cup Heights
Failed == "failed"      \* what a goroutine has instead of a block

ASSUME ReplayAssumption ==
    /\ IsFiniteSet(Fetchers) /\ Fetchers # {} /\ Main \notin Fetchers
    /\ Torn \notin Blocks /\ Torn # None /\ Failed \notin Blocks
    /\ Attempts \in Nat \ {0} /\ MaxFaults \in Nat /\ MaxKills \in Nat

VARIABLES
    sourceTip,  \* the tip of the chain the explorers follow
    faults, kills,
    cache,      \* height |-> its file: None, Torn or a block
    phase,      \* idle, running, done or failed
    err,        \* why it failed: fetch, gap, mismatch, missing
    checkpointSet, nonEmptySet,
    todo,       \* event heights not handed to a fetcher yet
    ahead,      \* event heights the replay has not asked for yet
    event,      \* the event height whose gap is being recovered, or 0
    held,       \* its block
    replayer, lastApplied,
    snapshots,
    gpc,        \* where each goroutine is in client.block
    gjob,       \* the height it wants
    gtries,     \* its attempts at the request
    gres,       \* what it came back with
    results,    \* the results channel
    pending     \* results taken before their turn

sourceVars  == <<sourceTip, faults>>
argVars     == <<checkpointSet, nonEmptySet>>
clientVars  == <<gpc, gjob, gtries, gres>>
channelVars == <<todo, results, pending>>
replayVars  == <<phase, err, ahead, event, held, replayer, lastApplied, snapshots>>
replayState == <<sourceVars, kills, cache, argVars, channelVars, replayVars, clientVars>>

EventHeights == checkpointSet \cup nonEmptySet
Lowest(S) == CHOOSE h \in S : \A k \in S : h <= k
ClientPCs == {"idle", "reading", "asking", "writing", "sending", "exited"}
Result == [height : ReplayHeights, block : Blocks \cup {Failed}]

ReplayTypeOK ==
    /\ sourceTip \in Blocks /\ faults \in Nat /\ kills \in Nat
    /\ cache \in [ReplayHeights -> Blocks \cup {None, Torn}]
    /\ phase \in {"idle", "running", "done", "failed"}
    /\ err \in {"none", "fetch", "gap", "mismatch", "missing"}
    /\ checkpointSet \subseteq ReplayHeights /\ nonEmptySet \subseteq Heights
    /\ todo \subseteq EventHeights /\ ahead \subseteq EventHeights
    /\ event \in ReplayHeights /\ held \in Blocks \cup {None}
    /\ lastApplied \in Int /\ lastApplied >= -1
    /\ gpc \in [Goroutines -> ClientPCs]
    /\ gjob \in [Goroutines -> ReplayHeights]
    /\ gtries \in [Goroutines -> 1..Attempts]
    /\ gres \in [Goroutines -> Blocks \cup {None, Failed}]
    /\ results \in Seq(Result)
    /\ pending \subseteq Result

Quiet(C, N) ==
    /\ gpc' = [g \in Goroutines |-> "idle"]
    /\ gjob' = [g \in Goroutines |-> 0]
    /\ gtries' = [g \in Goroutines |-> 1]
    /\ gres' = [g \in Goroutines |-> None]
    /\ results' = <<>> /\ pending' = {}
    /\ checkpointSet' = C /\ nonEmptySet' = N
    /\ todo' = C \cup N /\ ahead' = C \cup N
    /\ event' = 0 /\ held' = None
    /\ replayer' = EmptyReplayer /\ lastApplied' = -1 /\ snapshots' = <<>>
    /\ err' = "none"

ReplayInit ==
    /\ sourceTip \in Blocks /\ faults = 0 /\ kills = 0
    /\ cache = [h \in ReplayHeights |-> None]
    /\ phase = "idle" /\ err = "none"
    /\ checkpointSet = {} /\ nonEmptySet = {} /\ todo = {} /\ ahead = {}
    /\ event = 0 /\ held = None
    /\ replayer = EmptyReplayer /\ lastApplied = -1 /\ snapshots = <<>>
    /\ gpc = [g \in Goroutines |-> "idle"] /\ gjob = [g \in Goroutines |-> 0]
    /\ gtries = [g \in Goroutines |-> 1] /\ gres = [g \in Goroutines |-> None]
    /\ results = <<>> /\ pending = {}

Begin(C, N) ==
    /\ phase = "idle"
    /\ C # {}
    /\ Quiet(C, N)
    /\ phase' = "running"
    /\ UNCHANGED <<sourceVars, kills, cache>>

(* The process is gone, and with it all but the cache.                     *)
EndReplay == Quiet({}, {}) /\ phase' = "idle" /\ UNCHANGED <<sourceVars, cache>>

Kill ==
    /\ kills < MaxKills
    /\ kills' = kills + 1
    /\ EndReplay

ProcessExit ==
    /\ phase \in {"done", "failed"}
    /\ EndReplay
    /\ UNCHANGED kills

(* The chain of the source grows, or switches to another branch.  Nothing  *)
(* looks at it any more once the replay is over.                           *)
MoveSource(b) ==
    /\ phase \notin {"done", "failed"} /\ b # sourceTip
    /\ \/ On(sourceTip, b) /\ UNCHANGED faults
       \/ ~On(sourceTip, b) /\ faults < MaxFaults /\ faults' = faults + 1
    /\ sourceTip' = b
    /\ UNCHANGED <<kills, cache, argVars, channelVars, replayVars, clientVars>>

-------------------------------------------------------------------------------
(* client.block, as any goroutine g runs it for gjob[g].                   *)

Finish(g, res) ==
    /\ gres' = [gres EXCEPT ![g] = res]
    /\ gpc' = [gpc EXCEPT ![g] = "sending"]
    /\ gtries' = [gtries EXCEPT ![g] = 1]
    /\ UNCHANGED gjob

(* cachedBlock: a file that does not parse, or holds another height's      *)
(* block, is removed and counts as absent.                                 *)
ReadCache(g) ==
    /\ gpc[g] = "reading"
    /\ LET f == cache[gjob[g]]
       IN  \/ /\ f \in Blocks /\ Height(f) = gjob[g]
              /\ Finish(g, f)
              /\ UNCHANGED cache
           \/ /\ f \in Blocks => Height(f) # gjob[g]
              /\ cache' = [cache EXCEPT ![gjob[g]] = None]
              /\ gpc' = [gpc EXCEPT ![g] = "asking"]
              /\ UNCHANGED <<gjob, gtries, gres>>
    /\ UNCHANGED <<sourceVars, kills, argVars, channelVars, replayVars>>

(* remoteBlock gets block b; os.WriteFile creates the file, or empties it. *)
Received(g, b) ==
    /\ gres' = [gres EXCEPT ![g] = b]
    /\ gpc' = [gpc EXCEPT ![g] = "writing"]
    /\ cache' = [cache EXCEPT ![gjob[g]] = Torn]
    /\ gtries' = [gtries EXCEPT ![g] = 1]
    /\ UNCHANGED gjob

OnSource(h) == h \in 1..Height(sourceTip)

Answered(g) ==
    /\ gpc[g] = "asking" /\ OnSource(gjob[g])
    /\ Received(g, Path[sourceTip][gjob[g]])
    /\ UNCHANGED <<sourceVars, kills, argVars, channelVars, replayVars>>

(* The block of another height: remoteBlock compares hashes, not heights.  *)
Misserved(g) ==
    /\ gpc[g] = "asking" /\ faults < MaxFaults
    /\ faults' = faults + 1
    /\ \E h \in Heights \ {gjob[g]} : OnSource(h) /\ Received(g, Path[sourceTip][h])
    /\ UNCHANGED <<sourceTip, kills, argVars, channelVars, replayVars>>

(* No such block, or one without MWEB data: not retried. *)
Absent(g) ==
    /\ gpc[g] = "asking" /\ ~OnSource(gjob[g])
    /\ Finish(g, Failed)
    /\ UNCHANGED <<sourceVars, kills, cache, argVars, channelVars, replayVars>>

(* Mutant: one try too many.                                               *)
UnansweredOnceMore(g) ==
    /\ gpc[g] = "asking" /\ gtries[g] <= Attempts
    /\ gtries' = [gtries EXCEPT ![g] = @ + 1]
    /\ UNCHANGED <<gpc, gjob, gres, sourceVars, kills, cache, argVars, channelVars, replayVars>>

(* doCheckpointRequest: no answer, or a status worth another attempt.      *)
Unanswered(g) ==
    /\ gpc[g] = "asking"
    /\ \/ /\ gtries[g] < Attempts
          /\ gtries' = [gtries EXCEPT ![g] = @ + 1]
          /\ UNCHANGED <<gpc, gjob, gres, faults>>
       \/ /\ gtries[g] = Attempts /\ faults < MaxFaults
          /\ faults' = faults + 1
          /\ Finish(g, Failed)
    /\ UNCHANGED <<sourceTip, kills, cache, argVars, channelVars, replayVars>>

WriteCache(g) ==
    /\ gpc[g] = "writing"
    /\ \/ /\ cache' = [cache EXCEPT ![gjob[g]] = gres[g]]
          /\ Finish(g, gres[g])
          /\ UNCHANGED sourceVars
       \/ /\ faults < MaxFaults           \* the write fails half way
          /\ faults' = faults + 1
          /\ Finish(g, Failed)
          /\ UNCHANGED <<sourceTip, cache>>
    /\ UNCHANGED <<kills, argVars, channelVars, replayVars>>

-------------------------------------------------------------------------------
(* The fetchers. *)

TakeJobLeaving(f, rest) ==
    /\ gpc[f] = "idle" /\ todo # {}
    /\ gjob' = [gjob EXCEPT ![f] = Lowest(todo)]
    /\ gpc' = [gpc EXCEPT ![f] = "reading"]
    /\ todo' = rest
    /\ UNCHANGED <<sourceVars, kills, cache, argVars, results, pending,
                   replayVars, gtries, gres>>

(* Mutant: two fetchers may come away with the same job.                   *)
ShareJob(f) == todo # {} /\ \E rest \in {todo, todo \ {Lowest(todo)}} : TakeJobLeaving(f, rest)

TakeJob(f) == TakeJobLeaving(f, todo \ {Lowest(todo)})

SendOf(f, blocks) ==
    /\ gpc[f] = "sending" /\ Len(results) < Cardinality(Fetchers)
    /\ results' = IF gres[f] \in blocks
                  THEN Append(results, [height |-> gjob[f], block |-> gres[f]])
                  ELSE results
    /\ gpc' = [gpc EXCEPT ![f] = "idle"]
    /\ gjob' = [gjob EXCEPT ![f] = 0]
    /\ gres' = [gres EXCEPT ![f] = None]
    /\ UNCHANGED <<sourceVars, kills, cache, argVars, todo, pending, replayVars, gtries>>

(* Mutant: a fetcher that failed goes on without a word.                   *)
SendAnswers(f) == SendOf(f, Blocks)

Send(f) == SendOf(f, Blocks \cup {Failed})

(* No job left.  Once the replay is over blockFetcher.close cancels them   *)
(* all, which it does not wait for and nobody sees.                        *)
FetcherExit(f) ==
    /\ phase = "running" /\ gpc[f] = "idle" /\ todo = {}
    /\ gpc' = [gpc EXCEPT ![f] = "exited"]
    /\ UNCHANGED <<sourceVars, kills, cache, argVars, channelVars, replayVars,
                   gjob, gtries, gres>>

ClientNext(g) ==
    ReadCache(g) \/ Answered(g) \/ Misserved(g) \/ Absent(g) \/ Unanswered(g) \/ WriteCache(g)

FetcherNext(f) == ClientNext(f) \/ TakeJob(f) \/ Send(f) \/ FetcherExit(f)

-------------------------------------------------------------------------------
(* The replay itself, on the caller's goroutine.                           *)

Applied(r, h, b) ==
    IF Height(b) # h THEN [r EXCEPT !.failed = TRUE] ELSE Apply(r, b)

Fail(why) ==
    /\ phase' = "failed" /\ err' = why
    /\ UNCHANGED <<replayer, lastApplied, snapshots, event, held, clientVars>>

(* The state fits block b at height h: a snapshot if one is wanted.        *)
Keep(h, b, r) ==
    /\ replayer' = r
    /\ snapshots' = IF h \in checkpointSet
                    THEN Append(snapshots, [height |-> h, block |-> b,
                                            bits |-> r.bits, size |-> r.size])
                    ELSE snapshots
    /\ phase' = IF ahead' = {} THEN "done" ELSE "running"
    /\ event' = 0 /\ held' = None
    /\ UNCHANGED err

FetchGap(h) ==
    /\ gpc' = [gpc EXCEPT ![Main] = "reading"]
    /\ gjob' = [gjob EXCEPT ![Main] = h]
    /\ gres' = [gres EXCEPT ![Main] = None]
    /\ UNCHANGED gtries

RecoverFrom(from, h, b) ==
    /\ event' = h /\ held' = b
    /\ FetchGap(from)
    /\ UNCHANGED <<phase, err, replayer, lastApplied, snapshots>>

(* Mutant: the first block of the gap is passed over.                      *)
RecoverShort(h, b) == RecoverFrom(lastApplied + 2, h, b)

(* The replay goes on from the copy made before the block was applied.     *)
RecoverGap(h, b) == RecoverFrom(lastApplied + 1, h, b)

(* A block listed as having events; Verify and recovery as they fall.      *)
ApplyEvent(h, b) ==
    LET r == Applied(replayer, h, b)
    IN  \/ /\ VerifyBlockState(r, b)
           /\ Keep(h, b, r)
           /\ lastApplied' = h
           /\ UNCHANGED clientVars
        \/ ~VerifyBlockState(r, b) /\ lastApplied + 1 <= h - 1 /\ RecoverGap(h, b)
        \/ ~VerifyBlockState(r, b) /\ lastApplied + 1 > h - 1 /\ Fail("mismatch")

(* A checkpoint height that is not listed: nothing is applied, and a       *)
(* leafset that does not fit is not recovered.                             *)
CheckEmpty(h, b) ==
    \/ /\ VerifyBlockState(replayer, b)
       /\ Keep(h, b, replayer)
       /\ UNCHANGED <<lastApplied, clientVars>>
    \/ ~VerifyBlockState(replayer, b) /\ Fail("mismatch")

Process(h, res) ==
    /\ ahead' = ahead \ {h}
    /\ \/ res = Failed /\ Fail("fetch")
       \/ res # Failed /\ h \in nonEmptySet /\ ApplyEvent(h, res)
       \/ res # Failed /\ h \notin nonEmptySet /\ CheckEmpty(h, res)

Waiting == phase = "running" /\ event = 0
Early == {p \in pending : p.height = Lowest(ahead)}

TakePending ==
    /\ Waiting
    /\ \E p \in Early : /\ Process(p.height, p.block)
                        /\ pending' = pending \ {p}
    /\ UNCHANGED <<sourceVars, kills, cache, argVars, todo, results>>

TakeResult ==
    /\ Waiting /\ Early = {} /\ results # <<>>
    /\ results' = Tail(results)
    /\ LET p == Head(results)
       IN  \/ /\ p.height = Lowest(ahead)
              /\ Process(p.height, p.block)
              /\ UNCHANGED pending
           \/ /\ p.height # Lowest(ahead)
              /\ pending' = pending \cup {p}
              /\ UNCHANGED <<replayVars, clientVars>>
    /\ UNCHANGED <<sourceVars, kills, cache, argVars, todo>>

(* results is closed once every fetcher has returned.                      *)
NothingFetched ==
    /\ Waiting /\ Early = {} /\ results = <<>>
    /\ \A f \in Fetchers : gpc[f] = "exited"
    /\ Fail("missing")
    /\ UNCHANGED <<sourceVars, kills, cache, argVars, channelVars, ahead>>

(* recoverMissingReplayGap has the next block; after the last one the      *)
(* block that did not fit is tried again.                                  *)
RecoverBlock ==
    /\ phase = "running" /\ event # 0 /\ gpc[Main] = "sending"
    /\ UNCHANGED <<sourceVars, kills, cache, argVars, channelVars, ahead>>
    /\ LET h == gjob[Main]
           b == gres[Main]
           r == IF HasLeafsetEvents(b) THEN Applied(replayer, h, b) ELSE replayer
           last == Applied(r, event, held)
       IN  \/ b = Failed /\ Fail("gap")
           \/ b # Failed /\ ~VerifyBlockState(r, b) /\ Fail("mismatch")
           \/ /\ b # Failed /\ VerifyBlockState(r, b) /\ h < event - 1
              /\ replayer' = r
              /\ FetchGap(h + 1)
              /\ UNCHANGED <<phase, err, event, held, lastApplied, snapshots>>
           \/ /\ b # Failed /\ VerifyBlockState(r, b) /\ h = event - 1
              /\ \/ /\ VerifyBlockState(last, held)
                    /\ Keep(event, held, last)
                    /\ lastApplied' = event
                    /\ gpc' = [gpc EXCEPT ![Main] = "idle"]
                    /\ gjob' = [gjob EXCEPT ![Main] = 0]
                    /\ gres' = [gres EXCEPT ![Main] = None]
                    /\ UNCHANGED gtries
                 \/ ~VerifyBlockState(last, held) /\ Fail("mismatch")

ReplayNext ==
    \/ \E f \in Fetchers : FetcherNext(f)
    \/ ClientNext(Main)
    \/ TakePending \/ TakeResult \/ NothingFetched \/ RecoverBlock

-------------------------------------------------------------------------------
Fetching(f, h) == gpc[f] \in {"reading", "asking", "writing", "sending"} /\ gjob[f] = h

(* Safety: a height the replay still waits for is somewhere between the    *)
(* feeder and the map of early results, so that the replay never finds the *)
(* channel closed and the block "missing"; whatever the fetchers'          *)
(* interleaving, the order of their answers and the errors among them.     *)
NothingLost ==
    /\ phase = "running" => \A h \in ahead :
         \/ h \in todo
         \/ \E f \in Fetchers : Fetching(f, h)
         \/ \E i \in 1..Len(results) : results[i].height = h
         \/ \E p \in pending : p.height = h
    /\ err # "missing"

(* Safety: two goroutines never work on the same cache file, though        *)
(* nothing locks it: neither two fetchers nor a fetcher and the recovery   *)
(* of a gap, which reads and writes the same directory meanwhile.          *)
OneWriterPerFile ==
    \A g, k \in Goroutines :
        /\ g # k
        /\ gpc[g] \in {"reading", "asking", "writing"}
        /\ gpc[k] \in {"reading", "asking", "writing"}
        => gjob[g] # gjob[k]

(* Safety: a snapshot is the leafset of the block it carries, and its size *)
(* the block's whenever the source told it; whatever the list left out,    *)
(* the cache held or the source answered.                                  *)
SnapshotsTrue ==
    \A i \in 1..Len(snapshots) : LET s == snapshots[i] IN
        /\ s.bits = Unspent[s.block]
        /\ s.block \in Sized => s.size = SizeOf(s.block)

(* Blocks with events the list left out, up to height h. *)
Missed(h) ==
    {k \in 1..h : OnSource(k) /\ k \notin nonEmptySet
                  /\ HasLeafsetEvents(Path[sourceTip][k])}

(* Safety: what verification and recovery are for, and where they stop.     *)
(* With a source that answers, does not reorganise and names num_txos for    *)
(* the listed blocks, a leafset that does not fit is put right from the      *)
(* blocks the list left out, but for two places.  At a checkpoint height     *)
(* that is not listed nothing is recovered.  And at the first listed height  *)
(* the recovery starts from the very first block of the chain, which has no  *)
(* MWEB data: it ends there with an error, though nothing failed.            *)
SizesTold == \A n \in nonEmptySet : OnSource(n) => Path[sourceTip][n] \in Sized

RecoversMissed ==
    phase = "failed" /\ err \in {"mismatch", "gap"} /\ faults = 0 /\ SizesTold =>
        \/ /\ err = "mismatch"
           /\ \E h \in checkpointSet \ nonEmptySet : \E k \in Missed(h) :
                 \A n \in nonEmptySet : n < k \/ n > h
        \/ /\ err = "gap"
           /\ \E h \in nonEmptySet :
                 Missed(h) # {} /\ \A n \in nonEmptySet : h <= n

(* Taken by itself: any heights may be asked for and listed.               *)
ReplayAlone ==
    \/ ReplayNext \/ Kill \/ ProcessExit
    \/ \E b \in Blocks : MoveSource(b)
    \/ \E C \in SUBSET ReplayHeights, N \in SUBSET Heights : Begin(C, N)

ReplaySpec == ReplayInit /\ [][ReplayAlone]_replayState
===============================================================================
