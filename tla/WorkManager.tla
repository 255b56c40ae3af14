----------------------------- MODULE WorkManager ------------------------------
(***************************************************************************)
(* The work manager every network query goes through: the dispatcher       *)
(* (peerWorkManager.workDispatcher, one goroutine), one worker goroutine   *)
(* per connected peer, and the callers of Query.  All hand-offs are over   *)
(* unbuffered channels, so a send and its receive are one step; a batch's  *)
(* errChan holds one error.                                                *)
(*                                                                         *)
(* A batch is one call of Query and its jobs are numbered.  The queries'   *)
(* cancel channels are blockManager.quit and ChainService.quit, which are  *)
(* closed only after Stop has returned: by then every worker is gone, so   *)
(* the ErrJobCanceled branches have no step here.                          *)
(***************************************************************************)
EXTENDS Integers, Sequences, FiniteSets

CONSTANTS
    Batches,    \* the calls of Query
    Size,       \* call |-> its number of requests
    MaxRetries, \* call |-> options.numRetries
    NoRetryMax, \* the calls made with NoRetryMax
    Rendezvous, \* the calls whose handler waits for the caller to take each
                \* answer (getMwebUtxosBatch: utxosChan has no buffer)
    Peers,      \* connections
    Addr,       \* connection |-> the peer's address
    Good,       \* peers that answer in time and do not disconnect
    BestScore, DefaultScore, WorstScore,
    None

Jobs == UNION {{b} \X (1..Size[b]) : b \in Batches}
Unranked == WorstScore + 1

ASSUME WorkManagerAssumption ==
    /\ Size \in [Batches -> Nat \ {0}]
    /\ MaxRetries \in [Batches -> Nat]
    /\ NoRetryMax \subseteq Batches
    /\ Rendezvous \subseteq Batches
    /\ Good \subseteq Peers
    /\ DOMAIN Addr = Peers
    /\ BestScore \in Nat /\ DefaultScore \in Nat /\ WorstScore \in Nat
    /\ BestScore <= DefaultScore /\ DefaultScore <= WorstScore
    /\ None \notin Jobs

VARIABLES
    cpc,        \* where each caller is: sending (in Query), waiting, returned
    got,        \* the requests of a batch whose answers its handler accepted
    answers,    \* everything put into the batch's errChan
    batchIndex, \* batches accepted so far
    number,     \* accepted batch |-> its batchIndex
    currentBatches,
    left,       \* batchProgress.jobs
    work,       \* the work queue
    tries, reset,
    workers,    \* the keys of the dispatcher's map
    activeJob,
    rank,
    wpc,        \* where each worker is
    wjob,       \* its job
    wres,       \* the error of the result it is handing over
    up,         \* the connections still alive
    dpc,        \* the dispatcher: run, done
    stop        \* no, quit (w.quit is closed), stopped (Stop returned)

callerVars == <<cpc, got>>
batchVars == <<answers, currentBatches, left, tries, reset>>
acceptVars == <<batchIndex, number>>
slotVars == <<workers, activeJob>>
workerVars == <<wpc, wjob, wres>>
vars == <<callerVars, batchVars, acceptVars, work, slotVars, rank,
          workerVars, up, dpc, stop>>

CallerPCs == {"sending", "waiting", "returned"}
WorkerPCs == {"none", "idle", "working", "delivering", "result", "exited"}
Busy == {"working", "delivering", "result"}
Failures == {"timeout", "disconnected"}
Answers == {"ok", "shutdown"} \cup Failures

TypeOK ==
    /\ cpc \in [Batches -> CallerPCs]
    /\ got \in [Batches -> SUBSET Nat]
    /\ \A b \in Batches : got[b] \subseteq 1..Size[b]
    /\ answers \in [Batches -> Seq(Answers)]
    /\ batchIndex \in Nat
    /\ number \in [Batches -> Nat]
    /\ currentBatches \subseteq Batches
    /\ left \in [Batches -> SUBSET Jobs]
    /\ work \subseteq Jobs
    /\ tries \in [Jobs -> Nat]
    /\ reset \subseteq Jobs
    /\ workers \subseteq Peers
    /\ activeJob \in [Peers -> Jobs \cup {None}]
    /\ rank \in [{Addr[p] : p \in Peers} -> BestScore..Unranked]
    /\ wpc \in [Peers -> WorkerPCs]
    /\ wjob \in [Peers -> Jobs \cup {None}]
    /\ wres \in [Peers -> Failures \cup {"ok"}]
    /\ up \subseteq Peers
    /\ dpc \in {"run", "done"}
    /\ stop \in {"no", "quit", "stopped"}

Init ==
    /\ cpc = [b \in Batches |-> "sending"]
    /\ got = [b \in Batches |-> {}]
    /\ answers = [b \in Batches |-> <<>>]
    /\ batchIndex = 0
    /\ number = [b \in Batches |-> 0]
    /\ currentBatches = {}
    /\ left = [b \in Batches |-> {}]
    /\ work = {}
    /\ tries = [j \in Jobs |-> 0]
    /\ reset = {}
    /\ workers = {}
    /\ activeJob = [p \in Peers |-> None]
    /\ rank = [a \in {Addr[p] : p \in Peers} |-> Unranked]
    /\ wpc = [p \in Peers |-> "none"]
    /\ wjob = [p \in Peers |-> None]
    /\ wres = [p \in Peers |-> "ok"]
    /\ up = Peers
    /\ dpc = "run"
    /\ stop = "no"

JobsOf(b) == {j \in Jobs : j[1] = b}
Complete(b) == got[b] = 1..Size[b]

-------------------------------------------------------------------------------
(* Callers.  A call of Query is at its select until the dispatcher takes   *)
(* the batch, however late that is, or w.quit is closed.                   *)

(* Query's select finds w.quit closed.                                     *)
QueryRefused(b) ==
    /\ cpc[b] = "sending" /\ stop # "no"
    /\ cpc' = [cpc EXCEPT ![b] = "waiting"]
    /\ answers' = [answers EXCEPT ![b] = Append(@, "shutdown")]
    /\ UNCHANGED <<got, currentBatches, left, tries, reset, acceptVars, work,
                   slotVars, rank, workerVars, up, dpc, stop>>

(* The caller reads errChan: an error ends it at once, a nil when it has   *)
(* the answers to all its requests (until then it goes on waiting).        *)
TakeAnswer(b) ==
    /\ cpc[b] = "waiting" /\ answers[b] # <<>>
    /\ Head(answers[b]) # "ok" \/ Complete(b)
    /\ cpc' = [cpc EXCEPT ![b] = "returned"]
    /\ UNCHANGED <<got, batchVars, acceptVars, work, slotVars, rank,
                   workerVars, up, dpc, stop>>

(* The caller's own quit channel, closed once Stop has returned.           *)
CallerQuit(b) ==
    /\ cpc[b] = "waiting" /\ stop = "stopped"
    /\ cpc' = [cpc EXCEPT ![b] = "returned"]
    /\ UNCHANGED <<got, batchVars, acceptVars, work, slotVars, rank,
                   workerVars, up, dpc, stop>>

-------------------------------------------------------------------------------
(* The dispatcher.  While there is work and a worker with a free slot, it  *)
(* waits on the best ranked one; otherwise it selects among its inputs.    *)

Before(i, j) ==
    \/ number[i[1]] < number[j[1]]
    \/ i[1] = j[1] /\ i[2] < j[2]
Peek(j) == j \in work /\ \A i \in work \ {j} : Before(j, i)

Free == {p \in workers : activeJob[p] = None}
Best == {p \in Free : \A q \in Free : rank[Addr[p]] <= rank[Addr[q]]}

Offering == dpc = "run" /\ work # {} /\ Free # {}
Selecting == dpc = "run" /\ (work = {} \/ Free = {})

Give(p, j) ==
    /\ Offering /\ p \in Best
    /\ wpc[p] = "idle"
    /\ Peek(j)
    /\ activeJob' = [activeJob EXCEPT ![p] = j]
    /\ wjob' = [wjob EXCEPT ![p] = j]
    /\ wpc' = [wpc EXCEPT ![p] = "working"]
    /\ UNCHANGED <<callerVars, batchVars, acceptVars, workers, rank, wres, up,
                   dpc, stop>>

(* Mutant: the job is not taken off the queue.                             *)
AssignKept(p) == \E next \in work : Give(p, next) /\ work' = work

Assign(p) == \E next \in work : Give(p, next) /\ work' = work \ {next}

Reap(p) ==
    /\ Offering /\ p \in Best
    /\ wpc[p] = "exited"
    /\ workers' = workers \ {p}
    /\ UNCHANGED <<callerVars, batchVars, acceptVars, work, activeJob, rank,
                   workerVars, up, dpc, stop>>

NewPeer(p) ==
    /\ Selecting
    /\ wpc[p] = "none"
    /\ workers' = workers \cup {p}
    /\ wpc' = [wpc EXCEPT ![p] = "idle"]
    /\ rank' = IF rank[Addr[p]] = Unranked
               THEN [rank EXCEPT ![Addr[p]] = DefaultScore] ELSE rank
    /\ UNCHANGED <<callerVars, batchVars, acceptVars, work, activeJob, wjob,
                   wres, up, dpc, stop>>

NewBatch(b) ==
    /\ Selecting
    /\ cpc[b] = "sending"
    /\ cpc' = [cpc EXCEPT ![b] = "waiting"]
    /\ work' = work \cup JobsOf(b)
    /\ left' = [left EXCEPT ![b] = JobsOf(b)]
    /\ currentBatches' = currentBatches \cup {b}
    /\ number' = [number EXCEPT ![b] = batchIndex]
    /\ batchIndex' = batchIndex + 1
    /\ UNCHANGED <<got, answers, tries, reset, slotVars, rank, workerVars, up,
                   dpc, stop>>

(* A batch leaves currentBatches with an error, or nil, on its errChan.    *)
Finish(b, e) ==
    /\ answers' = [answers EXCEPT ![b] = Append(@, e)]
    /\ currentBatches' = currentBatches \ {b}
    /\ left' = [left EXCEPT ![b] = {}]

(* Mutant: the batch that timed out is not deleted.                        *)
BatchTimeoutKept(b) ==
    /\ Selecting
    /\ b \in currentBatches
    /\ answers' = [answers EXCEPT ![b] = Append(@, "timeout")]
    /\ UNCHANGED <<callerVars, currentBatches, left, tries, reset, acceptVars,
                   work, slotVars, rank, workerVars, up, dpc, stop>>

(* The batch's timeout goroutine reports (one that reports a batch already *)
(* answered changes nothing).  Every call of Query has one: the default    *)
(* of 30 s is there unless the caller names another.                       *)
BatchTimeout(b) ==
    /\ Selecting
    /\ b \in currentBatches
    /\ Finish(b, "timeout")
    /\ UNCHANGED <<callerVars, tries, reset, acceptVars, work, slotVars, rank,
                   workerVars, up, dpc, stop>>

Reward(p) == rank' = [rank EXCEPT ![Addr[p]] = IF @ = BestScore THEN @ ELSE @ - 1]

(* Mutant: no cap on the score.                                            *)
PunishMore(p) == rank' = [rank EXCEPT ![Addr[p]] = @ + 1]

Punish(p) == rank' = [rank EXCEPT ![Addr[p]] = IF @ = WorstScore THEN @ ELSE @ + 1]

(* Mutant: a batch is done when one job is left.                           *)
SucceededEarly(b, j) ==
    LET jobs == left[b] \ {j} IN
    /\ Cardinality(jobs) <= 1
    /\ Finish(b, "ok")
    /\ UNCHANGED <<tries, reset, work>>

(* The switch over result.err, for a batch that is not yet answered.       *)
Succeeded(b, j) ==
    LET jobs == left[b] \ {j} IN
    /\ reset' = reset \cup jobs
    /\ \/ jobs = {} /\ Finish(b, "ok")
       \/ /\ jobs # {}
          /\ left' = [left EXCEPT ![b] = jobs]
          /\ UNCHANGED <<answers, currentBatches>>
    /\ UNCHANGED <<tries, work>>

Tried(b, j) == IF b \in NoRetryMax THEN tries[j] ELSE tries[j] + 1

(* Mutant: the batch is cancelled without telling its caller.              *)
GaveUpSilently(b, j, e) ==
    /\ b \notin NoRetryMax /\ j \notin reset
    /\ Tried(b, j) >= MaxRetries[b]
    /\ tries' = [tries EXCEPT ![j] = Tried(b, j)]
    /\ currentBatches' = currentBatches \ {b}
    /\ UNCHANGED <<answers, left, reset, work>>

GaveUp(b, j, e) ==
    /\ b \notin NoRetryMax /\ j \notin reset
    /\ Tried(b, j) >= MaxRetries[b]
    /\ tries' = [tries EXCEPT ![j] = Tried(b, j)]
    /\ Finish(b, e)
    /\ UNCHANGED <<reset, work>>

Rescheduled(b, j) ==
    /\ b \in NoRetryMax \/ j \in reset \/ Tried(b, j) < MaxRetries[b]
    /\ tries' = [tries EXCEPT ![j] = IF j \in reset THEN 0 ELSE Tried(b, j)]
    /\ reset' = reset \ {j}
    /\ work' = work \cup {j}
    /\ UNCHANGED <<answers, currentBatches, left>>

(* A result comes back; the worker exits if its peer disconnected and      *)
(* waits for its next job otherwise.                                       *)
Result(p) ==
    LET j == wjob[p]
        b == j[1]
    IN
    /\ Selecting
    /\ wpc[p] = "result"
    /\ activeJob' = [activeJob EXCEPT ![p] = None]
    /\ IF wres[p] = "ok" THEN Reward(p) ELSE Punish(p)
    /\ \/ b \notin currentBatches /\ UNCHANGED <<batchVars, work>>
       \/ b \in currentBatches /\ wres[p] = "ok" /\ Succeeded(b, j)
       \/ b \in currentBatches /\ wres[p] # "ok" /\ GaveUp(b, j, wres[p])
       \/ b \in currentBatches /\ wres[p] # "ok" /\ Rescheduled(b, j)
    /\ wpc' = [wpc EXCEPT ![p] =
                  IF wres[p] = "disconnected" THEN "exited" ELSE "idle"]
    /\ wjob' = [wjob EXCEPT ![p] = None]
    /\ wres' = [wres EXCEPT ![p] = "ok"]
    /\ UNCHANGED <<callerVars, acceptVars, workers, up, dpc, stop>>

(* w.quit is closed: every batch that is left is told so.                  *)
DispatcherQuit ==
    /\ dpc = "run" /\ stop # "no"
    /\ dpc' = "done"
    /\ answers' = [b \in Batches |-> IF b \in currentBatches
                                     THEN Append(answers[b], "shutdown")
                                     ELSE answers[b]]
    /\ currentBatches' = {}
    /\ left' = [b \in Batches |-> {}]
    /\ UNCHANGED <<callerVars, tries, reset, acceptVars, work, slotVars,
                   rank, workerVars, up, stop>>

-------------------------------------------------------------------------------
(* Workers and their peers.                                                *)

HasResult(p, e) ==
    /\ wpc' = [wpc EXCEPT ![p] = "result"]
    /\ wres' = [wres EXCEPT ![p] = e]

(* The peer answers and the handler accepts: it has the answer, or must    *)
(* hand it to the caller first.                                            *)
Answer(p) ==
    LET b == wjob[p][1] IN
    /\ wpc[p] = "working" /\ p \in up
    /\ \/ /\ b \in Rendezvous
          /\ wpc' = [wpc EXCEPT ![p] = "delivering"]
          /\ UNCHANGED <<got, wres>>
       \/ /\ b \notin Rendezvous
          /\ got' = [got EXCEPT ![b] = @ \cup {wjob[p][2]}]
          /\ HasResult(p, "ok")
    /\ UNCHANGED <<cpc, batchVars, acceptVars, work, slotVars, rank, wjob, up,
                   dpc, stop>>

(* handleResponse's send on utxosChan meets the caller's receive; the      *)
(* caller stores the outputs, and returns if that fails or they are all    *)
(* there.  The handler's other case, blockManager.quit, comes too late.    *)
Deliver(p, stored) ==
    LET b == wjob[p][1] IN
    /\ wpc[p] = "delivering" /\ cpc[b] = "waiting"
    /\ got' = [got EXCEPT ![b] = @ \cup {wjob[p][2]}]
    /\ cpc' = IF stored /\ got'[b] # 1..Size[b] THEN cpc
              ELSE [cpc EXCEPT ![b] = "returned"]
    /\ HasResult(p, "ok")
    /\ UNCHANGED <<batchVars, acceptVars, work, slotVars, rank, wjob, up, dpc,
                   stop>>

(* Mutant: a worker is taken off the map when its peer disconnects, before  *)
(* its result is read.                                                     *)
FailReaped(p) ==
    /\ wpc[p] = "working" /\ p \notin up
    /\ HasResult(p, "disconnected")
    /\ workers' = workers \ {p}
    /\ UNCHANGED <<callerVars, batchVars, acceptVars, work, activeJob, rank,
                   wjob, up, dpc, stop>>

(* No valid answer within job.timeout, or the peer is gone.                *)
Fail(p) ==
    /\ wpc[p] = "working"
    /\ \/ p \notin Good /\ HasResult(p, "timeout")
       \/ p \notin up /\ HasResult(p, "disconnected")
    /\ UNCHANGED <<callerVars, batchVars, acceptVars, work, slotVars, rank,
                   wjob, up, dpc, stop>>

(* Run returns: the peer is gone and it has no job, or w.quit is closed.   *)
(* A worker inside its handler does not look at w.quit.                    *)
WorkerExit(p) ==
    /\ \/ wpc[p] = "idle" /\ p \notin up
       \/ wpc[p] \in {"idle", "working", "result"} /\ stop # "no"
    /\ wpc' = [wpc EXCEPT ![p] = "exited"]
    /\ UNCHANGED <<callerVars, batchVars, acceptVars, work, slotVars, rank,
                   wjob, wres, up, dpc, stop>>

Disconnect(p) ==
    /\ p \in up \ Good
    /\ up' = up \ {p}
    /\ UNCHANGED <<callerVars, batchVars, acceptVars, work, slotVars, rank,
                   workerVars, dpc, stop>>

-------------------------------------------------------------------------------
(* ChainService.Stop calls Stop, and closes the block manager's quit only  *)
(* when it has returned.                                                   *)

StopCalled ==
    /\ stop = "no"
    /\ stop' = "quit"
    /\ UNCHANGED <<callerVars, batchVars, acceptVars, work, slotVars, rank,
                   workerVars, up, dpc>>

StopReturned ==
    /\ stop = "quit" /\ dpc = "done"
    /\ \A p \in Peers : wpc[p] \in {"none", "exited"}
    /\ stop' = "stopped"
    /\ UNCHANGED <<callerVars, batchVars, acceptVars, work, slotVars, rank,
                   workerVars, up, dpc>>

CallerNext(b) == QueryRefused(b) \/ TakeAnswer(b) \/ CallerQuit(b)
DispatcherNext ==
    \/ \E b \in Batches : NewBatch(b) \/ BatchTimeout(b)
    \/ \E p \in Peers : Assign(p) \/ Reap(p) \/ NewPeer(p) \/ Result(p)
    \/ DispatcherQuit
WorkerNext(p) ==
    \/ Answer(p) \/ Fail(p) \/ WorkerExit(p) \/ Disconnect(p)
    \/ \E stored \in BOOLEAN : Deliver(p, stored)

Next ==
    \/ \E b \in Batches : CallerNext(b)
    \/ DispatcherNext
    \/ \E p \in Peers : WorkerNext(p)
    \/ StopCalled \/ StopReturned

Spec == Init /\ [][Next]_vars

(* Go's select picks a ready case at random, so a case that is ready again *)
(* and again is taken (strong fairness); a goroutine that can go on does,  *)
(* and timers strike.  Nobody has to call Stop.                            *)
QueryFairness ==
    /\ \A b \in Batches :
          /\ WF_vars(QueryRefused(b)) /\ WF_vars(TakeAnswer(b))
          /\ SF_vars(NewBatch(b)) /\ SF_vars(BatchTimeout(b))
    /\ WF_vars(\E p \in Peers : Assign(p) \/ Reap(p))
    /\ WF_vars(DispatcherQuit)

(* The same for the workers; a good peer answers, the others may do what   *)
(* they like.                                                              *)
WorkerFairness ==
    /\ WF_vars(StopReturned)
    /\ \A p \in Peers :
          /\ SF_vars(NewPeer(p)) /\ SF_vars(Result(p))
          /\ WF_vars(\E stored \in BOOLEAN : Deliver(p, stored))
          /\ WF_vars(Fail(p)) /\ WF_vars(WorkerExit(p))
    /\ \A p \in Good : WF_vars(Answer(p))

(* What a call of Query relies on, and what Stop does.                     *)
QuerySpec == Spec /\ QueryFairness
FairSpec == QuerySpec /\ WorkerFairness

-------------------------------------------------------------------------------
(* Properties.                                                             *)

(* A batch is answered exactly once: errChan has room for one error, so a  *)
(* second would block the dispatcher for ever, and a batch that is dropped *)
(* unanswered would leave its caller waiting.  The ways a batch can end -  *)
(* last job, give up, batch timeout, shutdown - all compete for it.        *)
AnsweredOnce ==
    \A b \in Batches :
        IF cpc[b] = "sending" \/ b \in currentBatches
        THEN answers[b] = <<>>
        ELSE Len(answers[b]) = 1

(* A job of a batch in progress is queued or with one worker, never both   *)
(* and never lost, until it has succeeded; then it is nowhere.             *)
Held(j) == \E p \in Peers : activeJob[p] = j
JobsAccounted ==
    /\ \A p, q \in Peers : activeJob[p] # None /\ activeJob[p] = activeJob[q] => p = q
    /\ \A j \in Jobs :
          /\ ~(j \in work /\ Held(j))
          /\ j[1] \in currentBatches =>
                 (j \in left[j[1]] <=> j \in work \/ Held(j))

(* The dispatcher's record of its workers is right when it relies on it: a *)
(* worker it offers a job to is at its select or gone, so the offer cannot *)
(* block, and a result comes from a worker that is still in the map.       *)
WorkersTracked ==
    \A p \in Peers :
        /\ p \in Free => wpc[p] \in {"idle", "exited"}
        /\ wpc[p] \in Busy => p \in workers /\ activeJob[p] = wjob[p]

(* A batch is reported done only when the handler has accepted an answer   *)
(* to each of its requests, whatever was retried, and on whichever peer.   *)
SuccessMeansAnswered ==
    \A b \in Batches : answers[b] = <<"ok">> => Complete(b)

(* Every call of Query ends, with a retry cap or without, whatever the     *)
(* peers do and however long the workers keep a job - a worker wedged in   *)
(* its handler keeps it for ever - and whenever the manager is stopped.    *)
QueryReturns ==
    \A b \in Batches : cpc[b] = "sending" ~> cpc[b] = "returned"

(* "Stop stops the peerWorkManager and all underlying goroutines."         *)
StopReturns == stop = "quit" ~> stop = "stopped"
===============================================================================
