-------------------------- MODULE WorkManagerProofs ---------------------------
(***************************************************************************)
(* Proofs that the work manager answers every batch once, loses no job,    *)
(* offers jobs only to workers that can take them, and reports success     *)
(* only of complete batches, for any number of batches, requests, retries  *)
(* and peers.                                                              *)
(***************************************************************************)
EXTENDS TLAPS, WorkManager

(* Until its caller's send is received, a batch and its jobs are nowhere. *)
Unsent ==
    \A b \in Batches : cpc[b] = "sending" =>
        /\ b \notin currentBatches
        /\ \A j \in JobsOf(b) : j \notin work /\ ~Held(j)

LeftOwn == \A b \in Batches : left[b] \subseteq JobsOf(b)

(* A request that is no longer left has been answered. *)
LeftCovers ==
    \A b \in currentBatches : \A j \in JobsOf(b) \ left[b] : j[2] \in got[b]

(* A worker that is busy has a job, and one that reports success of it has *)
(* the answer.                                                             *)
WorkerShape ==
    \A p \in Peers :
        /\ wpc[p] \in Busy => wjob[p] # None
        /\ wpc[p] = "result" /\ wres[p] = "ok" => wjob[p][2] \in got[wjob[p][1]]

(* A peer that was ever connected has a score. *)
Ranked == \A p \in Peers : wpc[p] # "none" => rank[Addr[p]] <= WorstScore

IInv == /\ TypeOK /\ Unsent /\ LeftOwn /\ LeftCovers /\ WorkerShape /\ Ranked
        /\ AnsweredOnce /\ JobsAccounted /\ WorkersTracked /\ SuccessMeansAnswered
-------------------------------------------------------------------------------
LEMMA JobType ==
    ASSUME NEW j \in Jobs
    PROVE  j[1] \in Batches /\ j[2] \in 1..Size[j[1]] /\ j \in JobsOf(j[1])
BY DEF Jobs, JobsOf

LEMMA JobOf ==
    ASSUME NEW b \in Batches, NEW i \in 1..Size[b]
    PROVE  <<b, i>> \in JobsOf(b)
BY DEF Jobs, JobsOf

LEMMA JobsOfType == ASSUME NEW b \in Batches PROVE JobsOf(b) \subseteq Jobs
BY DEF JobsOf

(* The job of a worker that hands over a result. *)
LEMMA ResultJob ==
    ASSUME IInv, NEW p \in Peers, wpc[p] \in Busy
    PROVE  /\ wjob[p] \in Jobs /\ wjob[p] = activeJob[p] /\ p \in workers
           /\ wjob[p][1] \in Batches /\ wjob[p][2] \in 1..Size[wjob[p][1]]
           /\ wjob[p] \in JobsOf(wjob[p][1])
<1>1. wjob[p] \in Jobs
  BY DEF IInv, TypeOK, WorkerShape
<1> QED
  BY <1>1, JobType DEF IInv, WorkersTracked

LEMMA InitInv == Init => IInv
<1> SUFFICES ASSUME Init PROVE IInv
  OBVIOUS
<1>1. TypeOK
  BY WorkManagerAssumption DEF Init, TypeOK, CallerPCs, WorkerPCs, Answers, Failures, Unranked
<1>2. Unsent /\ LeftOwn /\ LeftCovers /\ Ranked
  BY WorkManagerAssumption, JobsOfType DEF Init, Unsent, LeftOwn, LeftCovers, Ranked, Held
<1>3. WorkerShape /\ WorkersTracked
  BY DEF Init, WorkerShape, WorkersTracked, Busy, Free
<1>4. AnsweredOnce /\ SuccessMeansAnswered
  BY DEF Init, AnsweredOnce, SuccessMeansAnswered
<1>5. JobsAccounted
  BY WorkManagerAssumption DEF Init, JobsAccounted, Held
<1> QED
  BY <1>1, <1>2, <1>3, <1>4, <1>5 DEF IInv
-------------------------------------------------------------------------------
(* The types. *)

LEMMA ScoreSteps ==
    ASSUME TypeOK, NEW p \in Peers, rank[Addr[p]] <= WorstScore, Reward(p) \/ Punish(p)
    PROVE  /\ rank' \in [{Addr[q] : q \in Peers} -> BestScore..Unranked]
           /\ \A q \in Peers : rank[Addr[q]] <= WorstScore => rank'[Addr[q]] <= WorstScore
<1>1. rank[Addr[p]] \in BestScore..WorstScore
  BY WorkManagerAssumption DEF TypeOK, Unranked
<1> DEFINE A == {Addr[q] : q \in Peers}
           a == Addr[p]
           better == IF rank[a] = BestScore THEN rank[a] ELSE rank[a] - 1
           worse == IF rank[a] = WorstScore THEN rank[a] ELSE rank[a] + 1
<1>2. PICK s \in BestScore..WorstScore : rank' = [rank EXCEPT ![a] = s]
  <2>1. better \in BestScore..WorstScore /\ worse \in BestScore..WorstScore
    BY <1>1, WorkManagerAssumption
  <2>2. rank' = [rank EXCEPT ![a] = better] \/ rank' = [rank EXCEPT ![a] = worse]
    BY DEF Reward, Punish
  <2> HIDE DEF better, worse
  <2> QED
    BY <2>1, <2>2
<1>3. a \in A /\ \A q \in Peers : Addr[q] \in A
  OBVIOUS
<1>4. rank \in [A -> BestScore..Unranked]
  BY DEF TypeOK
<1>5. s \in BestScore..Unranked
  BY WorkManagerAssumption DEF Unranked
<1> HIDE DEF A, a, better, worse
<1>6. rank' \in [A -> BestScore..Unranked]
  BY <1>2, <1>4, <1>5
<1>7. \A q \in Peers : rank[Addr[q]] <= WorstScore => rank'[Addr[q]] <= WorstScore
  BY <1>2, <1>3, <1>4, WorkManagerAssumption
<1> QED
  BY <1>6, <1>7 DEF A

LEMMA ResultKeepsTypes ==
    ASSUME IInv, NEW p \in Peers, Result(p)
    PROVE  TypeOK'
<1> DEFINE j == wjob[p]
           b == j[1]
<1>1. j \in Jobs /\ b \in Batches
  BY ResultJob DEF Result, Busy
<1>2. rank' \in [{Addr[q] : q \in Peers} -> BestScore..Unranked]
  <2>1. rank[Addr[p]] <= WorstScore
    BY DEF Result, IInv, Ranked
  <2> QED
    BY <2>1, ScoreSteps DEF Result, IInv
<1>3. Tried(b, j) \in Nat
  BY <1>1 DEF Tried, IInv, TypeOK
<1>4. /\ answers' \in [Batches -> Seq(Answers)] /\ currentBatches' \subseteq Batches
      /\ left' \in [Batches -> SUBSET Jobs] /\ work' \subseteq Jobs
      /\ tries' \in [Jobs -> Nat] /\ reset' \subseteq Jobs
  <2>1. CASE UNCHANGED <<batchVars, work>>
    BY <2>1 DEF IInv, TypeOK, batchVars
  <2>2. CASE Succeeded(b, j)
    <3>1. left[b] \ {j} \in SUBSET Jobs
      BY <1>1 DEF IInv, TypeOK
    <3>2. CASE Finish(b, "ok")
      BY <1>1, <2>2, <3>1, <3>2 DEF Succeeded, Finish, IInv, TypeOK, Answers
    <3>3. CASE /\ left' = [left EXCEPT ![b] = left[b] \ {j}]
               /\ UNCHANGED <<answers, currentBatches>>
      BY <1>1, <2>2, <3>1, <3>3 DEF Succeeded, IInv, TypeOK
    <3> QED
      BY <2>2, <3>2, <3>3 DEF Succeeded
  <2>3. CASE GaveUp(b, j, wres[p])
    BY <1>1, <1>3, <2>3 DEF GaveUp, Finish, IInv, TypeOK, Answers
  <2>4. CASE Rescheduled(b, j)
    BY <1>1, <1>3, <2>4 DEF Rescheduled, IInv, TypeOK
  <2> QED
    BY <2>1, <2>2, <2>3, <2>4 DEF Result
<1> QED
  BY <1>2, <1>4 DEF Result, IInv, TypeOK, callerVars, acceptVars, WorkerPCs

LEMMA TypeStep == ASSUME IInv, [Next]_vars PROVE TypeOK'
<1>1. ASSUME NEW b \in Batches, CallerNext(b) PROVE TypeOK'
  <2>1. CASE QueryRefused(b)
    BY <2>1 DEF QueryRefused, IInv, TypeOK, CallerPCs, Answers, acceptVars, slotVars, workerVars
  <2>2. CASE TakeAnswer(b) \/ CallerQuit(b)
    BY <2>2 DEF TakeAnswer, CallerQuit, IInv, TypeOK, CallerPCs,
                batchVars, acceptVars, slotVars, workerVars
  <2> QED
    BY <1>1, <2>1, <2>2 DEF CallerNext
<1>2. ASSUME NEW b \in Batches, NewBatch(b) PROVE TypeOK'
  BY <1>2, JobsOfType DEF NewBatch, IInv, TypeOK, CallerPCs, slotVars, workerVars
<1>3. ASSUME NEW b \in Batches, BatchTimeout(b) PROVE TypeOK'
  BY <1>3 DEF BatchTimeout, Finish, IInv, TypeOK, Answers, Failures,
              callerVars, acceptVars, slotVars, workerVars
<1>4. ASSUME NEW p \in Peers, Assign(p) \/ Reap(p) PROVE TypeOK'
  <2>1. CASE Assign(p)
    BY <2>1 DEF Assign, Give, IInv, TypeOK, WorkerPCs, callerVars, batchVars, acceptVars
  <2>2. CASE Reap(p)
    BY <2>2 DEF Reap, IInv, TypeOK, callerVars, batchVars, acceptVars, workerVars
  <2> QED
    BY <1>4, <2>1, <2>2
<1>5. ASSUME NEW p \in Peers, NewPeer(p) PROVE TypeOK'
  <2>1. rank' \in [{Addr[q] : q \in Peers} -> BestScore..Unranked]
    BY <1>5, WorkManagerAssumption DEF NewPeer, IInv, TypeOK, Unranked
  <2> QED
    BY <1>5, <2>1 DEF NewPeer, IInv, TypeOK, WorkerPCs, callerVars, batchVars, acceptVars
<1>6. ASSUME NEW p \in Peers, Result(p) PROVE TypeOK'
  BY <1>6, ResultKeepsTypes
<1>7. CASE DispatcherQuit
  BY <1>7 DEF DispatcherQuit, IInv, TypeOK, Answers, callerVars, acceptVars, slotVars, workerVars
<1>8. ASSUME NEW p \in Peers, WorkerNext(p) PROVE TypeOK'
  <2>1. ASSUME wpc[p] \in Busy
        PROVE  LET g == [got EXCEPT ![wjob[p][1]] = @ \cup {wjob[p][2]}] IN
               g \in [Batches -> SUBSET Nat] /\ \A b \in Batches : g[b] \subseteq 1..Size[b]
    <3>1. wjob[p][1] \in Batches /\ wjob[p][2] \in 1..Size[wjob[p][1]] /\ wjob[p][2] \in Nat
      BY <2>1, ResultJob, WorkManagerAssumption
    <3> QED
      BY <3>1 DEF IInv, TypeOK
  <2>2. CASE Answer(p)
    <3>1. wpc' \in [Peers -> WorkerPCs] /\ wres' \in [Peers -> Failures \cup {"ok"}]
      BY <2>2 DEF Answer, HasResult, IInv, TypeOK, WorkerPCs
    <3>2. got' \in [Batches -> SUBSET Nat] /\ \A b \in Batches : got'[b] \subseteq 1..Size[b]
      BY <2>1, <2>2 DEF Answer, Busy, IInv, TypeOK
    <3> QED
      BY <2>2, <3>1, <3>2 DEF Answer, IInv, TypeOK, batchVars, acceptVars, slotVars
  <2>3. ASSUME NEW stored \in BOOLEAN, Deliver(p, stored) PROVE TypeOK'
    <3>1. got' \in [Batches -> SUBSET Nat] /\ \A b \in Batches : got'[b] \subseteq 1..Size[b]
      BY <2>1, <2>3 DEF Deliver, Busy
    <3>2. cpc' \in [Batches -> CallerPCs]
      BY <2>3 DEF Deliver, IInv, TypeOK, CallerPCs
    <3> QED
      BY <2>3, <3>1, <3>2 DEF Deliver, HasResult, IInv, TypeOK, WorkerPCs,
                              batchVars, acceptVars, slotVars
  <2>4. CASE Fail(p)
    BY <2>4 DEF Fail, HasResult, IInv, TypeOK, WorkerPCs, Failures,
                callerVars, batchVars, acceptVars, slotVars
  <2>5. CASE WorkerExit(p) \/ Disconnect(p)
    BY <2>5 DEF WorkerExit, Disconnect, IInv, TypeOK, WorkerPCs,
                callerVars, batchVars, acceptVars, slotVars, workerVars
  <2> QED
    BY <1>8, <2>2, <2>3, <2>4, <2>5 DEF WorkerNext
<1>9. CASE StopCalled \/ StopReturned \/ UNCHANGED vars
  BY <1>9 DEF StopCalled, StopReturned, vars, IInv, TypeOK,
              callerVars, batchVars, acceptVars, slotVars, workerVars
<1> QED
  BY <1>1, <1>2, <1>3, <1>4, <1>5, <1>6, <1>7, <1>8, <1>9 DEF Next, DispatcherNext
-------------------------------------------------------------------------------
(* Where the jobs are. *)

(* What a result does to the batch's jobs: it was with this worker only, so *)
(* it is in no queue and with no other worker.                             *)
LEMMA ResultPlace ==
    ASSUME IInv, NEW p \in Peers, Result(p)
    PROVE  /\ wjob[p] \notin work
           /\ \A q \in Peers \ {p} : activeJob[q] # wjob[p]
           /\ \A j \in Jobs : Held(j)' <=> Held(j) /\ j # wjob[p]
<1>1. wjob[p] \in Jobs /\ wjob[p] = activeJob[p] /\ wjob[p] # None
  BY ResultJob, WorkManagerAssumption DEF Result, Busy
<1>2. \A q \in Peers \ {p} : activeJob[q] # wjob[p]
  BY <1>1 DEF IInv, JobsAccounted
<1>3. wjob[p] \notin work
  BY <1>1 DEF IInv, JobsAccounted, Held
<1>4. ASSUME NEW j \in Jobs PROVE Held(j)' <=> Held(j) /\ j # wjob[p]
  BY <1>1, <1>2, WorkManagerAssumption DEF Result, Held, IInv, TypeOK
<1> QED
  BY <1>2, <1>3, <1>4

LEMMA AssignPlace ==
    ASSUME IInv, NEW p \in Peers, Assign(p)
    PROVE  \E next \in work :
              /\ work' = work \ {next} /\ next \in Jobs /\ ~Held(next) /\ p \in Free
              /\ activeJob' = [activeJob EXCEPT ![p] = next]
              /\ wjob' = [wjob EXCEPT ![p] = next]
              /\ \A j \in Jobs : Held(j)' <=> Held(j) \/ j = next
<1>1. PICK next \in work : Give(p, next) /\ work' = work \ {next}
  BY DEF Assign
<1>2. next \in Jobs /\ ~Held(next) /\ p \in Free /\ activeJob[p] = None
  BY <1>1 DEF IInv, TypeOK, JobsAccounted, Give, Best, Free
<1>3. activeJob' = [activeJob EXCEPT ![p] = next] /\ wjob' = [wjob EXCEPT ![p] = next]
  BY <1>1 DEF Give
<1>4. ASSUME NEW j \in Jobs PROVE Held(j)' <=> Held(j) \/ j = next
  BY <1>2, <1>3, WorkManagerAssumption DEF Held, IInv, TypeOK
<1> QED
  BY <1>1, <1>2, <1>3, <1>4

(* The steps that move no job and change no batch. *)
Still == UNCHANGED <<work, currentBatches, left, activeJob>>

LEMMA StillSteps ==
    ASSUME [Next]_vars,
           ~\E b \in Batches : NewBatch(b) \/ BatchTimeout(b),
           ~\E p \in Peers : Assign(p) \/ Result(p),
           ~DispatcherQuit
    PROVE  Still
BY DEF Next, CallerNext, DispatcherNext, WorkerNext, vars, Still, QueryRefused, TakeAnswer,
       CallerQuit, Reap, NewPeer, Answer, Deliver, Fail, WorkerExit, Disconnect,
       StopCalled, StopReturned, batchVars, slotVars

LEMMA JobsStep == ASSUME IInv, [Next]_vars PROVE JobsAccounted' /\ LeftOwn'
<1>1. ASSUME NEW b \in Batches, NewBatch(b) PROVE JobsAccounted' /\ LeftOwn'
  <2>1. /\ work' = work \cup JobsOf(b) /\ left' = [left EXCEPT ![b] = JobsOf(b)]
        /\ currentBatches' = currentBatches \cup {b} /\ activeJob' = activeJob
    BY <1>1 DEF NewBatch, slotVars
  <2>2. \A j \in JobsOf(b) : j \notin work /\ ~Held(j)
    BY <1>1 DEF NewBatch, IInv, Unsent
  <2>3. \A j \in Jobs : Held(j)' <=> Held(j)
    BY <2>1 DEF Held
  <2>4. ASSUME NEW j \in Jobs
        PROVE  /\ ~(j \in work' /\ Held(j)')
               /\ j[1] \in currentBatches' => (j \in left'[j[1]] <=> j \in work' \/ Held(j)')
    <3>1. CASE j[1] = b
      BY <2>1, <2>2, <2>3, <3>1 DEF JobsOf, IInv, TypeOK
    <3>2. CASE j[1] # b
      BY <2>1, <2>3, <3>2, JobType DEF JobsOf, IInv, TypeOK, JobsAccounted
    <3> QED
      BY <3>1, <3>2
  <2> QED
    BY <2>1, <2>4 DEF IInv, TypeOK, JobsAccounted, LeftOwn
<1>2. ASSUME NEW b \in Batches, BatchTimeout(b) PROVE JobsAccounted' /\ LeftOwn'
  <2>1. /\ currentBatches' = currentBatches \ {b} /\ left' = [left EXCEPT ![b] = {}]
        /\ work' = work /\ activeJob' = activeJob
    BY <1>2 DEF BatchTimeout, Finish, slotVars
  <2>2. \A j \in Jobs : Held(j)' <=> Held(j)
    BY <2>1 DEF Held
  <2> QED
    BY <2>1, <2>2, JobType DEF IInv, TypeOK, JobsAccounted, LeftOwn
<1>3. ASSUME NEW p \in Peers, Assign(p) PROVE JobsAccounted' /\ LeftOwn'
  <2>1. PICK next \in work :
              /\ work' = work \ {next} /\ next \in Jobs /\ ~Held(next) /\ p \in Free
              /\ activeJob' = [activeJob EXCEPT ![p] = next]
              /\ wjob' = [wjob EXCEPT ![p] = next]
              /\ \A j \in Jobs : Held(j)' <=> Held(j) \/ j = next
    BY <1>3, AssignPlace
  <2>2. currentBatches' = currentBatches /\ left' = left
    BY <1>3 DEF Assign, Give, batchVars
  <2>3. \A q, r \in Peers : activeJob'[q] # None /\ activeJob'[q] = activeJob'[r] => q = r
    BY <2>1 DEF IInv, TypeOK, JobsAccounted, Held
  <2>4. ASSUME NEW j \in Jobs
        PROVE  /\ ~(j \in work' /\ Held(j)')
               /\ j[1] \in currentBatches' => (j \in left'[j[1]] <=> j \in work' \/ Held(j)')
    BY <2>1, <2>2 DEF IInv, JobsAccounted
  <2> QED
    BY <2>2, <2>3, <2>4 DEF IInv, JobsAccounted, LeftOwn
<1>4. ASSUME NEW p \in Peers, Result(p) PROVE JobsAccounted' /\ LeftOwn'
  <2> DEFINE j == wjob[p]
             b == j[1]
  <2>1. j \in Jobs /\ b \in Batches /\ activeJob[p] = j /\ j \in JobsOf(b)
    BY <1>4, ResultJob DEF Result, Busy
  <2>2. /\ j \notin work /\ Held(j) /\ activeJob' = [activeJob EXCEPT ![p] = None]
        /\ \A i \in Jobs : Held(i)' <=> Held(i) /\ i # j
    BY <1>4, <2>1, ResultPlace DEF Result, Held
  <2>3. \A q, r \in Peers : activeJob'[q] # None /\ activeJob'[q] = activeJob'[r] => q = r
    BY <2>2 DEF IInv, TypeOK, JobsAccounted
  <2> HIDE DEF j, b
  <2>4. \/ b \notin currentBatches /\ work' = work /\ left' = left /\ currentBatches' = currentBatches
        \/ work' = work /\ left' = [left EXCEPT ![b] = {}] /\ currentBatches' = currentBatches \ {b}
        \/ work' = work /\ left' = [left EXCEPT ![b] = left[b] \ {j}] /\ currentBatches' = currentBatches
        \/ b \in currentBatches /\ work' = work \cup {j} /\ left' = left /\ currentBatches' = currentBatches
    BY <1>4 DEF Result, Succeeded, GaveUp, Rescheduled, Finish, batchVars, j, b
  <2>5. ASSUME NEW i \in Jobs
        PROVE  /\ ~(i \in work' /\ Held(i)')
               /\ i[1] \in currentBatches' => (i \in left'[i[1]] <=> i \in work' \/ Held(i)')
    <3>1. i = j => i[1] = b
      BY <2>1 DEF JobsOf
    <3>2. /\ ~(i \in work /\ Held(i))
          /\ i[1] \in currentBatches => (i \in left[i[1]] <=> i \in work \/ Held(i))
      BY DEF IInv, JobsAccounted
    <3>3. i[1] \in Batches /\ left \in [Batches -> SUBSET Jobs] /\ j[1] = b
      BY JobType DEF IInv, TypeOK, b, j
    <3> QED
      BY <2>1, <2>2, <2>4, <3>1, <3>2, <3>3
  <2>6. LeftOwn'
    BY <2>1, <2>4 DEF IInv, TypeOK, LeftOwn
  <2> QED
    BY <2>3, <2>5, <2>6 DEF JobsAccounted
<1>5. CASE DispatcherQuit
  <2>1. \A j \in Jobs : Held(j)' <=> Held(j)
    BY <1>5 DEF DispatcherQuit, slotVars, Held
  <2> QED
    BY <1>5, <2>1 DEF DispatcherQuit, slotVars, IInv, JobsAccounted, LeftOwn
<1>6. CASE Still
  BY <1>6 DEF Still, IInv, JobsAccounted, LeftOwn, Held
<1> QED
  BY <1>1, <1>2, <1>3, <1>4, <1>5, <1>6, StillSteps
-------------------------------------------------------------------------------
(* The calls of Query. *)

(* The steps that neither accept a batch, answer one, nor move a caller out *)
(* of Query.                                                               *)
LEMMA AnswersKept ==
    ASSUME IInv, [Next]_vars,
           ~\E b \in Batches : QueryRefused(b) \/ NewBatch(b) \/ BatchTimeout(b),
           ~\E p \in Peers : Result(p),
           ~DispatcherQuit
    PROVE  /\ answers' = answers /\ currentBatches' = currentBatches
           /\ \A b \in Batches : cpc'[b] = "sending" <=> cpc[b] = "sending"
<1>1. ASSUME NEW b \in Batches, TakeAnswer(b) \/ CallerQuit(b)
      PROVE  /\ answers' = answers /\ currentBatches' = currentBatches
             /\ \A c \in Batches : cpc'[c] = "sending" <=> cpc[c] = "sending"
  BY <1>1 DEF TakeAnswer, CallerQuit, batchVars, IInv, TypeOK
<1>2. ASSUME NEW p \in Peers, NEW stored \in BOOLEAN, Deliver(p, stored)
      PROVE  /\ answers' = answers /\ currentBatches' = currentBatches
             /\ \A c \in Batches : cpc'[c] = "sending" <=> cpc[c] = "sending"
  <2>1. wjob[p][1] \in Batches
    BY <1>2, ResultJob DEF Deliver, Busy
  <2> QED
    BY <1>2, <2>1 DEF Deliver, batchVars, IInv, TypeOK
<1>3. CASE UNCHANGED <<answers, currentBatches, cpc>>
  BY <1>3
<1>4. \/ \E b \in Batches : TakeAnswer(b) \/ CallerQuit(b)
      \/ \E p \in Peers, stored \in BOOLEAN : Deliver(p, stored)
      \/ UNCHANGED <<answers, currentBatches, cpc>>
  BY DEF Next, CallerNext, DispatcherNext, WorkerNext, vars, Assign, Give, Reap, NewPeer,
         Answer, Fail, WorkerExit, Disconnect, StopCalled, StopReturned, batchVars, callerVars
<1> QED
  BY <1>1, <1>2, <1>3, <1>4

(* A result answers its batch, if at all, while the batch is current. *)
LEMMA ResultAnswers ==
    ASSUME IInv, NEW p \in Peers, Result(p)
    PROVE  LET b == wjob[p][1] IN
           \/ answers' = answers /\ currentBatches' = currentBatches
           \/ /\ b \in currentBatches /\ currentBatches' = currentBatches \ {b}
              /\ \E e \in Answers : /\ answers' = [answers EXCEPT ![b] = Append(@, e)]
                                    /\ e = "ok" => wres[p] = "ok" /\ left[b] \subseteq {wjob[p]}
BY DEF Result, Succeeded, GaveUp, Rescheduled, Finish, batchVars, Answers, IInv, TypeOK

LEMMA AnsweredStep == ASSUME IInv, [Next]_vars PROVE AnsweredOnce'
<1>1. ASSUME NEW b \in Batches, QueryRefused(b) PROVE AnsweredOnce'
  BY <1>1 DEF QueryRefused, IInv, TypeOK, AnsweredOnce, Unsent
<1>2. ASSUME NEW b \in Batches, NewBatch(b) PROVE AnsweredOnce'
  BY <1>2 DEF NewBatch, IInv, TypeOK, AnsweredOnce
<1>3. ASSUME NEW b \in Batches, BatchTimeout(b) PROVE AnsweredOnce'
  BY <1>3 DEF BatchTimeout, Finish, callerVars, IInv, TypeOK, AnsweredOnce, Unsent
<1>4. ASSUME NEW p \in Peers, Result(p) PROVE AnsweredOnce'
  <2>1. wjob[p][1] \in Batches /\ cpc' = cpc
    BY <1>4, ResultJob DEF Result, Busy, callerVars
  <2>2. CASE answers' = answers /\ currentBatches' = currentBatches
    BY <2>1, <2>2 DEF IInv, AnsweredOnce
  <2>3. ASSUME NEW e \in Answers, wjob[p][1] \in currentBatches,
               currentBatches' = currentBatches \ {wjob[p][1]},
               answers' = [answers EXCEPT ![wjob[p][1]] = Append(@, e)]
        PROVE  AnsweredOnce'
    <3>1. answers[wjob[p][1]] = <<>> /\ cpc[wjob[p][1]] # "sending"
      BY <2>1, <2>3 DEF IInv, AnsweredOnce, Unsent
    <3>2. Len(answers'[wjob[p][1]]) = 1
      BY <2>1, <2>3, <3>1 DEF IInv, TypeOK
    <3> QED
      BY <2>1, <2>3, <3>1, <3>2 DEF IInv, TypeOK, AnsweredOnce
  <2> QED
    BY <1>4, <2>2, <2>3, ResultAnswers
<1>5. CASE DispatcherQuit
  BY <1>5 DEF DispatcherQuit, callerVars, IInv, TypeOK, AnsweredOnce, Unsent
<1>6. CASE /\ answers' = answers /\ currentBatches' = currentBatches
           /\ \A b \in Batches : cpc'[b] = "sending" <=> cpc[b] = "sending"
  BY <1>6 DEF IInv, AnsweredOnce
<1> QED
  BY <1>1, <1>2, <1>3, <1>4, <1>5, <1>6, AnswersKept

LEMMA UnsentStep == ASSUME IInv, [Next]_vars PROVE Unsent'
<1> SUFFICES ASSUME NEW b \in Batches, cpc'[b] = "sending"
             PROVE  /\ b \notin currentBatches'
                    /\ \A j \in JobsOf(b) : j \notin work' /\ ~Held(j)'
  BY DEF Unsent
<1>1. cpc[b] = "sending"
  <2>1. ASSUME NEW p \in Peers, NEW stored \in BOOLEAN, Deliver(p, stored)
        PROVE  cpc[b] = "sending"
    <3>1. wjob[p][1] \in Batches
      BY <2>1, ResultJob DEF Deliver, Busy
    <3> QED
      BY <2>1, <3>1 DEF Deliver, IInv, TypeOK
  <2>2. ASSUME NEW c \in Batches, CallerNext(c) \/ NewBatch(c) PROVE cpc[b] = "sending"
    BY <2>2 DEF CallerNext, QueryRefused, TakeAnswer, CallerQuit, NewBatch, IInv, TypeOK
  <2>3. \/ \E p \in Peers, stored \in BOOLEAN : Deliver(p, stored)
        \/ \E c \in Batches : CallerNext(c) \/ NewBatch(c)
        \/ cpc' = cpc
    BY DEF Next, DispatcherNext, WorkerNext, vars, BatchTimeout, Assign, Give, Reap, NewPeer,
           Result, DispatcherQuit, Answer, Fail, WorkerExit, Disconnect, StopCalled,
           StopReturned, callerVars
  <2> QED
    BY <2>1, <2>2, <2>3
<1>2. b \notin currentBatches /\ \A j \in JobsOf(b) : j \in Jobs /\ j[1] = b /\ j \notin work /\ ~Held(j)
  BY <1>1 DEF IInv, Unsent, JobsOf
<1>3. ASSUME NEW c \in Batches, NewBatch(c) PROVE c # b
  BY <1>3 DEF NewBatch, IInv, TypeOK
<1>4. ASSUME NEW c \in Batches, NewBatch(c)
      PROVE  b \notin currentBatches' /\ \A j \in JobsOf(b) : j \notin work' /\ ~Held(j)'
  BY <1>2, <1>3, <1>4 DEF NewBatch, slotVars, Held, JobsOf
<1>5. ASSUME NEW c \in Batches, BatchTimeout(c)
      PROVE  b \notin currentBatches' /\ \A j \in JobsOf(b) : j \notin work' /\ ~Held(j)'
  BY <1>2, <1>5 DEF BatchTimeout, Finish, slotVars, Held
<1>6. ASSUME NEW p \in Peers, Assign(p)
      PROVE  b \notin currentBatches' /\ \A j \in JobsOf(b) : j \notin work' /\ ~Held(j)'
  BY <1>2, <1>6, AssignPlace DEF Assign, Give, batchVars
<1>7. ASSUME NEW p \in Peers, Result(p)
      PROVE  b \notin currentBatches' /\ \A j \in JobsOf(b) : j \notin work' /\ ~Held(j)'
  <2>1. \/ work' = work
        \/ work' = work \cup {wjob[p]} /\ wjob[p][1] \in currentBatches
    BY <1>7 DEF Result, Succeeded, GaveUp, Rescheduled
  <2>2. currentBatches' \subseteq currentBatches
    BY <1>7, ResultAnswers
  <2> QED
    BY <1>2, <1>7, <2>1, <2>2, ResultPlace
<1>8. CASE DispatcherQuit
  BY <1>2, <1>8 DEF DispatcherQuit, slotVars, Held
<1>9. CASE Still
  BY <1>2, <1>9 DEF Still, Held
<1> QED
  BY <1>4, <1>5, <1>6, <1>7, <1>8, <1>9, StillSteps
-------------------------------------------------------------------------------
(* The workers. *)

LEMMA WorkersStep == ASSUME IInv, [Next]_vars PROVE WorkersTracked' /\ Ranked'
<1>1. ASSUME NEW p \in Peers, Assign(p) PROVE WorkersTracked' /\ Ranked'
  <2>1. PICK next \in Jobs : /\ activeJob' = [activeJob EXCEPT ![p] = next]
                             /\ wjob' = [wjob EXCEPT ![p] = next] /\ p \in Free
    BY <1>1, AssignPlace
  <2>2. /\ wpc[p] = "idle" /\ wpc' = [wpc EXCEPT ![p] = "working"]
        /\ workers' = workers /\ rank' = rank
    BY <1>1 DEF Assign, Give
  <2> QED
    BY <2>1, <2>2, WorkManagerAssumption DEF IInv, TypeOK, WorkersTracked, Ranked, Free, Busy
<1>2. ASSUME NEW p \in Peers, Reap(p) PROVE WorkersTracked' /\ Ranked'
  BY <1>2 DEF Reap, workerVars, IInv, TypeOK, WorkersTracked, Ranked, Free, Busy
<1>3. ASSUME NEW p \in Peers, NewPeer(p) PROVE WorkersTracked' /\ Ranked'
  <2>1. WorkersTracked'
    BY <1>3 DEF NewPeer, IInv, TypeOK, WorkersTracked, Free, Busy
  <2> DEFINE A == {Addr[q] : q \in Peers}
  <2>2. rank \in [A -> BestScore..Unranked] /\ \A q \in Peers : Addr[q] \in A
    BY DEF IInv, TypeOK
  <2> HIDE DEF A
  <2>3. ASSUME NEW q \in Peers, wpc'[q] # "none" PROVE rank'[Addr[q]] <= WorstScore
    <3>1. rank[Addr[q]] <= WorstScore => rank'[Addr[q]] <= WorstScore
      BY <1>3, <2>2, WorkManagerAssumption DEF NewPeer
    <3>2. rank'[Addr[p]] <= WorstScore
      BY <1>3, <2>2, WorkManagerAssumption DEF NewPeer, Unranked
    <3>3. q = p \/ wpc[q] # "none"
      BY <1>3, <2>3 DEF NewPeer, IInv, TypeOK
    <3> QED
      BY <3>1, <3>2, <3>3 DEF IInv, Ranked
  <2> QED
    BY <2>1, <2>3 DEF Ranked
<1>4. ASSUME NEW p \in Peers, Result(p) PROVE WorkersTracked' /\ Ranked'
  <2>1. WorkersTracked'
    BY <1>4 DEF Result, IInv, TypeOK, WorkersTracked, Free, Busy
  <2>2. rank[Addr[p]] <= WorstScore /\ \A q \in Peers : wpc'[q] # "none" => rank[Addr[q]] <= WorstScore
    BY <1>4 DEF Result, IInv, TypeOK, Ranked
  <2>3. Reward(p) \/ Punish(p)
    BY <1>4 DEF Result
  <2> QED
    BY <2>1, <2>2, <2>3, ScoreSteps DEF IInv, Ranked
<1>5. ASSUME NEW p \in Peers, WorkerNext(p) PROVE WorkersTracked' /\ Ranked'
  <2>1. /\ workers' = workers /\ activeJob' = activeJob /\ rank' = rank /\ wjob' = wjob
        /\ \/ wpc[p] \in Busy /\ \E pc \in Busy : wpc' = [wpc EXCEPT ![p] = pc]
           \/ wpc[p] # "none" /\ wpc' = [wpc EXCEPT ![p] = "exited"]
           \/ wpc' = wpc
    <3>1. CASE Answer(p) \/ Fail(p) \/ \E stored \in BOOLEAN : Deliver(p, stored)
      <4>1. /\ wpc[p] \in {"working", "delivering"}
            /\ \/ wpc' = [wpc EXCEPT ![p] = "delivering"]
               \/ wpc' = [wpc EXCEPT ![p] = "result"]
        BY <3>1 DEF Answer, Deliver, Fail, HasResult
      <4> QED
        BY <3>1, <4>1 DEF Answer, Deliver, Fail, Busy, slotVars
    <3>2. CASE WorkerExit(p) \/ Disconnect(p)
      BY <3>2 DEF WorkerExit, Disconnect, slotVars, workerVars
    <3> QED
      BY <1>5, <3>1, <3>2 DEF WorkerNext
  <2> QED
    BY <2>1 DEF IInv, TypeOK, WorkersTracked, Ranked, Free, Busy
<1>6. CASE UNCHANGED <<workers, activeJob, rank, wpc, wjob>>
  BY <1>6 DEF IInv, WorkersTracked, Ranked, Free
<1>7. \/ \E p \in Peers : Assign(p) \/ Reap(p) \/ NewPeer(p) \/ Result(p) \/ WorkerNext(p)
      \/ UNCHANGED <<workers, activeJob, rank, wpc, wjob>>
  BY DEF Next, CallerNext, DispatcherNext, vars, QueryRefused, TakeAnswer, CallerQuit, NewBatch,
         BatchTimeout, DispatcherQuit, StopCalled, StopReturned, slotVars, workerVars
<1> QED
  BY <1>1, <1>2, <1>3, <1>4, <1>5, <1>6, <1>7
-------------------------------------------------------------------------------
(* The answers. *)

(* Answers are only added; a worker that starts to report success has one. *)
LEMMA GotGrows ==
    ASSUME IInv, [Next]_vars
    PROVE  /\ \A b \in Batches : got[b] \subseteq got'[b]
           /\ WorkerShape'
<1>1. ASSUME NEW p \in Peers, wpc[p] \in {"working", "delivering"}, wjob' = wjob,
             got' = [got EXCEPT ![wjob[p][1]] = @ \cup {wjob[p][2]}],
             wpc' = [wpc EXCEPT ![p] = "result"], wres' = [wres EXCEPT ![p] = "ok"]
      PROVE  (\A b \in Batches : got[b] \subseteq got'[b]) /\ WorkerShape'
  <2>1. wjob[p] # None /\ wjob[p][1] \in Batches
    BY <1>1, ResultJob, WorkManagerAssumption DEF Busy
  <2>2. \A b \in Batches : got[b] \subseteq got'[b]
    BY <1>1, <2>1 DEF IInv, TypeOK
  <2>3. \A q \in Peers : wpc[q] \in Busy => wjob[q][1] \in Batches
    BY ResultJob
  <2>4. wjob[p][2] \in got'[wjob[p][1]]
    BY <1>1, <2>1 DEF IInv, TypeOK
  <2> QED
    BY <1>1, <2>1, <2>2, <2>3, <2>4 DEF IInv, TypeOK, WorkerShape, Busy
<1>2. ASSUME NEW p \in Peers, got' = got, wjob' = wjob,
             \/ /\ wpc[p] = "working" /\ wpc' = [wpc EXCEPT ![p] = "delivering"] /\ wres' = wres
             \/ /\ wpc[p] = "working" /\ wpc' = [wpc EXCEPT ![p] = "result"]
                /\ \E e \in Failures : wres' = [wres EXCEPT ![p] = e]
             \/ wpc' = [wpc EXCEPT ![p] = "exited"] /\ wres' = wres
      PROVE  (\A b \in Batches : got[b] \subseteq got'[b]) /\ WorkerShape'
  BY <1>2 DEF IInv, TypeOK, WorkerShape, Busy, Failures
<1>3. ASSUME NEW p \in Peers, WorkerNext(p)
      PROVE  (\A b \in Batches : got[b] \subseteq got'[b]) /\ WorkerShape'
  <2>1. CASE Answer(p)
    BY <1>1, <1>2, <2>1 DEF Answer, HasResult
  <2>2. CASE \E stored \in BOOLEAN : Deliver(p, stored)
    BY <1>1, <2>2 DEF Deliver, HasResult
  <2>3. CASE Fail(p)
    BY <1>2, <2>3 DEF Fail, HasResult, Failures, callerVars
  <2>4. CASE WorkerExit(p)
    BY <1>2, <2>4 DEF WorkerExit, callerVars
  <2>5. CASE Disconnect(p)
    BY <2>5 DEF Disconnect, callerVars, workerVars, IInv, WorkerShape
  <2> QED
    BY <1>3, <2>1, <2>2, <2>3, <2>4, <2>5 DEF WorkerNext
<1>4. ASSUME NEW p \in Peers, Assign(p)
      PROVE  (\A b \in Batches : got[b] \subseteq got'[b]) /\ WorkerShape'
  <2>1. PICK next \in Jobs : wjob' = [wjob EXCEPT ![p] = next]
    BY <1>4, AssignPlace
  <2> QED
    BY <1>4, <2>1, WorkManagerAssumption
    DEF Assign, Give, callerVars, IInv, TypeOK, WorkerShape, Busy
<1>5. ASSUME NEW p \in Peers, NewPeer(p) \/ Result(p)
      PROVE  (\A b \in Batches : got[b] \subseteq got'[b]) /\ WorkerShape'
  BY <1>5 DEF NewPeer, Result, callerVars, IInv, TypeOK, WorkerShape, Busy
<1>6. CASE UNCHANGED <<got, wpc, wjob, wres>>
  BY <1>6 DEF IInv, WorkerShape
<1>7. \/ \E p \in Peers : Assign(p) \/ NewPeer(p) \/ Result(p) \/ WorkerNext(p)
      \/ UNCHANGED <<got, wpc, wjob, wres>>
  BY DEF Next, CallerNext, DispatcherNext, vars, QueryRefused, TakeAnswer, CallerQuit, NewBatch,
         BatchTimeout, Reap, DispatcherQuit, StopCalled, StopReturned, callerVars, workerVars
<1> QED
  BY <1>3, <1>4, <1>5, <1>6, <1>7

LEMMA LeftCoversStep == ASSUME IInv, [Next]_vars PROVE LeftCovers'
<1> SUFFICES ASSUME NEW b \in currentBatches', NEW j \in JobsOf(b), j \notin left'[b]
             PROVE  j[2] \in got'[b]
  BY DEF LeftCovers
<1>1. currentBatches' \subseteq Batches
  BY TypeStep DEF TypeOK
<1>2. b \in currentBatches /\ j \notin left[b] => j[2] \in got'[b]
  BY <1>1, GotGrows DEF IInv, LeftCovers
<1>3. ASSUME NEW c \in Batches, NewBatch(c) \/ BatchTimeout(c) PROVE j[2] \in got'[b]
  BY <1>1, <1>2, <1>3 DEF NewBatch, BatchTimeout, Finish, IInv, TypeOK
<1>4. ASSUME NEW p \in Peers, Result(p) PROVE j[2] \in got'[b]
  <2> DEFINE c == wjob[p][1]
  <2>1. /\ \/ left' = left
           \/ left' = [left EXCEPT ![c] = {}] /\ currentBatches' = currentBatches \ {c}
           \/ left' = [left EXCEPT ![c] = left[c] \ {wjob[p]}] /\ wres[p] = "ok"
        /\ currentBatches' \subseteq currentBatches
    BY <1>4 DEF Result, Succeeded, GaveUp, Rescheduled, Finish, batchVars
  <2>2. wres[p] = "ok" => wjob[p][2] \in got[c]
    BY <1>4 DEF Result, IInv, WorkerShape
  <2>3. got'[b] = got[b] /\ c \in Batches /\ wjob[p] \in JobsOf(c)
    BY <1>4, ResultJob DEF Result, Busy, callerVars
  <2>4. j[1] = b
    BY DEF JobsOf
  <2> QED
    BY <1>1, <1>2, <2>1, <2>2, <2>3, <2>4 DEF IInv, TypeOK
<1>5. ASSUME NEW p \in Peers, Assign(p) PROVE j[2] \in got'[b]
  BY <1>2, <1>5 DEF Assign, Give, batchVars
<1>6. CASE DispatcherQuit
  BY <1>6 DEF DispatcherQuit
<1>7. CASE Still
  BY <1>2, <1>7 DEF Still
<1> QED
  BY <1>3, <1>4, <1>5, <1>6, <1>7, StillSteps

LEMMA SuccessStep == ASSUME IInv, [Next]_vars PROVE SuccessMeansAnswered'
<1> SUFFICES ASSUME NEW b \in Batches, answers'[b] = <<"ok">>
             PROVE  got'[b] = 1..Size[b]
  BY DEF SuccessMeansAnswered, Complete
<1>1. got'[b] \subseteq 1..Size[b] /\ got[b] \subseteq got'[b]
  BY TypeStep, GotGrows DEF TypeOK
<1>2. CASE answers[b] = <<"ok">>
  BY <1>1, <1>2 DEF IInv, SuccessMeansAnswered, Complete
<1>3. CASE answers[b] # <<"ok">>
  <2>1. ASSUME NEW c \in Batches, QueryRefused(c) \/ BatchTimeout(c) PROVE FALSE
    <3>1. PICK e \in {"shutdown", "timeout"} : answers' = [answers EXCEPT ![c] = Append(@, e)]
      BY <2>1 DEF QueryRefused, BatchTimeout, Finish
    <3>2. answers[c] = <<>>
      BY <2>1 DEF QueryRefused, BatchTimeout, IInv, AnsweredOnce
    <3> QED
      BY <1>3, <3>1, <3>2 DEF IInv, TypeOK
  <2>2. CASE DispatcherQuit
    <3>1. b \in currentBatches => answers'[b] = Append(<<>>, "shutdown")
      BY <2>2 DEF DispatcherQuit, IInv, AnsweredOnce
    <3>2. b \notin currentBatches => answers'[b] = answers[b]
      BY <2>2 DEF DispatcherQuit
    <3> QED
      BY <1>3, <3>1, <3>2
  <2>3. ASSUME NEW p \in Peers, Result(p) PROVE got'[b] = 1..Size[b]
    <3>1. PICK e \in Answers :
             /\ b = wjob[p][1] /\ b \in currentBatches
             /\ answers' = [answers EXCEPT ![b] = Append(@, e)]
             /\ e = "ok" => wres[p] = "ok" /\ left[b] \subseteq {wjob[p]}
      BY <1>3, <2>3, ResultAnswers DEF IInv, TypeOK
    <3>2. answers[b] = <<>>
      BY <3>1 DEF IInv, AnsweredOnce
    <3>3. e = "ok"
      BY <3>1, <3>2 DEF IInv, TypeOK
    <3>4. wjob[p][2] \in got[b]
      BY <2>3, <3>1, <3>3 DEF Result, IInv, WorkerShape
    <3>5. ASSUME NEW i \in 1..Size[b] PROVE i \in got[b]
      <4>1. <<b, i>> \in JobsOf(b) /\ <<b, i>>[2] = i
        BY JobOf
      <4>2. CASE <<b, i>> \in left[b]
        BY <3>1, <3>3, <3>4, <4>1, <4>2
      <4>3. CASE <<b, i>> \notin left[b]
        BY <3>1, <4>1, <4>3 DEF IInv, LeftCovers
      <4> QED
        BY <4>2, <4>3
    <3> QED
      BY <1>1, <3>5
  <2>4. CASE answers' = answers
    BY <1>3, <2>4
  <2>5. ASSUME NEW c \in Batches, NewBatch(c) PROVE answers' = answers
    BY <2>5 DEF NewBatch
  <2> QED
    BY <2>1, <2>2, <2>3, <2>4, <2>5, AnswersKept
<1> QED
  BY <1>2, <1>3
-------------------------------------------------------------------------------
LEMMA Invariance == Spec => []IInv
<1>1. IInv /\ [Next]_vars => IInv'
  <2> SUFFICES ASSUME IInv, [Next]_vars PROVE IInv'
    OBVIOUS
  <2>1. TypeOK' /\ Unsent' /\ LeftOwn' /\ LeftCovers' /\ WorkerShape' /\ Ranked'
    BY TypeStep, UnsentStep, JobsStep, LeftCoversStep, GotGrows, WorkersStep
  <2>2. AnsweredOnce' /\ JobsAccounted' /\ WorkersTracked' /\ SuccessMeansAnswered'
    BY AnsweredStep, JobsStep, WorkersStep, SuccessStep
  <2> QED
    BY <2>1, <2>2 DEF IInv
<1> QED
  BY <1>1, InitInv, PTL DEF Spec

(* The work manager's state has its types; in particular no peer's score   *)
(* leaves the range of the ranking (Reward, Punish).                       *)
THEOREM TypeCorrect == Spec => []TypeOK
<1> QED
  BY Invariance, PTL DEF IInv

(* Every batch gets one answer in its errChan, whichever of success, give  *)
(* up, batch timeout and shutdown comes first, so neither the dispatcher   *)
(* nor the caller is left hanging on the channel.                          *)
THEOREM EachAnsweredOnce == Spec => []AnsweredOnce
<1> QED
  BY Invariance, PTL DEF IInv

(* A job is in the queue or with one worker, through every retry, timeout  *)
(* and disconnect.                                                         *)
THEOREM NoJobLost == Spec => []JobsAccounted
<1> QED
  BY Invariance, PTL DEF IInv

(* A worker with a free slot is at its select or gone, and a busy one      *)
(* holds the job the dispatcher thinks it holds.                           *)
THEOREM WorkersKnown == Spec => []WorkersTracked
<1> QED
  BY Invariance, PTL DEF IInv

(* A batch reported done has an answer to each request.                    *)
THEOREM SuccessComplete == Spec => []SuccessMeansAnswered
<1> QED
  BY Invariance, PTL DEF IInv
===============================================================================
