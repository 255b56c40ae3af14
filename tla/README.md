# TLA+ models of mwebd-android

`mwebd-android` runs an MWEB light client for Litecoin inside an Android app. It is
a stack of three Go layers:

| layer | code | what it does |
|---|---|---|
| wrapper | `src/go/mwebdandroid` | starts and stops the daemon, seeds its data directory from a *restore checkpoint*, turns the gRPC stream `Utxos` into listener callbacks |
| mwebd | `…/third_party/mwebd` | the gRPC server: `Utxos`, `Spent`, `Create`, `Broadcast`, …; keeps the registry of subscribers |
| neutrino | `…/third_party/neutrino` | the light client: block headers, filter headers, MWEB headers, leafsets and coins |

Beside them stands `cmd/mwebcheckpoint`, the command that makes the restore
checkpoints the wrapper is seeded from.

The specifications here are about the part that is hard to test: what the goroutines
of these layers do to the data they share, what a kill of the process (Android does
that often) leaves on disk, and what becomes of data put together from sources that
move meanwhile.

Paths below are relative to `src/go/mwebdandroid/third_party/neutrino` unless they
say otherwise.

## 1. Inventory

### Components, state, operations

| component | state | operations | what makes it correct |
|---|---|---|---|
| **MWEB sync** `mwebhandler.go`, `mwebutxos.go`, `mwebheaders.go` | locals of one goroutine: tip aimed at, rollback height, leaves to fetch | a *round*: wait for headers, read tip and mark, purge or step to the fork, fetch leaf counts, leafset, coins; commit; clear the mark; sleep | the stored leafset is backed by coins; no rollback is forgotten; it catches up with the headers |
| **Coin store** `mwebdb/coindb.go` | buckets: leaf→output, output→coin, height→leaf count, leafset, rollback mark; `mweb-mempool` | one database transaction per method | it always shows the unspent set of one block |
| **Block header sync** `blockmanager.go` (`handleHeadersMsg`, `rollBackToHeight`) | header store, `headerTip`, `headerList`, sync peer | connect, reorganise, publish | the most work wins; every reorg is announced to the coin store before the headers change |
| **Filter header sync** `blockmanager.go` (`cfHandler`) | filter store, filter tip | batches of filter headers for known blocks | filter headers follow the block headers |
| **Header stores** `headerfs/` | per store: a flat file, its tip in `neutrino.db`; one index hash→height for both | append, roll back one header, open with repair, seed | file and index agree after any crash |
| **Restore checkpoint** `checkpoint.go` (wrapper), `headerfs/bootstrap.go` | the data directory | decide, remove, seed | what starts is a consistent store that reaches the checkpoint |
| **Utxo streaming** mwebd `server.go`, `utxos.go` | registry of streamers under `Server.mtx`; per streamer a leafset, a set of leaves, a greeted flag, two channels | `Utxos` call: register, replay a snapshot, go live, leave; `utxoHandler`: notify every streamer | nothing is missed, replay-complete is true, nobody wedges anybody |
| **Subscriptions of the wrapper** `mwebdandroid.go` | context of each subscription | `SubscribeUtxos`, `Send`, `Close` | a closed subscription ends |
| **Daemon life cycle** `mwebdandroid.go`, mwebd `server.go`, `neutrino.go` (`Stop`) | mutex, port, gRPC server, the lock on `neutrino.db` | `NewDaemon`, `Start`, `Stop` | the database is closed once, with both handlers gone and the stores in agreement; a stop gives the directory up |
| **Checkpoint command** `cmd/mwebcheckpoint/main.go` | its mode, its output | check a peer; generate from a peer, from explorers, from a directory and a peer; export; watch | every line written is a checkpoint of one block |
| – replay `replay.go` | jobs, results, early results; the leafset; cache files | eight fetchers, replay in order, recovery of gaps | no block is lost, no file has two writers, a snapshot is its block's leafset |
| – explorer `explorer.go` | offset, heights found; list files | resolve, locate by binary search, scan pages | the list has every block whose summary shows events |
| – peer `network.go`, requests `request.go` | messages, errors, headers fetched | handshake, ask, wait, retry | an answer taken is the answer to the question |
| – watch `watch.go` | last height; the archive | poll, export, append, sync | the archive's lines are true and apart |
| – line `internal/checkpoint` | – | `Encode`, `Parse` | a line cut short is not taken for a line |
| **Query work manager** `query/` | batches, work queue, workers, rankings | dispatch, retry, timeout, cancel, peer exit | every batch ends; no query is answered twice |
| **Legacy queries** `query.go` | per call | ask peers one after another | – |
| **Broadcaster** `pushtx/` | pending transactions | broadcast, rebroadcast on a block, drop confirmed | a pending transaction is not lost |
| **Block notifications** `blockntfns/` | subscriptions, each with a queue | backlog joined to live events | events in chain order, none missing |
| **Rescan** `rescan.go`, `utxoscanner.go`, `batch_spend_reporter.go` | current block, watch list, retry queue | follow the notifications, rewind, update | every block of the chain is looked at |
| **Peers and bans** `neutrino.go`, `banman/` | peer sets, ban buckets | connect, disconnect, ban | – |
| **Channel utilities** `chanutils/`, `filterdb/` | queues, a write batch | – | – |
| transaction creation, PSBT, coinswap, ledger; generated protobuf | – | – | sequential, or generated |

### How they interact

    peers ── headers ──▶ blockHandler ──────────── writes ──▶ header stores (file, index)
                           │  │ headerTip, newHeadersSignal          ▲ reads
                  rollback │  └──────────────▶ mwebHandler ──────────┘
                    mark   ▼                    │ rounds
                          coin store ◀──────────┘
                           ▲    │ mwebUtxosCallbacksMtx
           Utxos: snapshot │    ▼ callbacks
                  ┌────────┴─ utxoHandler ── Server.mtx, u.ch, u.quit ──▶ streamers ──▶ clients
    Broadcast ────┘ (a goroutine of its own)

    explorer ── list of heights ─▶ ┐                              Daemon (one at a time,
    replay source ── blocks ─────▶ ┤ mwebcheckpoint ◀── lock ───▶ data directory)
    peer ── headers, leafset ────▶ ┘      │ lines
                                          ▼
                     output, archive ──▶ restore checkpoint ──▶ NewDaemon

`blockHandler`, `mwebHandler` and `cfHandler` are three goroutines of the block
manager with no lock between a read of the header store and the use of what was
read. The stores have a mutex each, but a file and its index entry are two writes.
`utxoHandler` runs on whichever goroutine has something to tell, and holds
`Server.mtx` while it waits for the streamers.

### What is hard

* **Interleaving.** A reorg may start anywhere inside a round. The *rollback mark* in
  the coin store is all that connects the two.
* **Crashes.** Each database transaction is atomic; a round is a dozen of them, a
  reorg one file update per block, a seeding ten steps.
* **Stale reads.** The tip, the mark, the leafset and the leaf counts are each read
  once and used later.
* **Unlocked fields.** `utxoStreamer.lfs` is written by two goroutines ordered by one
  message on an unbuffered channel.
* **Lost wakeups.** `mwebHandler` sleeps on a condition variable others broadcast.
* **Peers** answer late, not at all, or for a branch that was abandoned.
* **Moving sources.** `mwebcheckpoint` asks up to three sources, page by page and block
  by block, whose chains grow and reorganise meanwhile, and keeps answers on disk
  for later runs.
* **Shutdown.** `Stop` returns at once; the goroutine that served does the rest.

`PROJECT.json` lists every hazard found, at its line.

## 2. Modules

    ChainTree ──▶ BlockTree ──▶ MwebSync ──▶ MCMwebSync          ChainView
        │             │             └─────▶ MwebSyncProofs        ▲  implemented by
        │             ├──▶ UtxoStream ──▶ MCUtxoStream            │  MwebSync,
        │             │         └─────▶ UtxoStreamProofs          │  assumed and checked
        │             └──▶ MwebLeafset ──▶ LeafsetReplay, CheckpointLine (below)  in UtxoStream
        └──▶ HeaderStore ──▶ DaemonLife ──▶ MCDaemonLife
                  │              └─────▶ DaemonLifeProofs
                  └─────▶ MCHeaderStore

    WorkManager ──▶ MCWorkManager       (what MwebSync calls a query that answers
        └─────▶ WorkManagerProofs        or fails)

    LeafsetReplay ──▶ ExplorerScan ──────────┐
    CheckpointLine ──▶ CheckpointPeer ───────┼─▶ CheckpointTool ──▶ MCCheckpointTool
             └───────▶ CheckpointWatch ──────┘          └─────▶ CheckpointToolProofs

    ChainTreeProofs ──▶ BlockTreeProofs ──▶ MwebSyncProofs, UtxoStreamProofs,
        │   (lemmas)       (lemmas)         LeafsetReplayProofs ──▶ CheckpointToolProofs
        └──▶ DaemonLifeProofs

* **ChainTree** – the blocks that exist, as a tree: `Path[b]` is the chain that ends
  in `b`. Blocks are abstract; validation of a header is outside the model, a block
  in the tree is a valid one.
* **BlockTree** – adds work and MWEB data: `Outs[b]` are the outputs of the chain up
  to `b` in leaf order, `Unspent[b]` the leaves of its leafset. `MwebAssumption`
  says what consensus guarantees: outputs are only appended, a spent leaf stays
  spent, and no block has an output twice *unspent*. A spent output may be mined again as
  another leaf of the same branch. `MinedOnce` are the outputs to which no branch does
  that; what the models promise of coins is promised of those, because the coin store
  breaks for the others (*Divergences*).
* **ChainView** – the abstract specification of a coin store that follows a chain:
  readers see the unspent outputs of one block (or part of them while a round is at
  work), and the view moves only to a block *comparable* to the present one, so a
  change of branch is seen as a step back to a common ancestor. That is what
  `utxoStreamer.notify`, which sends differences of leafsets, lives on. An output that is
  mined twice may be missing from what is shown, but is never shown when it is not unspent.

### MwebSync

| model | code |
|---|---|
| `tip` (its path is the header store) | `blockmanager.go` `cfg.BlockHeaders` |
| `headerTip`, `Publish`, `Woken` | `headerTip`, `newHeadersSignal.Broadcast` |
| `synced` | what `BlockHeadersSynced` returns |
| `bhPc`, `fork`, `target`, `final` | where `handleHeadersMsg` is, its locals |
| `mark`, `leafBlk`, `leafMap`, `coins`, `leavesAt` | the buckets of `coindb.go`; a leafset is the block it belongs to |
| `pc`, `last`, `rb`, `todo` | `mwebHandler` and its locals |
| `pass`, `from`, `asked`, `hdrTip` | the loop of `getMwebHeaders`: which call of `fetch`, its height, what this call of `getMwebHeaders` asked for already (`heightMap` is not read again), the branch the hashes of the batch were read from |

One action is one database transaction, one file update or one blocking wait. A
reorg is `StartReorg` (the mark), `RollbackBlock` repeated, `WriteBranchHead`,
`WriteBranchRest`, `Publish`. A round is the chain of actions from
`WaitHeadersSynced` to `WaitHeaderTip`; the leaf counts are asked for in two passes of
batches (strided, then dense; `AskMwebHeaders`, `PutMwebHeaders`, `EndPass`), each with a
reading of the headers, a wait and a transaction of its own, and the coins one batch at a
time. `QueryFails` abandons a round, `Restart`
kills the process anywhere. `Hazards` names what the environment may do beyond
that: overlapping reorgs (one that begins before the sync after an earlier one is over:
its mark is still stored, or held by the handler, see `Settled`), queries that complete in the middle of a rollback, stale
peers, messages with known headers only, silent changes of `BlockHeadersSynced`.

Abstractions: a peer's answer is right for the block it is for (the proofs of
`verifyMwebHeader` and of the leafset are outside), but that block may be stale;
the height heuristic `RoughHeight` is kept as the code computes it; a batch of
coins is one coin. `VerifyLeafset` takes the answers of all peers for one: that a leafset
which comes in after the verified one, before the query has ended, replaces it unverified
(`mwebhandler.go:105`) is not modelled.

### UtxoStream

A `Utxos` call is a goroutine with `pc`, its streamer's unlocked fields `lfs`,
`leaves`, `init`, its context `ctx`, and `got`, what its client was sent. Three
notifiers run `utxoHandler`: `mweb` (rounds), `mempool` (relayed transactions) and
`broadcast`. `mtx` and `callbacksMtx` are the two mutexes; the send on the unbuffered
`u.ch` is the joint action `Greet` or `Deliver`, the closed `u.quit` is `Drop` or
`SkipGone`. `utxoHandler` does not look at the error of the `walletdb.Update` that stores
the unconfirmed outputs, nor `notify` at that of `FetchLeaves` beyond logging it:
with `"dbfail"` the write, or the read, fails and the notification goes on. The trees have
no output that is mined twice on a branch (`Output \subseteq MinedOnce`), since reads of
such an output may fail for good. The coin store below is the part of MwebSync a reader sees: rounds that
move `leafBlk` along comparable blocks, in the same order of transactions.
`StoreIsChainView` checks that this environment is no more than ChainView allows,
which is what MwebSync implements: the two models meet in ChainView.

### HeaderStore

`file` and `tip` per store, the shared index `height`, `first` (the first height the
index records for a store: non-genesis after a seeding), and `base`, the
`headerStore.baseHeight` a process computes when it opens. `pc` follows a start:
the checkpoint decision, the removal of the old files, the seeding, the opening of
both stores with repair, `newBlockManager`. `op` follows `blockHandler` (append, then
index; the filter store's and the block store's `RollbackLastBlock`), `cf` follows
`writeCFHeadersMsg`. `Kill` comes anywhere; `hit` records that it came at a moment
after which the code does not recover (see *Divergences*). A block stands for its
header and for its filter header; creating a file and writing its first record is
one step.

`SeedApplied` is the link to MwebSync: a store that begins at a checkpoint comes
with its leafset and leaf count, which is what `Init` of MwebSync takes for granted
when `Sparse` holds.

### DaemonLife

HeaderStore with the life of a `Daemon` around it: `held` is the lock on `neutrino.db`
(taken by `NewDaemon`, given up by the goroutine that served, by a failed bootstrap or
by the end of the process), `grpc` the gRPC server, `port` and `blocking` are `d.port`
and `d.mu` (which `Start(n)` holds as long as it serves), `serve` says where each call
of `Server.serve` is, `handlers` which of `blockHandler` and `cfHandler` still run. A
handler leaves only where it waits (`op` or `cf` idle). `workManager.Stop` may never
return (WorkManager): such a call is `wedged`. The first listener's address is not
modelled; what happens to a store after a *hit* is not followed. A `Stop` before
`Serve` has begun makes the goroutine return without closing anything (`Refused`), and
`Start` on a stopped server reports a port nobody serves: both are in the model.

### The checkpoint command

**MwebLeafset** is `mwebLeafsetReplayer`: events applied one by one, what was done
before a failing one stays done, and `verifyBlockState`, whose leaf root is a hash of
whole bytes (`ByteBits`), so that it tells bits apart but not every MMR size; `Sized`
are the blocks whose JSON has `num_txos`.

**LeafsetReplay** is `replayMwebBlocks`. Every goroutine in `client.block` has `gpc`,
`gjob`, `gtries`, `gres`; the cache file is emptied (`Received`) and written
(`WriteCache`) in two steps. `todo` is what the feeder has left, `results` the channel,
`pending` the early results, `ahead` what the replay still waits for. `event` and `held`
are the block whose gap `recoverMissingReplayGap` works on, from the copy made
before the block was applied. The source follows `sourceTip`; `Misserved` is an
answer with another height's block, which `remoteBlock` does not notice.

**ExplorerScan** is `resolveExplorerHeights` and `nonEmptyHeights`: offsets count from
the newest block, so each probe and page is of the table as it then is. A list file is
created with a beginning of the list and then written. `Unlisted` are blocks whose
summary hides their events, which the comment at `explorer.go:178` speaks of.

**CheckpointPeer** is `networkClient`: `steps` is what is left to ask, `inbox` the
messages. A peer answers a locator it no longer has from genesis, and filter headers
for the path of the stop hash. Proof of work and the MWEB proofs are outside.

**CheckpointLine, CheckpointWatch** are the line, the archive it is appended to and the
watch; the daemon's transactions on the directory are repeated there in brief, since
tool and daemon exclude each other by the lock: its steps come only while the tool
waits for it, and transactions that commute are taken together.

**CheckpointTool** is `main`: the mode chosen in `Init`, each a path through the others,
up to the lines written. A kill, or a second start with the same arguments, keeps
the cache, the lists, the directory and the archive. Runs with a cache directory are
modelled, those without keep nothing.

### WorkManager

| model | code |
|---|---|
| `currentBatches`, `left`, `tries`, `reset`, `answers` | `batchProgress`, `queryJob`, and everything sent on `errChan` |
| `work`, `number` | the heap, ordered by `queryIndex` |
| `workers`, `activeJob`, `rank` | the dispatcher's map, the peer ranking |
| `wpc`, `wjob`, `wres` | where each `worker.Run` is |
| `cpc`, `got` | the callers, and the answers their handlers accepted |
| `stop` | `w.quit` closed; `Stop` returned (only then is `blockManager.quit` closed) |

All channels between the dispatcher and the workers are unbuffered, so a send and its
receive are one action: `Assign` (`NewJob() <- next`), `Result` (`results <-`),
`NewBatch`. `Offering` and `Selecting` are the two places where the dispatcher waits.
A batch in `Rendezvous` is `getMwebUtxosBatch`, whose handler sends on an unbuffered
`utxosChan` inside the worker (`Deliver`); the others have a buffer or only `errChan`.
Timeouts strike at any moment; the doubling of a job's timeout is therefore left out.
The cancel channels of all queries are `blockManager.quit` and `ChainService.quit`,
closed when every worker has exited, so a job is never cancelled.

MwebSync relies on this module for `QueryFails`: a query ends, with all its answers or
with an error. `QueryReturns` and `SuccessMeansAnswered` say just that.

## 3. Runs

| run | instance | shows |
|---|---|---|
| MwebSyncSafe | seeded store, tree of 7 blocks, 3 branches; 1 fault; stale and silent peers | `TypeOK`, `LeafsetBacked`, `MarkCoversFork`, `CoinHeightsExact`, and MwebSync implements ChainView |
| MwebSyncPurge | empty store, tree of 7 blocks with 3 branches from its root, `PurgeDepth` 1, 1 fault, fairness | `LeafsetBacked`, `MarkCoversFork` when the store is emptied; `CatchesUp`: no wakeup is lost |
| MwebSyncOverlap | overlapping reorgs | *violation* of `LeafsetBacked` |
| MwebSyncGhost | one failed round | *violation* of `FoundIsUnspent` |
| UtxoStreamSafe | one client, 4 blocks, 3 rounds, 1 relayed output | `FieldsGuarded`, `FollowsStore`, `NothingMissed`, `ReplayTruth`, `UnconfirmedKnown`, `StoreIsChainView` |
| UtxoStreamLive | one client, one branch, a round, two transactions with an output of the client's, a purge, failing reads and writes, fairness | `CancelEnds`, `MtxReleased`, with the three notifiers contending for `s.mtx` and sending to a client that may leave between any two messages |
| DaemonLife | 4 blocks, one checkpoint, 2 calls of serve, 2 kills anywhere, fairness | `FailsOnlyIfHit`, `StoresAgree`, `SeedApplied`; `ClosedOnce`, `OrderlyStop`, `StopReleases` |
| CheckpointTool | 5 blocks with a fork, 6 modes, 4 sets of heights, 2 fetchers, 1 failure, reorg or misserved block, 1 kill or restart, 1 move of the peer | `NothingLost`, `OneWriterPerFile`, `SnapshotsTrue`, `RecoversMissed`, `ScanComplete`, `LinesTrue`, `ArchiveSpaced`, `ArchiveTrue` |
| HeaderStoreCut | kills while truncating | *violation* of `IndexNotAhead` |
| WorkManagerSafe | 2 batches (2 jobs behind a rendezvous, 1 uncapped), 2 peers that do anything, scores 1-1-2 | `AnsweredOnce`, `JobsAccounted`, `WorkersTracked`, `SuccessMeansAnswered` |
| WorkManagerLive | 2 batches of one job (one behind a rendezvous, one uncapped), 2 peers that do anything or nothing, fairness of callers and dispatcher only | `QueryReturns` |
| WorkManagerStop | 1 batch of one job, fairness | *violation* of `StopReturns` |

**Bounds and why they are enough.** The trees have a leaf index whose output differs
between two branches, an output mined again after a reorg as another leaf, an output
spent on one branch only, one spent and mined again on the same branch (c5, MwebSyncSafe), and (MwebSyncSafe) a second fork on the new branch, so
every way two leafsets can differ occurs. In MwebSyncPurge two reorgs go to the same
height and each may empty the store, at any moment of its own rollback, so the second may
put back the very mark that the first one's purge removed. `Stride` 2 and `Dense` 10 stand for 100
and 4000 (all leaf counts known): `CoinHeightsExact` needs them. `BatchSize` 2 for 1000
takes two batches for the dense pass, with reorgs and failures in between. `MaxFaults` bounds
crashes plus failed queries, not the steps in between. Three rounds are a step back
to a fork, a step up the other branch, and one before them. Two kills allow a kill
during the recovery from a kill. One relayed output is enough for the mempool path
to meet a round. UtxoStreamLive has one client and two transactions, so that the relayed one,
the one broadcast and the round are under way together and the client is replaying, live,
leaving or gone when each of them comes to it: a notifier is at one streamer at a time
and waits for that streamer's goroutine only, and a second client in `unregisterStreamer`
waits for `s.mtx` like a notifier does. For the work manager: the batch of two jobs is needed for the
`reset` of the jobs that remain, two retries for a failure that is not the last; the
scores 1, 1, 2 for 0, 4, 8 keep both caps (the default is the best here); no property
speaks of the order of the peers. For the
checkpoint command: two fetchers and two to four heights make results arrive early and
late; page size 2 and batch 2 with four blocks take more than one page and more than one
getheaders; one reorg or failure suffices for a mixture of branches, one kill for a
file cut short. `Attempts` 2 for 3 keeps a try that is not the last. `Word` is out of reach of the
heights: the wrap of the watch's step is not explored. A retry costs no failure, so that
every request may be tried again; the source stands still once a replay is over, when
nothing looks at it; the two fetchers are symmetric and no property names one. For
DaemonLife: two serve calls are what `ClosedOnce` needs, and the fork above the
checkpoint gives a rollback to interrupt. No run bounds the depth of the search; every run that passes has
explored all states of its instance. The theorems cover other sizes.

**Deadlock** is checked in CheckpointTool, which ends in `ok` or `error` only (`Over`): no
fetcher, send or wait is ever stuck. It is not checked elsewhere: an instance ends when its blocks, rounds and faults are
used up and everyone sleeps or is done, as the program does between blocks. What
must not stop is stated as `CatchesUp`, `CancelEnds`, `MtxReleased`, `QueryReturns` and
`StopReleases`.

**Fairness.** MwebSync: the steps of a message in hand (nothing in
`handleHeadersMsg` waits for anyone) and the steps of `mwebHandler` (its queries have
timeouts, so they answer or fail). Nothing forces headers to arrive or peers to
appear. UtxoStream: each goroutine runs; clients take what they are sent (the
wrapper's `Send` calls the listener and returns); `Lock`, `Register` and
`Unregister` are strongly fair since a Go mutex in starvation mode is handed to the
longest waiter. No fairness is assumed of `Cancel`, of rounds beginning or of
transactions. WorkManager: `QueryReturns` needs `QueryFairness` only, that callers and
dispatcher run and batch timers strike: each case of the dispatcher's `select` is strongly
fair, because Go chooses at random among the cases that are ready. Every batch has a timer
(`query/interface.go:12`), so a query ends although peers and workers may keep its jobs for
ever. `StopReturns` is refuted with `WorkerFairness` on top: the workers run and a *good*
peer answers. Nothing forces a call of `Stop`. DaemonLife: the handlers' work goes on, the steps of a serving goroutine
that is shutting down are taken, and each handler's `select` takes the closed quit
channel sometime when it is ready again and again (strong fairness). Nothing forces a
`Start`, a `Stop`, a header or an end of the process.

## 4. Proofs

| theorem | module | for every |
|---|---|---|
| `TypeCorrect`, `StoreBacked` (`LeafsetBacked`), `MarkSafe` (`MarkCoversFork`), `Implements` (ChainView) | MwebSyncProofs | tree, number of faults, stride, purge depth, sparse or not, with stale, silent and known-header peers, under `Calm` |
| `HeightsExact` (`CoinHeightsExact`) | MwebSyncProofs | the same, under `Calm` and `CountsAll` |
| `TypeCorrect`, `FieldsAreGuarded`, `StreamersFollow`, `StreamsReadChainView` (`StoreIsChainView`) | UtxoStreamProofs | tree, number of clients, rounds and transactions, purges, failing reads and writes |
| `RelayedIsKnown` (`UnconfirmedKnown`), `NothingIsMissed` (`NothingMissed`) | UtxoStreamProofs | the same without failing reads and writes |
| `ReplayIsTruthful` (`ReplayTruth`) | UtxoStreamProofs | the same without purges |
| `LifeTypeCorrect` (`LifeTypeOK`), `ClosedOnlyOnce` (`ClosedOnce`) | DaemonLifeProofs | tree, checkpoints, kills, calls of serve, all hazards |
| `StartsAgain` (`FailsOnlyIfHit`), `StoresTellOneChain` (`StoresAgree`), `CheckpointReached` (`SeedApplied`), `StopLeavesOrder` (`OrderlyStop`) | DaemonLifeProofs | the same without `"race"` |
| `TypeCorrect`, `EachAnsweredOnce`, `NoJobLost` (`JobsAccounted`), `WorkersKnown` (`WorkersTracked`), `SuccessComplete` (`SuccessMeansAnswered`) | WorkManagerProofs | number of batches, requests, retries and peers, score range |
| `ReplayTypeCorrect`, `ReplayLosesNothing` (`NothingLost`), `CacheFilesApart` (`OneWriterPerFile`), `SnapshotsHold` (`SnapshotsTrue`), `MissedRecovered` (`RecoversMissed`) | LeafsetReplayProofs | tree, set of fetchers, heights asked for and listed, answers, failures, reorgs of the source and kills |
| `NoBlockLost` (`NothingLost`), `FilesApart` (`OneWriterPerFile`), `LeafsetsTrue` (`SnapshotsTrue`), `ToolRecovers` (`RecoversMissed`), `NothingPassedOver` (`ScanComplete`), `ArchiveLinesTrue` (`ArchiveTrue`), `ArchiveLinesApart` (`ArchiveSpaced`), `LinesAreTrue` (`LinesTrue`), `ToolTyped` (`ToolTypeOK`) | CheckpointToolProofs | tree, modes, page size, interval, heights asked for, failures, kills, moves of the peer, daemons on the directory |

**Assumptions.** `PathAssumption` and `MwebAssumption` on the chain data (nothing on it in
WorkManager, which has no chain), and the types of the constants. Beyond that each theorem
names the behaviours of the environment under which it holds; without them the property is
false, as the runs and *Divergences* show.

* `Calm` (MwebSync): reorgs do not overlap, no query completes inside `rollBackToHeight`,
  and where a reorg may be so deep that the store is emptied, no peer serves the
  branch that was left. A reorg overlaps also when the handler has emptied the store and
  still holds the mark it deleted: `ClearRollbackHeight` compares heights, and would
  delete the equal mark of a second reorg.
* `CountsAll` (`HeightsExact`): the leaf counts are asked for at every height, because the
  chain is below `Dense` or the stride is 1. Else `RoughHeight` is what its name says.
* No `"dbfail"` (`NothingIsMissed`, `RelayedIsKnown`): a `FetchLeaves` that fails inside
  `notify` is only logged, and a failed write of the mempool bucket not even that
  (`server.go:202`). No `"purge"` (`ReplayIsTruthful`): a purge cuts a replay short.
* No `"race"` (four theorems of DaemonLife): a reorg does not begin while `cfHandler`
  writes a batch. The same four speak of stores that are not *hit*.
* `MinedOnce`: `LeafsetBacked`, `CoinHeightsExact` and the view of ChainView speak of the
  coins of these outputs only; of the others they say which output each leaf is. The
  properties of UtxoStream are stated for trees without the others.
* `NoWrap` (`ArchiveLinesApart`): no height comes within `MinStep` of 2^32, where
  `lastHeight+interval` would wrap. The heights asked of the command are finite sets.

**MwebSync.** `LeafsetBacked` and `MarkCoversFork` are not inductive. The invariant
has to say what each step of a round knows: that `last` is comparable to the stored
leafset's block once the round is past its decision (or the mark will make the next
round so), that the leaves still in `todo` plus those stored make up `Unspent[last]`,
that what is stored above the leafset by an abandoned round cannot be taken for a
leaf of it, and what `bhPc` says of `mark`, `tip`, `fork` and `target` during a reorg.
The heart is a lemma on trees (BlockTreeProofs): comparable blocks agree on the
outputs of every leaf both have (and an output mined once is of one leaf only), so
fetching only the difference of two leafsets is enough. That is why the handler must step to the fork before it climbs the new
branch, and the mutant that goes straight to the tip (`StepToTip`) breaks it. A purge
empties the store in the middle of a rollback, whose mark goes with it: what the chain
and `last` then have to do with one another is not known (`Astray`), until the
leafset of `last` has been verified, which a peer on the current branch serves for blocks
of that branch only.

`CoinHeightsExact` has an invariant of its own, `CInv`. A leaf count may be of an abandoned
branch only above the mark (`CountsTrue`), and is gone before a mark is cleared
(`CountsTrimmed`); below the mark all are there up to the height the batches have come to
(`AskedSoFar`), and once the headers have been asked for up to the block itself (`CountsFull`). So a coin fetched now has its exact height if its leaf is within the
`Reach` of the mark; the others are above the fork that the mark names, where the round in
hand does not end: the property is stated for no pending mark.

**UtxoStream.** `IInv` is `TypeOK` and eight further parts: `MtxHeld` and `CbHeld`
(who holds each mutex, by `npc` and `round`), `CallShape` (which notifier can carry
what), `AtShape` (a notifier past `lock` holds `s.mtx` and is at one registered
streamer), `Greeted` (`init` only once live, so `lfs` was set before), `Informed` (the
streamers still to be told of a new leafset are exactly those in `queue` and `at`),
`TodoShape`, and `Recorded`, which is `UnconfirmedKnown` as long as no write fails. A second one, `Covered`, follows every output due to a
client to where it is: still to be replayed (`ReplayRight`), sent, in the notification that
its streamer is getting, or among the leaves of the stored leafset that the next
notification reads (`LiveRight`, `Coming`). It rests on what the store holds during a
round (`Stored`) and on leaf counts of one branch (`Counted`), which make the leaf a replay
starts from low enough.

**HeaderStore, DaemonLife.** One half of the invariant holds whatever has hit the stores:
no step reads past the end of a file (`Sane`, `SaneUp`), at most one call of serve got as
far as serving, and what it says of the gRPC server, the port and the handlers (`Served`,
`Guarded`). `ClosedOnce` needs no more. The other half, `Unhit`, says what every step of a
start finds (`Started`, `Seeded`: a blank disk, or sound files, each the chain to its tip
or to a block above it that the next opening cuts back) and what each step of the
handlers finds (`Running`); a kill must leave one of the two disks wherever it comes,
except at the moments `hit` names. `LeftExact` carries this to the closed database.

**WorkManager.** No assumption but the constants' types. `IInv` adds to the checked
invariants: `Unsent` (before its send a batch and its jobs are nowhere, so accepting
it doubles no job), `LeftOwn` and `LeftCovers` (a batch's `jobs` map holds only its own
jobs, and what it no longer holds has been answered), `WorkerShape` (a worker that
reports success has the answer) and `Ranked` (only a peer never seen is `Unranked`, so
that `Punish` stays in range). `AnsweredOnce` follows because every way to answer a
batch first needs it in `currentBatches` and takes it out; `SuccessMeansAnswered` from
`LeftCovers` at the step that empties the map.

**LeafsetReplay.** `IInv` adds to the types: JobsAhead (what is handed out is still waited
for), OnePlace (a height is in exactly one place: job list, fetcher, results channel or
pending map), Exits (a fetcher leaves only when no job is left), GapBelow (a gap
recovery works below everything still waited for), InHand (a result in hand is the
block of its height) and Recorded (the files already written). `OneWriterPerFile` needs
GapBelow: the recovery of a gap fetches in the replay's own goroutine while the fetchers
are still running. `SnapshotsTrue` is Recorded. That the channel is never found closed too
early is the case of one action, refuted by NothingLost and OnePlace; the lowest height
waited for exists by the well-foundedness of a finite set of naturals.

`RecoversMissed` has an invariant of its own, `FInv`. While nothing failed, every
block in the cache, in hand or under way is the source's at its height (`FromSource`), the
replayer holds the leafset of the last block it took (`Holds`), and no listed block was passed
over (`Applying`). Applied to its parent's leafset a block makes its own (`ApplyNext`), so a recovery that starts
from a listed block does not fail; one that starts from nothing asks for the blocks from height 1
on, where there is no MWEB data, and `Applying` tells that only the first listed height
starts so (the second exception of the property, `err = "gap"`; in the instance of the
command the first block is always listed, so this one rests on the proof). Applied over a gap it may fail, or make a leafset that fits, and then
it has made the right one if the source told its size (`ApplyChecked`). That is why the
property assumes `SizesTold`: a leaf root alone takes a leafset of the wrong size, as long as it needs
the same bytes, and the next listed block is then found not to fit with nothing left to recover. What
`Apply` computes, a fold over a sequence, is proved by induction over the sets of the indices for
which a claim holds (`Upto`), which the well-foundedness of finite sets of naturals gives
without a second-order theorem. `LeafsetAssumption` says that a block's own outputs are unspent in
it: its body is cut through, and `apply` takes the inputs first.

**CheckpointTool.** Each step of the command is a step of one part that leaves the others
alone, or only counts a fault (`PartSteps`), so each part is proved for any step of its own
and what the rest may do to it, and the composition is short. For the scan: what
lies before the lower bound of the binary search is above the highest target and stays so
while blocks are mined on top (`Searched`); every listed block at or below the target whose
offset is below the next page's is found, and mining only moves blocks to higher offsets,
so that none slips behind unseen (`Paged`). For the watch: the filter
header tip is on the path of the header tip (`Stores`), so a line exported between two steps
of a daemon is of one block; a line about to be appended is good and a torn append leaves
nothing that parses (`Archived`); no line that parses lies above `lastHeight`, the line in
hand is `MinStep` above them all (`Apart`). A restart reads `lastHeight` back from the file,
which is why `Apart` speaks of all lines that parse and not of the last one.

`LinesTrue` joins them. At every moment what lies in the peer's channel is the answer to the
one request under way (`Fits`), because a request is sent only when the channel has been read
empty; a `cfheaders` is kept only if its stop hash is the block asked for and it holds one
hash, an `mwebheader` only at the height asked for. So each filter header and each leafset wanted is either
still to be fetched or has come for that very block and height (`Fetches`), whatever the peer's
chain does in between, and when nothing is left to fetch all have come (`AllFetched`). That a
block is at the height counted for it is not known when the headers come: a `getheaders`
answered from genesis again leaves it wrong. It is what the two checks above establish, the
one of the `mwebheader`'s height and the one of the number of hashes, and the mutant
`TakeAnyFilter` drops the second. The blocks wanted are those of `hashes` (network), of the
snapshots (explorer: one per height, `Snapped`, and no other once the replay is over)
or of the directory (hybrid: at a height both stores hold, `OnAgree` makes the filter header
the block's, `InputsRead`). A line of an export is good by the same fact as one of the
archive (`Exported`).

**Model-checked only:** everything temporal beyond the step properties (`CatchesUp`,
`CancelEnds`, `MtxReleased`, `QueryReturns`, `StopReleases`): TLAPS has no
liveness under fairness here. Every invariant a passing run checks is also a theorem.

`NothingMissed` and `ReplayTruth` rest on a fact worth knowing: `utxoHandler` blocks
in the greeting of a streamer that is still replaying, with `s.mtx` and
`mwebUtxosCallbacksMtx` held, so at most one change of the leafset can fall into a
replay. A change that made the greeting non-blocking would break both.

## 5. Divergences found

Each has a run that exhibits it; `PROJECT.json` gives the lines.

1. **Overlapping reorgs** (MwebSyncOverlap). `rollBackToHeight` overwrites a lower
   pending mark with a higher one. (Or puts back, as its own, the mark that a purge removed and
   that the round in hand will clear, since `mwebHandler` keeps `rollbackHeight` after
   `PurgeCoins`, `mwebhandler.go:47`, `:162`.)
2. **Ghost outputs** (MwebSyncGhost). An output stored by an interrupted round and
   spent before the next stays in the coin bucket, and `Spent` takes it for unspent.
3. **Kill while truncating** (HeaderStoreCut). `RollbackLastBlock` cuts the file first;
   after a kill the index is ahead, which opening does not repair.
4. **Stop waits for a worker that waits for nobody** (WorkManagerStop). The utxo
   query's handler sends on an unbuffered channel to a caller that may have left; only
   `blockManager.quit` would release it, which `ChainService.Stop` closes after it has
   waited for the workers. Without a stop, that peer's worker is lost to all queries.

Others can be reached in the models by changing the constants, and have no run of
their own: a purge in the middle of a replay makes `replay_complete` true of outputs
that were not streamed (`"purge"`, against `ReplayTruth`); a reorg while `cfHandler`
writes leaves the filter tip at a block the index no longer has (`"race"`, against
`FilterTipIndexed`); a round that completes inside `rollBackToHeight` clears its mark
(`"slow"`); after a purge the handler continues to the tip it had read (`"stale"`
with a small `PurgeDepth`); a purge of a seeded store asks for headers it does not
have, for ever (`Sparse` with a small `PurgeDepth`, `mwebheaders.go:29`); a failed
`FetchLeaves` in `notify` loses that notification (`"dbfail"`); `headerTip` is set to
zero by a message with nothing new (`"known"`, against the comment at
`blockmanager.go:152`); a kill between the steps of a seeding is not always
recovered (`"seed"`).

Read in the code of `query/`, with no effect on the properties: `NumRetries(n)` is
"the number of times a query should be retried" (`query/interface.go:70`), but the
n-th failure already ends the batch, so n is the number of attempts; the jobs of a
batch that has ended stay in the queue and are still given to peers.

In the checkpoint command and the daemon's life, seen while modelling and outside what
the properties claim:

* A checkpoint height that is not listed is not recovered (`replay.go:125`), though the
  comment at `explorer.go:178` counts on replay for "any remaining gaps". And when a block below
  the first listed one was missed, the recovery starts at height 1 of the chain, where
  blocks have no MWEB data, and ends in a fetch error (`replay.go:94`, `:113`, `:215`). These are the two
  exceptions of `RecoversMissed`. With a source that does not name num_txos for a listed block,
  a listed height can fail so too (`SizesTold`).
* An output that is spent and mined again on the same branch loses its coin when both
  leaves change in one round: `PutCoins` stores the new leaf's coin under the output's ID, and
  `PutLeafsetAndPurge` then deletes by that ID the coin of the old leaf (`coindb.go:298`).
  `FetchLeaves` then fails for every leafset with the new leaf. `MinedOnce` marks these
  outputs; nothing else is lost with them.
* An unconfirmed output whose write to the mempool bucket failed is announced all the same
  (`server.go:202`): `Create` does not find it then.
* The tip rounded down to the interval may lie below the activation (`explorer.go:81`);
  what follows fails with an unhelpful error.
* With `-heights tip`, a peer whose tip is a multiple of 2000 answers the last getheaders with none,
  which is taken for a failure (`network.go:344`).
* A peer without the required services may pass `-check-peer`: its complaint and
  `ready` are both there when the `select` looks (`network.go:285`).
* After a torn line in the archive every later watch refuses to start (`watch.go:34`);
  after a failed sync a line is there twice.
* A watch exports at the stored leafset's tip, with no safe depth: a true checkpoint, of a
  block that may be abandoned later.
* `Stop` before the goroutine has called `Serve`, or without a `Start`, leaves the
  database open and the chain service running; a `Start(0)` after a `Stop` returns a port
  nobody serves; `Start(n)` holds the mutex while it serves, so `Stop` waits for
  ever (`mwebdandroid.go:58`). A `NewServer2` that fails after it opened the database keeps the lock.
* `Stop` does not cancel the subscriptions of the wrapper: their calls of `Utxos` go on
  against a closed database until each is closed.

## 6. Not modelled

* Transaction creation, PSBT, coinswap, ledger, generated code: nothing to interleave.
* The rescan, its block notifications and the legacy queries: the daemon starts no
  rescan. The broadcaster: one goroutine over a map. The filter batch writer: not used
  by the daemon. The bounded header list: one goroutine's ring buffer.
* Of header sync: the choice of the sync peer, the built-in checkpoints, `headerList`
  running ahead of the store after a header that fails (`blockmanager.go:2545`). Of filter header sync:
  fetching from all peers and the bans. Both would need peers that lie about
  headers, while the trees here hold valid blocks only.
* Connections, bans and addresses: the work of packages outside the repository's own code.
* Out of the abstraction: cryptographic verification, wire formats, JSON and HTML,
  torn writes inside one 80-byte record (`headerfs/file.go:19`), the wrap-around of
  `heightMap[height]-1` (`mwebutxos.go:200`) and of `lastHeight+minHeightStep`
  (`watch.go:97`), an error from `ChainService.Stop` (which would leave the database open),
  and `BlockHeadersSynced` turning true with no broadcast (`blockmanager.go:2244`): `CatchesUp` is
  checked with wakeups from headers only.
