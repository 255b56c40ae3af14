------------------------------ MODULE DaemonLife ------------------------------
(***************************************************************************)
(* The life of the Android wrapper's Daemon on a data directory: created,  *)
(* started, stopped, and created again, with the header stores of          *)
(* HeaderStore underneath.                                                 *)
(*                                                                         *)
(*   - The lock on neutrino.db is held from NewDaemon until the goroutine  *)
(*     that served has stopped the chain service and closed the database.  *)
(*   - Start(0) serves on a goroutine of its own; Start(n) serves before   *)
(*     it returns, holding d.mu all the time.                              *)
(*   - Stop only stops the grpc server, which is never started again.      *)
(*                                                                         *)
(* Of grpc (external): Serve on a stopped server returns an error; Stop    *)
(* makes every Serve under way return nil.                                 *)
(***************************************************************************)
EXTENDS HeaderStore, FiniteSets

CONSTANT MaxServes      \* bound: calls of Server.serve under way or over

VARIABLES
    held,       \* the lock on neutrino.db
    grpc,       \* the grpc server: none, new or stopped
    port,       \* d.port is not 0
    blocking,   \* the call of serve that Start(n) waits for with d.mu, or 0
    serve,      \* call of serve |-> where it is
    handlers    \* blockHandler and cfHandler, while they run

lifeVars == <<held, grpc, port, blocking, serve, handlers>>
all      == <<vars, lifeVars>>

ASSUME DaemonAssumption == MaxServes \in Nat \ {0}

Servers == 1..MaxServes

Closing == {"returned", "wedged", "quitting", "closing", "closed"}

LifeTypeOK ==
    /\ TypeOK
    /\ held \in BOOLEAN /\ grpc \in {"none", "new", "stopped"} /\ port \in BOOLEAN
    /\ blocking \in {0} \cup Servers
    /\ serve \in [Servers -> {"none", "listening", "serving"} \cup Closing]
    /\ handlers \subseteq Kinds

NoDaemon ==
    /\ grpc' = "none" /\ port' = FALSE /\ blocking' = 0
    /\ serve' = [i \in Servers |-> "none"] /\ handlers' = Kinds

LifeInit ==
    /\ Init
    /\ held = FALSE /\ grpc = "none" /\ port = FALSE /\ blocking = 0
    /\ serve = [i \in Servers |-> "none"] /\ handlers = Kinds

-------------------------------------------------------------------------------
(* NewDaemonWithRestoreCheckpoint, NewServer2.  With the lock held they    *)
(* wait a minute and fail.                                                 *)

NewDaemon(c) ==
    /\ ~held /\ Start(c)
    /\ held' = TRUE
    /\ NoDaemon

(* A failure after walletdb.Create leaves the database open; one in the    *)
(* bootstrap closes it.                                                    *)
Opening ==
    /\ DecideByFiles \/ DecideByState \/ Seed \/ Open
    /\ held' = ~(pc = "decide" /\ pc' = "failed")
    /\ grpc' = IF pc' = "up" THEN "new" ELSE "none"
    /\ UNCHANGED <<port, blocking, serve, handlers>>

(* After a failure that left it open only a new process has a chance.      *)
TryAgain ==
    /\ Retry
    /\ held' = FALSE
    /\ NoDaemon

Killed ==
    /\ Kill
    /\ held' = FALSE
    /\ NoDaemon

-------------------------------------------------------------------------------
(* Daemon.Start, Daemon.Stop *)

Unlocked == blocking = 0        \* d.mu
Free == {i \in Servers : serve[i] = "none"}

(* What becomes of a store that was hit is not followed. *)
Listen(i) == ~hit /\ i \in Free /\ (\A k \in Free : i <= k) /\ serve' = [serve EXCEPT ![i] = "listening"]

(* Mutant: d.port is not looked at.                                        *)
StartTwice(i) ==
    /\ grpc # "none" /\ Unlocked
    /\ Listen(i)
    /\ port' = TRUE
    /\ UNCHANGED <<held, grpc, blocking, handlers, vars>>

StartInApp(i) ==
    /\ grpc # "none" /\ Unlocked /\ ~port
    /\ Listen(i)
    /\ port' = TRUE
    /\ UNCHANGED <<held, grpc, blocking, handlers, vars>>

StartOnPort(i) ==
    /\ grpc # "none" /\ Unlocked /\ ~port
    /\ Listen(i)
    /\ blocking' = i
    /\ UNCHANGED <<held, grpc, port, handlers, vars>>

Stop ==
    /\ grpc # "none" /\ Unlocked
    /\ grpc' = "stopped"
    /\ port' = FALSE
    /\ serve' = [i \in Servers |-> IF serve[i] = "serving" THEN "returned" ELSE serve[i]]
    /\ UNCHANGED <<held, blocking, handlers, vars>>

-------------------------------------------------------------------------------
(* Server.serve.  When it returns, a Start(n) that waited for it returns.  *)

ServeOn(i) ==
    /\ serve[i] = "listening" /\ grpc = "new"
    /\ serve' = [serve EXCEPT ![i] = "serving"]
    /\ UNCHANGED <<held, grpc, port, blocking, handlers, vars>>

Refused(i) ==
    /\ serve[i] = "listening" /\ grpc = "stopped"
    /\ serve' = [serve EXCEPT ![i] = "none"]
    /\ blocking' = IF blocking = i THEN 0 ELSE blocking
    /\ UNCHANGED <<held, grpc, port, handlers, vars>>

(* ChainService.Stop, until the handlers are told.  workManager.Stop comes *)
(* first and may never return (WorkManager).  A second call does nothing.  *)
StopService(i) ==
    /\ serve[i] = "returned"
    /\ \E next \in IF \E k \in Servers : serve[k] \in Closing \ {"returned"}
                   THEN {"closing"} ELSE {"quitting", "wedged"} :
          serve' = [serve EXCEPT ![i] = next]
    /\ UNCHANGED <<held, grpc, port, blocking, handlers, vars>>

(* A handler takes the quit channel when it is between two messages, but   *)
(* may take another message first.                                         *)
Told == \E i \in Servers : serve[i] = "quitting"
Leaves(k) == Told /\ k \in handlers /\ handlers' = handlers \ {k}
             /\ UNCHANGED <<held, grpc, port, blocking, serve, vars>>

(* Mutant: in the middle of one.                                           *)
QuitAtOnce == Leaves("block")

BlockHandlerQuits == op = "idle" /\ Leaves("block")
CfHandlerQuits    == cf = "idle" /\ Leaves("filter")

Working ==
    /\ \/ "block" \in handlers /\ BlockHandler
       \/ "filter" \in handlers /\ CfHandler
    /\ UNCHANGED lifeVars

(* blockManager.Stop has waited for both.                                  *)
ServiceStopped(i) ==
    /\ serve[i] = "quitting" /\ handlers = {}
    /\ serve' = [serve EXCEPT ![i] = "closing"]
    /\ UNCHANGED <<held, grpc, port, blocking, handlers, vars>>

ServeEnds(i, lock) ==
    /\ serve[i] = "closing"
    /\ serve' = [serve EXCEPT ![i] = "closed"]
    /\ blocking' = IF blocking = i THEN 0 ELSE blocking
    /\ held' = lock
    /\ Down
    /\ UNCHANGED <<grpc, port, handlers>>

(* Mutant: serve returns without closing the database.                     *)
LeaveDb(i) == ServeEnds(i, held)

(* The database is closed, and with it the lock.                           *)
CloseDb(i) == ServeEnds(i, FALSE)

LifeNext ==
    \/ \E c \in Checkpoints \cup {None} : NewDaemon(c)
    \/ Opening \/ TryAgain \/ Killed \/ Stop \/ Working
    \/ BlockHandlerQuits \/ CfHandlerQuits
    \/ \E i \in Servers :
          \/ StartInApp(i) \/ StartOnPort(i) \/ ServeOn(i) \/ Refused(i)
          \/ StopService(i) \/ ServiceStopped(i) \/ CloseDb(i)

LifeSpec == LifeInit /\ [][LifeNext]_all

(* Goroutines run; a select with two ready cases takes each sometime.      *)
Fairness ==
    /\ WF_all(Working) /\ SF_all(BlockHandlerQuits) /\ SF_all(CfHandlerQuits)
    /\ WF_all(\E i \in Servers : StopService(i) \/ ServiceStopped(i) \/ CloseDb(i))

FairLife == LifeSpec /\ Fairness

-------------------------------------------------------------------------------
(* Safety: one call of serve stops the chain service and closes the        *)
(* database, however often and from wherever Start and Stop are called.    *)
(* ChainService.Stop does not wait when it is called a second time, so     *)
(* that a second one would close the database under the handlers.          *)
ClosedOnce == Cardinality({i \in Servers : serve[i] \in Closing}) <= 1

(* Safety: whoever finds the lock free after an orderly stop - the next    *)
(* Daemon, or the mwebcheckpoint tool - finds each header file and the     *)
(* index in agreement, and the filter headers on the path of the blocks.   *)
OrderlyStop ==
    ~held /\ (\E i \in Servers : serve[i] = "closed") /\ ~hit =>
        /\ \A k \in Kinds : /\ file[k][Len(file[k])] = tip[k]
                            /\ height[tip[k]] = Height(tip[k])
        /\ On(tip["filter"], tip["block"])

(* Liveness: a Stop that finds the server serving gives up the data        *)
(* directory, unless workManager.Stop never returns.                       *)
StopReleases ==
    \A i \in Servers :
        serve[i] = "returned" ~> ~held \/ serve[i] = "wedged"
===============================================================================
