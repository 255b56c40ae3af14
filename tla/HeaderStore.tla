----------------------------- MODULE HeaderStore -----------------------------
(***************************************************************************)
(* The block and filter header stores (neutrino/headerfs) across crashes.  *)
(* Each store is a flat file that only grows and shrinks at its end, and a *)
(* tip in neutrino.db; both share one index there, block hash |-> height.  *)
(* File and database are updated one after the other, and a process may be *)
(* killed between the two:                                                 *)
(*                                                                         *)
(*    starting      NewDaemonWithRestoreCheckpoint seeds the stores from a *)
(*                  restore checkpoint, or keeps them; NewChainService     *)
(*                  opens them, cutting a file that outgrew its index;     *)
(*    blockHandler  appends block headers, rolls both stores back;         *)
(*    cfHandler     appends filter headers for blocks it has just read.    *)
(*                                                                         *)
(* A block stands for its header and for its filter header.                *)
(***************************************************************************)
EXTENDS ChainTree

CONSTANTS
    Checkpoints,  \* the restore checkpoints the wallet may start with
    MaxCrashes,   \* bound: kills of the process
    Hazards       \* which of the moments below occur

(* "truncate"  a kill between cutting a file and moving its tip in the index *)
(* "seed"      a kill while the stores are being created or seeded           *)
(* "race"      a rollback while cfHandler is writing what it has read        *)
HazardKinds == {"truncate", "seed", "race"}

ASSUME HeaderStoreAssumption ==
    /\ Checkpoints \subseteq Blocks \ {Base}
    /\ MaxCrashes \in Nat
    /\ Hazards \subseteq HazardKinds

Kinds == {"block", "filter"}

VARIABLES
    \* the data directory
    exists,     \* the header files that exist
    file,       \* kind |-> the headers in the file, <<>> if there is none
    db,         \* neutrino.db exists
    height,     \* its index: block |-> height, 0 when absent
    tip,        \* kind |-> the tip it records, or None
    first,      \* kind |-> the first height it records, 0 when absent
    mweb,       \* what the coin store holds of the checkpoint
    \* the process
    pc,         \* how far it has come in starting
    asked,      \* the restore checkpoint it was started with, or None
    base,       \* kind |-> headerStore.baseHeight, read at opening
    op, floor, regHeight, batch,    \* blockHandler: step and locals
    cf, from, stop,                 \* cfHandler: step and locals
    \* bookkeeping of the model
    hit,        \* a kill came at one of the moments of Hazards
    crashes

disk   == <<exists, file, db, height, tip, first, mweb>>
bhVars == <<op, floor, regHeight, batch>>
cfVars == <<cf, from, stop>>
count  == <<hit, crashes>>
vars   == <<disk, pc, asked, base, bhVars, cfVars, count>>

NoIndex == [b \in Blocks |-> 0]
Idle ==
    /\ base' = [k \in Kinds |-> 0]
    /\ op' = "idle" /\ floor' = 0 /\ regHeight' = 0 /\ batch' = Base
    /\ cf' = "idle" /\ from' = 0 /\ stop' = Base

Init ==
    /\ exists = {} /\ file = [k \in Kinds |-> <<>>]
    /\ db = FALSE /\ height = NoIndex /\ tip = [k \in Kinds |-> None]
    /\ first = [k \in Kinds |-> 0] /\ mweb = {}
    /\ pc = "down" /\ asked = None /\ base = [k \in Kinds |-> 0]
    /\ op = "idle" /\ floor = 0 /\ regHeight = 0 /\ batch = Base
    /\ cf = "idle" /\ from = 0 /\ stop = Base
    /\ hit = FALSE /\ crashes = 0
-----------------------------------------------------------------------------
(* Reading a store *)

(* The first height a file holds, as its index knows it when it is opened. *)
BaseOf(k) == IF first[k] = 0 THEN Height(Base) ELSE first[k]

(* The header at height h of a file f that begins at height b can be read. *)
CanRead(f, b, h) == b <= h /\ h - b < Len(f)

(* Mutant: the file is left as it is. *)
Unreconciled(k) == file[k]

(* What opening makes of a file that has headers, given its index: headers *)
(* above the index's tip are cut off.  The filter store compares a block's *)
(* hash with a filter header, so only its lengths count.                   *)
Reconciled(k) ==
    LET n == height[tip[k]] - BaseOf(k) + 1
    IN  IF (k = "block" /\ file[k][Len(file[k])] = tip[k]) \/ Len(file[k]) <= n
          THEN file[k] ELSE SubSeq(file[k], 1, n)

(* Opening fails, or panics on a nil hash, when the index has no tip. *)
Indexed(k) == tip[k] # None /\ height[tip[k]] > 0

(* ChainTip of the opened store returns the tip's header and height. *)
HasTip(k) == Indexed(k) /\ CanRead(file[k], base[k], height[tip[k]])
-----------------------------------------------------------------------------
(* Starting: NewDaemonWithRestoreCheckpoint *)

(* Mutant: an empty checkpoint is taken for one. *)
StartAnyway(c) ==
    /\ pc = "down"
    /\ asked' = c
    /\ pc' = "decide"
    /\ UNCHANGED <<disk, base, bhVars, cfVars, count>>

Start(c) ==
    /\ pc = "down"
    /\ asked' = c
    /\ pc' = IF c = None THEN "db" ELSE "decide"
    /\ UNCHANGED <<disk, base, bhVars, cfVars, count>>

(* shouldBootstrapRestoreCheckpoint on the files alone. *)
DecideByFiles ==
    /\ pc = "decide"
    /\ exists = {} \/ ~db
    /\ pc' = IF db THEN "db" ELSE "rmBlock"
    /\ UNCHANGED <<disk, asked, base, bhVars, cfVars, count>>

(* Mutant: both stores have to be behind. *)
BothBehind ==
    /\ height[tip["block"]] < Height(asked)
    /\ height[tip["filter"]] < Height(asked)

Behind ==
    \/ height[tip["block"]] < Height(asked)
    \/ height[tip["filter"]] < Height(asked)

(* restoreCheckpointStateBehind opens both stores to see how far they are,  *)
(* which repairs them; it passes no chain parameters, so it cannot create.  *)
DecideByState ==
    /\ pc = "decide"
    /\ exists # {} /\ db
    /\ IF \A k \in Kinds : file[k] # <<>> /\ Indexed(k)
                           /\ CanRead(Reconciled(k), BaseOf(k), height[tip[k]])
         THEN /\ file' = [k \in Kinds |-> Reconciled(k)]
              /\ pc' = IF Behind THEN "rmBlock" ELSE "db"
         ELSE file' = file /\ pc' = "failed"
    /\ UNCHANGED <<exists, db, height, tip, first, mweb, asked, base, bhVars, cfVars, count>>

(* removeRestoreCheckpointState: block file, filter file, database. *)
RemoveFile(k, here, next) ==
    /\ pc = here
    /\ exists' = exists \ {k}
    /\ file' = [file EXCEPT ![k] = <<>>]
    /\ pc' = next
    /\ UNCHANGED <<db, height, tip, first, mweb, asked, base, bhVars, cfVars, count>>

RemoveDb ==
    /\ pc = "rmDb"
    /\ db' = FALSE /\ height' = NoIndex /\ mweb' = {}
    /\ tip' = [k \in Kinds |-> None] /\ first' = [k \in Kinds |-> 0]
    /\ pc' = "mkDb"
    /\ UNCHANGED <<exists, file, asked, base, bhVars, cfVars, count>>

CreateDb(here, next) ==
    /\ pc = here
    /\ db' = TRUE
    /\ pc' = next
    /\ UNCHANGED <<exists, file, height, tip, first, mweb, asked, base, bhVars, cfVars, count>>

(* bootstrapHeaderStore: the file with one header, then its index entry. *)
SeedFile(k, here, next) ==
    /\ pc = here
    /\ exists' = exists \cup {k}
    /\ file' = [file EXCEPT ![k] = <<asked>>]
    /\ pc' = next
    /\ UNCHANGED <<db, height, tip, first, mweb, asked, base, bhVars, cfVars, count>>

SeedIndex(k, here, next) ==
    /\ pc = here
    /\ height' = [height EXCEPT ![asked] = Height(asked)]
    /\ first' = [first EXCEPT ![k] = Height(asked)]
    /\ tip' = [tip EXCEPT ![k] = asked]
    /\ pc' = next
    /\ UNCHANGED <<exists, file, db, mweb, asked, base, bhVars, cfVars, count>>

(* The checkpoint's leaf count, then its leafset. *)
SeedMweb(what, here, next) ==
    /\ pc = here
    /\ mweb' = mweb \cup {what}
    /\ pc' = next
    /\ UNCHANGED <<exists, file, db, height, tip, first, asked, base, bhVars, cfVars, count>>

Seed ==
    \/ RemoveFile("block", "rmBlock", "rmFilter") \/ RemoveFile("filter", "rmFilter", "rmDb")
    \/ RemoveDb \/ CreateDb("mkDb", "seedBlock")
    \/ SeedFile("block", "seedBlock", "ixBlock") \/ SeedIndex("block", "ixBlock", "seedFilter")
    \/ SeedFile("filter", "seedFilter", "ixFilter") \/ SeedIndex("filter", "ixFilter", "leaves")
    \/ SeedMweb("leaves", "leaves", "leafset") \/ SeedMweb("leafset", "leafset", "db")
-----------------------------------------------------------------------------
(* Starting: NewServer2, NewChainService *)

ReopenStore(k, here, next) ==
    /\ pc = here
    /\ file[k] # <<>>
    /\ IF Indexed(k)
         THEN /\ base' = [base EXCEPT ![k] = BaseOf(k)]
              /\ file' = [file EXCEPT ![k] = Reconciled(k)]
              /\ pc' = next
         ELSE UNCHANGED <<base, file>> /\ pc' = "failed"
    /\ UNCHANGED <<exists, db, height, tip, first, mweb, asked, bhVars, cfVars, count>>

(* An empty store begins with the genesis header ... *)
CreateStore(k, here, next) ==
    /\ pc = here
    /\ file[k] = <<>>
    /\ exists' = exists \cup {k}
    /\ base' = [base EXCEPT ![k] = BaseOf(k)]
    /\ file' = [file EXCEPT ![k] = <<Base>>]
    /\ pc' = next
    /\ UNCHANGED <<db, height, tip, first, mweb, asked, bhVars, cfVars, count>>

(* ... which the block store indexes; the filter store only sets its tip. *)
IndexGenesis(k, here, next) ==
    /\ pc = here
    /\ tip' = [tip EXCEPT ![k] = Base]
    /\ IF k = "block" THEN /\ height' = [height EXCEPT ![Base] = Height(Base)]
                           /\ first' = [first EXCEPT ![k] = Height(Base)]
                      ELSE UNCHANGED <<height, first>>
    /\ pc' = next
    /\ UNCHANGED <<exists, file, db, mweb, asked, base, bhVars, cfVars, count>>

(* newBlockManager reads both tips and the block at the filter tip. *)
Manage ==
    /\ pc = "manage"
    /\ pc' = IF /\ \A k \in Kinds : HasTip(k)
                /\ CanRead(file["block"], base["block"], height[tip["filter"]])
               THEN "up" ELSE "failed"
    /\ UNCHANGED <<disk, asked, base, bhVars, cfVars, count>>

Open ==
    \/ CreateDb("db", "openBlock")
    \/ ReopenStore("block", "openBlock", "openFilter")
    \/ CreateStore("block", "openBlock", "genBlock") \/ IndexGenesis("block", "genBlock", "openFilter")
    \/ ReopenStore("filter", "openFilter", "manage")
    \/ CreateStore("filter", "openFilter", "genFilter") \/ IndexGenesis("filter", "genFilter", "manage")
    \/ Manage
-----------------------------------------------------------------------------
(* blockHandler: each store's mutex is held from file to index *)

Up == pc = "up"
Parent(b) == Path[b][Height(b) - 1]
Between(b, h) == SubSeq(Path[b], h + 1, Height(b))
Cut(k) == [file EXCEPT ![k] = SubSeq(@, 1, Len(@) - 1)]

(* WriteHeaders: headers that extend the tip go to the file, then ... *)
AppendBlocks(b) ==
    /\ Up /\ op = "idle"
    /\ b # tip["block"] /\ On(tip["block"], b)
    /\ file' = [file EXCEPT !["block"] = @ \o Between(b, Height(tip["block"]))]
    /\ batch' = b
    /\ op' = "index"
    /\ UNCHANGED <<exists, db, height, tip, first, mweb, pc, asked, base, floor, regHeight, cfVars, count>>

(* ... to the index, all in one transaction (addHeaders). *)
IndexBlocks ==
    /\ op = "index"
    /\ height' = [b \in Blocks |-> IF On(b, batch) /\ ~On(b, tip["block"]) THEN Height(b)
                                                                          ELSE height[b]]
    /\ tip' = [tip EXCEPT !["block"] = batch]
    /\ op' = "idle"
    /\ UNCHANGED <<exists, file, db, first, mweb, pc, asked, base, floor, regHeight, batch, cfVars, count>>

(* Mutant: a filter tip at the block tip's own height is not rolled back. *)
StartRollbackShort(h) ==
    /\ Up /\ op = "idle"
    /\ h \in base["block"]..(height[tip["block"]] - 1)
    /\ HasTip("filter")
    /\ "race" \in Hazards \/ cf = "idle"
    /\ floor' = h
    /\ regHeight' = height[tip["filter"]] - 1
    /\ op' = "roll"
    /\ UNCHANGED <<disk, pc, asked, base, batch, cfVars, count>>

(* rollBackToHeight, down to a fork the store knows. *)
StartRollback(h) ==
    /\ Up /\ op = "idle"
    /\ h \in base["block"]..(height[tip["block"]] - 1)
    /\ HasTip("filter")
    /\ "race" \in Hazards \/ cf = "idle"
    /\ floor' = h
    /\ regHeight' = height[tip["filter"]]
    /\ op' = "roll"
    /\ UNCHANGED <<disk, pc, asked, base, batch, cfVars, count>>

(* The filter store's RollbackLastBlock, if its tip is that far: the file ... *)
RollFilter ==
    /\ op = "roll" /\ cf # "index"
    /\ floor < height[tip["block"]] /\ height[tip["block"]] <= regHeight
    /\ IF Indexed("filter") /\ height[tip["filter"]] > base["filter"]
         THEN file' = Cut("filter") /\ op' = "cutFilter"
         ELSE file' = file /\ op' = "idle"
    /\ UNCHANGED <<exists, db, height, tip, first, mweb, pc, asked, base, floor, regHeight, batch, cfVars, count>>

(* ... then its tip, which becomes the parent of the block rolled back. *)
FilterTipBack ==
    /\ op = "cutFilter"
    /\ regHeight' = height[tip["filter"]] - 1
    /\ tip' = [tip EXCEPT !["filter"] = Parent(tip["block"])]
    /\ op' = "rollBlock"
    /\ UNCHANGED <<exists, file, db, height, first, mweb, pc, asked, base, floor, batch, cfVars, count>>

(* The block store's RollbackLastBlock: the file ... *)
RollBlock ==
    /\ \/ op = "rollBlock"
       \/ op = "roll" /\ floor < height[tip["block"]] /\ regHeight < height[tip["block"]]
    /\ IF height[tip["block"]] > base["block"]
         THEN file' = Cut("block") /\ op' = "cutBlock"
         ELSE file' = file /\ op' = "idle"
    /\ UNCHANGED <<exists, db, height, tip, first, mweb, pc, asked, base, floor, regHeight, batch, cfVars, count>>

(* Mutant: the entry of the block rolled back stays in the index. *)
BlockTipKept ==
    /\ op = "cutBlock"
    /\ tip' = [tip EXCEPT !["block"] = file["block"][height[@] - base["block"]]]
    /\ op' = "roll"
    /\ UNCHANGED <<exists, file, db, height, first, mweb, pc, asked, base, floor, regHeight, batch, cfVars, count>>

(* ... then the index: the tip's entry goes, its parent is the tip. *)
BlockTipBack ==
    /\ op = "cutBlock"
    /\ height' = [height EXCEPT ![tip["block"]] = 0]
    /\ tip' = [tip EXCEPT !["block"] = file["block"][height[@] - base["block"]]]
    /\ op' = "roll"
    /\ UNCHANGED <<exists, file, db, first, mweb, pc, asked, base, floor, regHeight, batch, cfVars, count>>

RollDone ==
    /\ op = "roll" /\ height[tip["block"]] <= floor
    /\ op' = "idle"
    /\ UNCHANGED <<disk, pc, asked, base, floor, regHeight, batch, cfVars, count>>

BlockHandler ==
    \/ (\E b \in Blocks : AppendBlocks(b)) \/ IndexBlocks
    \/ (\E h \in Heights : StartRollback(h)) \/ RollFilter \/ FilterTipBack
    \/ RollBlock \/ BlockTipBack \/ RollDone
-----------------------------------------------------------------------------
(* cfHandler: writeCFHeadersMsg *)

(* A cfheaders message up to block s continues the stored filter headers,   *)
(* and the block headers it is for are on the store (FetchHeaderAncestors). *)
ReadAncestors(s) ==
    /\ Up /\ cf = "idle" /\ op # "cutFilter"
    /\ "race" \in Hazards \/ op = "idle"
    /\ HasTip("filter")
    /\ LET h == height[tip["filter"]]
       IN  /\ h < Height(s)
           /\ Path[s][h] = file["filter"][h - base["filter"] + 1]
           /\ from' = h
    /\ height[s] > 0 /\ CanRead(file["block"], base["block"], height[s])
    /\ stop' = s
    /\ cf' = "append"
    /\ UNCHANGED <<disk, pc, asked, base, bhVars, count>>

AppendFilters ==
    /\ cf = "append" /\ op # "cutFilter"
    /\ file' = [file EXCEPT !["filter"] = @ \o Between(stop, from)]
    /\ cf' = "index"
    /\ UNCHANGED <<exists, db, height, tip, first, mweb, pc, asked, base, bhVars, from, stop, count>>

(* Only the tip is updated: the block headers' entries are taken as written. *)
FilterTipOn ==
    /\ cf = "index"
    /\ tip' = [tip EXCEPT !["filter"] = stop]
    /\ cf' = "idle"
    /\ UNCHANGED <<exists, file, db, height, first, mweb, pc, asked, base, bhVars, from, stop, count>>

CfHandler == (\E s \in Blocks : ReadAncestors(s)) \/ AppendFilters \/ FilterTipOn
-----------------------------------------------------------------------------
(* The process is killed.  Of the moments between a file and its index only *)
(* those after an append to a store with a tip are ones a start recovers.   *)
Truncating == op \in {"cutFilter", "cutBlock"}
Seeding ==
    \/ pc \in {"rmFilter", "rmDb", "seedBlock", "ixBlock", "seedFilter", "ixFilter",
               "leaves", "leafset", "genBlock", "genFilter"}
    \/ pc \in {"openBlock", "openFilter"} /\ exists # Kinds

Kill ==
    /\ pc \notin {"down", "failed"}
    /\ crashes < MaxCrashes
    /\ Truncating => "truncate" \in Hazards
    /\ Seeding => "seed" \in Hazards
    /\ crashes' = crashes + 1
    /\ hit' = (hit \/ Truncating \/ Seeding)
    /\ pc' = "down" /\ asked' = None
    /\ Idle
    /\ UNCHANGED disk

Down ==
    /\ pc' = "down" /\ asked' = None
    /\ Idle
    /\ UNCHANGED <<disk, count>>

(* A start that failed is tried again. *)
Retry == pc = "failed" /\ Down

Next ==
    \/ \E c \in Checkpoints \cup {None} : Start(c)
    \/ DecideByFiles \/ DecideByState \/ Seed \/ Open
    \/ BlockHandler \/ CfHandler \/ Kill \/ Retry

Spec == Init /\ [][Next]_vars
-----------------------------------------------------------------------------
(* Properties *)

TypeOK ==
    /\ exists \subseteq Kinds /\ file \in [Kinds -> Seq(Blocks)]
    /\ db \in BOOLEAN /\ height \in [Blocks -> Nat]
    /\ tip \in [Kinds -> Blocks \cup {None}] /\ first \in [Kinds -> Nat]
    /\ mweb \subseteq {"leaves", "leafset"}
    /\ pc \in {"down", "failed", "decide", "rmBlock", "rmFilter", "rmDb", "mkDb",
               "seedBlock", "ixBlock", "seedFilter", "ixFilter", "leaves", "leafset",
               "db", "openBlock", "genBlock", "openFilter", "genFilter", "manage", "up"}
    /\ asked \in Blocks \cup {None} /\ base \in [Kinds -> Nat]
    /\ op \in {"idle", "index", "roll", "cutFilter", "rollBlock", "cutBlock"}
    /\ floor \in Nat /\ regHeight \in Int /\ batch \in Blocks
    /\ cf \in {"idle", "append", "index"} /\ from \in Nat /\ stop \in Blocks
    /\ hit \in BOOLEAN /\ crashes \in Nat

(* A start fails (an error, or a panic on a nil hash) only after a kill at  *)
(* one of the moments of Hazards: a kill after an append, between the steps *)
(* of a rollback of several blocks, in the middle of a start that repairs a *)
(* file or anywhere else is recovered from.                                 *)
FailsOnlyIfHit == pc = "failed" => hit

(* Once up, and between the steps of an update, FetchHeader by hash and by  *)
(* height tell the same chain: the file is the chain from its base to the   *)
(* tip and the index has exactly its blocks.  The filter file follows the   *)
(* same chain up to its own tip.  (A kill during seeding can leave entries  *)
(* of an older database.)                                                   *)
Holds(k) ==
    /\ file[k] = SubSeq(Path[tip[k]], base[k], Height(tip[k]))
    /\ height[tip[k]] = Height(tip[k])
StoresAgree ==
    Up /\ ~hit =>
        /\ op \in {"idle", "roll", "rollBlock"} =>
             /\ Holds("block")
             /\ \A b \in Blocks : height[b] =
                    IF On(b, tip["block"]) /\ Height(b) >= base["block"] THEN Height(b) ELSE 0
        /\ op = "idle" /\ cf # "index" => Holds("filter") /\ On(tip["filter"], tip["block"])

(* A daemon asked to start from a checkpoint manages chains that reach it,  *)
(* and chains that begin at one come with its leafset: what MwebSync takes  *)
(* for granted of a sparse store.                                           *)
SeedApplied ==
    pc = "manage" /\ ~hit =>
        /\ asked # None => \A k \in Kinds : height[tip[k]] >= Height(asked)
        /\ first["block"] > Height(Base) => mweb = {"leaves", "leafset"}

(* Said by the comment in NewBlockHeaderStore: the index can never get      *)
(* ahead, since files are always updated before it.                         *)
IndexNotAhead ==
    pc = "openBlock" /\ file["block"] # <<>> /\ Indexed("block") =>
        height[tip["block"]] - BaseOf("block") < Len(file["block"])

(* Said by the comment in FilterHeaderStore.WriteHeaders: the block headers *)
(* of the filter headers written are already in the index.                  *)
FilterTipIndexed == Up /\ cf = "idle" => height[tip["filter"]] > 0
=============================================================================
