---------------------------- MODULE CheckpointWatch ----------------------------
(***************************************************************************)
(* The tool beside a wallet's data directory: exportCheckpoint makes a     *)
(* line out of what a daemon has stored, readLocalCheckpointInputs reads   *)
(* the headers of given heights, and the watch mode appends a new line to  *)
(* an archive whenever the stored leafset is MinStep above the last.       *)
(*                                                                         *)
(* Daemon and tool exclude each other by the lock on neutrino.db, so the   *)
(* tool finds the directory as some daemon left it: stopped or killed      *)
(* between any two of its transactions.  Those that matter here are        *)
(* repeated in brief from MwebSync and HeaderStore; the filter store       *)
(* follows the block store, as HeaderStore's StoresAgree has it.           *)
(***************************************************************************)
EXTENDS CheckpointLine, FiniteSets

CONSTANTS
    MinStep,        \* -watch-min-step
    Word,           \* 2^32
    MaxMishaps      \* bound: failed writes and syncs of the archive

ASSUME WatchAssumption ==
    /\ MinStep \in Nat \ {0} /\ Word \in Nat /\ MinStep < Word
    /\ \A h \in Heights : h < Word
    /\ MaxMishaps \in Nat

VARIABLES
    header,     \* the tip of the block header store
    filter,     \* the tip of the filter header store
    leafset,    \* the block the stored leafset is of, or None
    leavesAt,   \* height |-> number of leaves, 0 for no row
    wpc,        \* off, waiting, reading, appending, syncing, exported or failed
    once,       \* one export, not a watch
    line,       \* the line exported
    lastHeight, \* of the archive
    archive,    \* the output file
    mishaps

dirVars   == <<header, filter, leafset, leavesAt>>
watchVars == <<dirVars, wpc, once, line, lastHeight, archive, mishaps>>

Never == [h \in Heights |-> 0]
LinesOf == [height : Nat, block : Blocks \cup {None}, filter : Blocks \cup {None},
            bits : SUBSET Leaves, size : Nat]

WatchTypeOK ==
    /\ header \in Blocks /\ filter \in Blocks /\ On(filter, header)
    /\ leafset \in Blocks \cup {None}
    /\ leavesAt \in [Heights -> Nat]
    /\ wpc \in {"off", "waiting", "reading", "appending", "syncing", "exported", "failed"}
    /\ once \in BOOLEAN /\ line \in LinesOf /\ lastHeight \in Nat
    /\ archive \in Seq([state : {"whole", "open", "torn", "bad"}, line : LinesOf])
    /\ mishaps \in 0..MaxMishaps

WatchInit ==
    /\ header = Base /\ filter = Base
    /\ leafset = None /\ leavesAt = Never
    /\ wpc = "off" /\ once = FALSE /\ line = NoLine /\ lastHeight = 0
    /\ archive = <<>> /\ mishaps = 0

-------------------------------------------------------------------------------
(* A daemon on the directory.                                              *)

toolVars == <<wpc, once, line, lastHeight, archive, mishaps>>

ConnectHeader ==
    /\ \E b \in Blocks : Parent(b) = header /\ header' = b
    /\ UNCHANGED <<filter, leafset, leavesAt, toolVars>>

(* One block of rollBackToHeight. *)
DisconnectHeader ==
    /\ Height(header) > 1
    /\ header' = Parent(header)
    /\ filter' = IF filter = header THEN Parent(header) ELSE filter
    /\ UNCHANGED <<leafset, leavesAt, toolVars>>

ConnectFilter ==
    /\ filter # header
    /\ filter' = Path[header][Height(filter) + 1]
    /\ UNCHANGED <<header, leafset, leavesAt, toolVars>>

(* An MWEB round for the tip: the rows of its path, then its leafset.  The *)
(* two transactions commute with those of the header stores; the daemon    *)
(* may stop after the first.                                               *)
PutLeaves ==
    leavesAt' = [h \in Heights |-> IF h <= Height(header) THEN SizeOf(Path[header][h])
                                   ELSE leavesAt[h]]

Round    == PutLeaves /\ leafset' = header /\ UNCHANGED <<header, filter, toolVars>>
CutRound == PutLeaves /\ UNCHANGED <<header, filter, leafset, toolVars>>

(* RollbackLeavesAtHeight, before the next round after a reorg.            *)
RollbackLeaves ==
    /\ leavesAt' = [h \in Heights |-> IF h <= Height(header) THEN leavesAt[h] ELSE 0]
    /\ UNCHANGED <<header, filter, leafset, toolVars>>

(* What it did is seen only once the tool has the lock: these steps come   *)
(* while it waits for it.                                                  *)
DaemonStep ==
    \/ ConnectHeader \/ DisconnectHeader
    \/ ConnectFilter \/ Round \/ CutRound \/ RollbackLeaves

-------------------------------------------------------------------------------
(* Reading it.                                                             *)

InStores(h) == h <= Height(header) /\ h <= Height(filter)

ExportLine ==
    LET h == Height(leafset)
    IN  Line(h, Path[header][h], Path[filter][h], Unspent[leafset], SizeOf(leafset))

(* Mutant: the leafset's own block is not compared with the store.         *)
ExportableBySize ==
    /\ leafset # None
    /\ leavesAt[Height(leafset)] = SizeOf(leafset)
    /\ InStores(Height(leafset))

Exportable ==
    /\ leafset # None
    /\ leavesAt[Height(leafset)] = SizeOf(leafset)
    /\ InStores(Height(leafset))
    /\ Path[header][Height(leafset)] = leafset

-------------------------------------------------------------------------------
(* Watching.                                                               *)

(* Mutant: the archive's last height is not read.                          *)
StartUnread ==
    /\ wpc = "off" /\ ~once
    /\ wpc' = "waiting" /\ lastHeight' = 0
    /\ UNCHANGED <<dirVars, once, line, archive, mishaps>>

(* watchLocalCheckpoints will not start on an archive it cannot parse.     *)
StartWatch ==
    /\ wpc = "off" /\ ~once
    /\ \/ /\ \E i \in 1..Len(archive) : ~Parses(archive[i])
          /\ wpc' = "failed" /\ UNCHANGED lastHeight
       \/ /\ \A i \in 1..Len(archive) : Parses(archive[i])
          /\ wpc' = "waiting"
          /\ lastHeight' = LET hs == {0} \cup {archive[i].line.height : i \in 1..Len(archive)}
                           IN  CHOOSE h \in hs : \A k \in hs : k <= h
    /\ UNCHANGED <<dirVars, once, line, archive, mishaps>>

(* walletdb.Open waits a minute for the lock.                              *)
Poll ==
    /\ wpc = "waiting"
    /\ wpc' = "reading"
    /\ UNCHANGED <<dirVars, once, line, lastHeight, archive, mishaps>>

(* A poll that finds the lock taken, or nothing to export, is only logged. *)
TooSoon(h) == lastHeight # 0 /\ h < (lastHeight + MinStep) % Word

ExportCheckpoint(wantedHeight) ==
    LET asked == Exportable /\ wantedHeight \in {0, Height(leafset)}
        kept == ~once /\ ~TooSoon(Height(leafset))
    IN  /\ wpc = "reading"
        /\ \/ ~asked /\ wpc' = (IF once THEN "failed" ELSE "waiting") /\ UNCHANGED line
           \/ asked /\ once /\ wpc' = "exported" /\ line' = ExportLine
           \/ asked /\ kept /\ wpc' = "appending" /\ line' = ExportLine
           \/ asked /\ ~once /\ ~kept /\ wpc' = "waiting" /\ UNCHANGED line
        /\ UNCHANGED <<dirVars, once, lastHeight, archive, mishaps>>

AppendLine ==
    /\ wpc = "appending"
    /\ archive' = Appended(archive, Entry("whole", line))
    /\ wpc' = "syncing"
    /\ UNCHANGED <<dirVars, once, line, lastHeight, mishaps>>

(* WriteString fails half way; the next poll tries again.                  *)
CutShort == \E cut \in {"torn", "open"} : archive' = Appended(archive, Entry(cut, line))

AppendFails ==
    /\ wpc = "appending" /\ mishaps < MaxMishaps
    /\ mishaps' = mishaps + 1
    /\ archive' = archive \/ CutShort
    /\ wpc' = "waiting" /\ line' = NoLine
    /\ UNCHANGED <<dirVars, once, lastHeight>>

Synced ==
    /\ wpc = "syncing"
    /\ wpc' = "waiting" /\ lastHeight' = line.height /\ line' = NoLine
    /\ UNCHANGED <<dirVars, once, archive, mishaps>>

SyncFails ==
    /\ wpc = "syncing" /\ mishaps < MaxMishaps
    /\ mishaps' = mishaps + 1
    /\ wpc' = "waiting" /\ line' = NoLine
    /\ UNCHANGED <<dirVars, once, lastHeight, archive>>

(* The process is killed; any part of a line being written may be in the   *)
(* file.                                                                   *)
EndWatch ==
    /\ \/ UNCHANGED archive
       \/ wpc = "appending" /\ CutShort
    /\ wpc' = "off" /\ line' = NoLine /\ lastHeight' = 0
    /\ UNCHANGED <<dirVars, once, mishaps>>

WatchStep ==
    \/ StartWatch \/ Poll \/ ExportCheckpoint(0) \/ AppendLine \/ AppendFails
    \/ Synced \/ SyncFails

(* Safety: as long as no write failed, the lines of the archive are at     *)
(* least MinStep apart, through kills and restarts of the watcher, reorgs  *)
(* below the last line, and restarts of the daemon on an older leafset.    *)
ArchiveSpaced ==
    mishaps = 0 =>
        \A i, j \in 1..Len(archive) :
            i < j /\ Parses(archive[i]) /\ Parses(archive[j])
            => archive[j].line.height >= archive[i].line.height + MinStep

(* Safety: each line of the archive is a checkpoint of one block.          *)
ArchiveTrue ==
    \A i \in 1..Len(archive) : Parses(archive[i]) => TrueLine(archive[i].line)
===============================================================================
