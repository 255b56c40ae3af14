----------------------------- MODULE CheckpointTool -----------------------------
(***************************************************************************)
(* The mwebcheckpoint command: main's choice between its modes, each a     *)
(* path through the other modules, and what reaches the output.            *)
(*                                                                         *)
(*   check     a peer's handshake                                          *)
(*   network   everything from one peer                                    *)
(*   explorer  ExplorerScan, LeafsetReplay, then filter headers of a peer  *)
(*   hybrid    headers of a data directory, MWEB data of a peer            *)
(*   export    one line out of a data directory                            *)
(*   watch     CheckpointWatch                                             *)
(*                                                                         *)
(* The command can be killed at any step and started again with the same   *)
(* arguments; the explorer's cache, the data directory and the archive     *)
(* stay.                                                                   *)
(***************************************************************************)
EXTENDS ExplorerScan, CheckpointPeer, CheckpointWatch

CONSTANTS
    Modes,      \* the modes the command is started in
    Wanted      \* the sets of heights asked for ({0}: the tip)

ASSUME ToolAssumption ==
    /\ Modes \subseteq {"check", "network", "explorer", "hybrid", "export", "watch"}
    /\ \A W \in Wanted : W \subseteq ReplayHeights /\ W # {} /\ IsFiniteSet(W)

VARIABLES
    mode,
    args,       \* the heights asked for
    status,     \* off, running, ok or error
    inputs,     \* the headers read from the data directory: height, block, filter
    output      \* the lines written

toolState  == <<mode, args, status, inputs, output>>
replayPart == <<replayState, scanVars>>
vars       == <<replayPart, peerVars, watchVars, toolState>>

ToolTypeOK ==
    /\ ReplayTypeOK /\ ScanTypeOK /\ PeerTypeOK /\ WatchTypeOK
    /\ mode \in Modes /\ args \in Wanted
    /\ status \in {"off", "running", "ok", "error"}
    /\ inputs \in Seq([height : Nat, block : Blocks, filter : Blocks])
    /\ output \in Seq(LinesOf)

UsesSource == mode = "explorer"
UsesPeer   == mode \in {"check", "network", "explorer", "hybrid"}
UsesDir    == mode \in {"hybrid", "export", "watch"}

Init ==
    /\ ReplayInit /\ ScanInit /\ PeerInit /\ WatchInit
    /\ mode \in Modes /\ args \in Wanted /\ status = "off"
    /\ inputs = <<>> /\ output = <<>>
    /\ mode # "explorer" => sourceTip = Base /\ (args = {0} \/ 0 \notin args)
    /\ mode \notin {"network", "hybrid"} => peerTip = Base
    /\ mode \notin {"network", "check"} => lacking = FALSE
    /\ mode \in {"check", "watch"} => args = CHOOSE W \in Wanted : TRUE

-------------------------------------------------------------------------------
Running == status = "running"

(* main, up to the first step of the mode.                                 *)
StartTool ==
    /\ status = "off" /\ status' = "running"
    /\ inputs' = <<>> /\ output' = <<>>
    /\ UNCHANGED <<mode, args>>
    /\ \/ /\ mode = "check" /\ Dial({}, <<>>)
          /\ UNCHANGED <<replayPart, watchVars>>
       \/ /\ mode = "network" /\ Dial(args, <<Step("headers", 0, None)>>)
          /\ UNCHANGED <<replayPart, watchVars>>
       \/ /\ mode = "explorer" /\ BeginScan(args)
          /\ UNCHANGED <<peerVars, watchVars>>
       \/ /\ mode = "watch" /\ StartWatch
          /\ UNCHANGED <<replayPart, peerVars>>
       \/ /\ mode \in {"export", "hybrid"} /\ wpc = "off"
          /\ wpc' = "waiting" /\ once' = TRUE
          /\ UNCHANGED <<replayPart, peerVars, dirVars, line, lastHeight, archive, mishaps>>

(* generateExplorerPeerCheckpoints: from the snapshots to the peer.        *)
DialForFilters ==
    /\ mode = "explorer" /\ Running /\ phase = "done" /\ ppc = "off"
    /\ Dial({}, [i \in 1..Len(snapshots) |->
                    Step("filter", snapshots[i].height, snapshots[i].block)])
    /\ UNCHANGED <<replayPart, watchVars, toolState>>

ExplorerLines ==
    [i \in 1..Len(snapshots) |->
        LET s == snapshots[i] IN Line(s.height, s.block, filters[s.height], s.bits, s.size)]

(* readLocalCheckpointInputs, and with them to the peer.                   *)
LocalInputs ==
    LET order == IF args = {0} THEN <<Height(header)>> ELSE Ascending(args)
    IN  [i \in 1..Len(order) |-> [height |-> order[i], block |-> Path[header][order[i]],
                                  filter |-> Path[filter][order[i]]]]

ReadInputs ==
    /\ mode = "hybrid" /\ Running /\ wpc = "reading"
    /\ \/ /\ \A h \in args : InStores(h) /\ (h = 0 => InStores(Height(header)))
          /\ inputs' = LocalInputs
          /\ wpc' = "exported"
          /\ Dial({}, FlattenSeq([i \in 1..Len(inputs') |->
                                     MwebSteps(inputs'[i].height, inputs'[i].block)]))
       \/ /\ ~\A h \in args : InStores(h) /\ (h = 0 => InStores(Height(header)))
          /\ wpc' = "failed"
          /\ UNCHANGED <<inputs, peerVars>>
    /\ UNCHANGED <<replayPart, dirVars, once, line, lastHeight, archive, mishaps,
                   mode, args, status, output>>

HybridLines ==
    [i \in 1..Len(inputs) |->
        LET n == inputs[i]
            b == mweb[n.height]
        IN  Line(n.height, n.block, n.filter, Unspent[b], SizeOf(b))]

(* The lines are written when all of them are there.                       *)
Lines ==
    CASE mode = "network"  -> NetworkLines
      [] mode = "explorer" -> ExplorerLines
      [] mode = "hybrid"   -> HybridLines
      [] mode = "export"   -> <<line>>
      [] mode = "check"    -> <<>>

Succeeded == \/ UsesPeer /\ ppc = "done"
             \/ mode = "export" /\ wpc = "exported"
Broken    == ppc = "failed" \/ wpc = "failed" \/ spc = "failed" \/ phase = "failed"

WriteOutput ==
    /\ Running /\ Succeeded
    /\ output' = Lines /\ status' = "ok"
    /\ UNCHANGED <<replayPart, peerVars, watchVars, mode, args, inputs>>

ExitWithError ==
    /\ Running /\ Broken
    /\ status' = "error"
    /\ UNCHANGED <<replayPart, peerVars, watchVars, mode, args, inputs, output>>

(* The process is over; what it leaves is on disk.                         *)
EndTool ==
    /\ EndReplay /\ spc' = "off" /\ ScanIdle /\ UNCHANGED lists
    /\ ppc' = "off" /\ PeerIdle /\ UNCHANGED remoteVars
    /\ EndWatch
    /\ status' = "off" /\ inputs' = <<>> /\ output' = <<>>
    /\ UNCHANGED <<mode, args>>

KillTool ==
    /\ mode \in {"explorer", "watch"} /\ Running /\ kills < MaxKills
    /\ kills' = kills + 1
    /\ EndTool

StartAgain ==
    /\ mode \in {"explorer", "watch"} /\ status \in {"ok", "error"} /\ kills < MaxKills
    /\ kills' = kills + 1
    /\ EndTool

(* Nothing more to come. *)
Over == status \in {"ok", "error"} /\ UNCHANGED vars

PollLocal == mode \in {"export", "hybrid"} /\ Poll
WatchNext == mode = "watch" /\ WatchStep
ExportNext == mode = "export" /\ \E h \in args : ExportCheckpoint(h)

Next ==
    \/ StartTool \/ DialForFilters \/ ReadInputs \/ WriteOutput \/ ExitWithError
    \/ KillTool \/ StartAgain \/ Over
    \/ /\ UsesSource /\ Running /\ UNCHANGED <<peerVars, watchVars, toolState>>
       /\ \/ ScanStep
          \/ ReplayNext /\ UNCHANGED scanVars
          \/ \E b \in Blocks : MoveSource(b) /\ UNCHANGED scanVars
    \/ /\ UsesPeer /\ Running /\ UNCHANGED <<replayPart, watchVars, toolState>>
       /\ \/ ClientSteps \/ PeerAnswers
          \/ mode \in {"network", "hybrid"} /\ PeerMoves
    \/ /\ UsesDir /\ UNCHANGED <<replayPart, peerVars, toolState>>
       /\ \/ wpc = "waiting" /\ DaemonStep /\ (mode = "hybrid" => UNCHANGED <<leafset, leavesAt>>)
          \/ Running /\ (PollLocal \/ ExportNext \/ WatchNext)

Spec == Init /\ [][Next]_vars

(* Safety: whatever mode made it and whatever failed on the way, every     *)
(* line written is the checkpoint of one block, at that block's height,    *)
(* with its filter header and its leafset.  The parts come from up to      *)
(* three sources, at different times, while their chains move.             *)
LinesTrue == \A i \in 1..Len(output) : TrueLine(output[i])
===============================================================================
