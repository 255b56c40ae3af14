----------------------------- MODULE ExplorerScan -----------------------------
(***************************************************************************)
(* The heights an explorer checkpoint is made at, and the list of blocks   *)
(* with MWEB events below them (mwebExplorerClient.nonEmptyHeights): from  *)
(* a list file in the cache, or page by page from the explorer's table of  *)
(* blocks, newest first, while that table moves.                           *)
(*                                                                         *)
(* The explorer and the replay source follow the same chain, sourceTip.    *)
(* The explorer's table lists the MWEB blocks, from the activation on.     *)
(* A page starts at an offset from the newest block, so that a new block   *)
(* shifts every entry under the scan, and a shorter branch shifts it back. *)
(***************************************************************************)
EXTENDS LeafsetReplay

CONSTANTS
    Unlisted,           \* blocks whose summary shows no events, though they have some
    PageSize,           \* explorerPageSize (1000)
    ActivationHeight,   \* chain height of the MWEB activation, height 1 here
    Interval,           \* -checkpoint-interval
    SafeDepth           \* -safe-depth

ASSUME ScanAssumption ==
    /\ Unlisted \subseteq Blocks
    /\ PageSize \in Nat \ {0} /\ Interval \in Nat \ {0}
    /\ ActivationHeight \in Nat \ {0} /\ SafeDepth \in Nat

VARIABLES
    spc,        \* where the scan is
    wanted,     \* the heights asked for; {0} is -heights tip
    targets,    \* the heights it came to
    search,     \* firstOffsetAtOrBelow's low, high, result and RecordsFiltered
    offset,     \* the offset of the next page
    found,      \* the heights listed so far
    stries,     \* tries of the request under way
    lists       \* highest height |-> the list file for it, or None

scanVars  == <<spc, wanted, targets, search, offset, found, stries, lists>>

ScanPCs == {"off", "resolving", "cached", "locating", "searching", "paging",
            "writing", "created", "listed", "replaying", "failed"}
NoSearch == [low |-> 0, high |-> 0, result |-> 0, records |-> 0]

ScanTypeOK ==
    /\ spc \in ScanPCs
    /\ wanted \subseteq ReplayHeights /\ targets \subseteq ReplayHeights
    /\ search \in [low : Nat, high : {-1} \cup Nat, result : Nat, records : Nat]
    /\ offset \in Nat /\ found \subseteq Heights
    /\ stries \in 1..Attempts
    /\ lists \in [ReplayHeights -> {None} \cup SUBSET Heights]

ScanIdle ==
    /\ wanted' = {} /\ targets' = {} /\ search' = NoSearch /\ offset' = 0
    /\ found' = {} /\ stries' = 1

ScanInit ==
    /\ spc = "off" /\ wanted = {} /\ targets = {} /\ search = NoSearch
    /\ offset = 0 /\ found = {} /\ stries = 1
    /\ lists = [h \in ReplayHeights |-> None]

-------------------------------------------------------------------------------
(* The explorer.                                                           *)

Latest == Height(sourceTip)     \* RecordsFiltered, and the newest height
Page(o, n) == {h \in 1..Latest : Latest - h \in o..(o + n - 1)}
HasMwebEvents(h) ==
    LET b == Path[sourceTip][h] IN HasLeafsetEvents(b) /\ b \notin Unlisted

Highest(S) == CHOOSE h \in S : \A k \in S : k <= h
MaxTarget == Highest(targets)

-------------------------------------------------------------------------------
Unscanned == <<sourceVars, kills, cache, argVars, channelVars, replayVars, clientVars>>
Answers == stries' = 1 /\ UNCHANGED Unscanned

BeginScan(W) ==
    /\ spc = "off" /\ W # {}
    /\ spc' = "resolving" /\ wanted' = W
    /\ UNCHANGED <<targets, search, offset, found, stries, lists, Unscanned>>

(* The interval is counted from height 0 of the chain: the multiple may    *)
(* lie below the activation, which nothing looks at again.                 *)
SafeHeight(latest) ==
    LET safe == ActivationHeight + latest - 1 - SafeDepth
        rounded == safe - (safe % Interval)
    IN  IF rounded < ActivationHeight THEN 0 ELSE rounded - ActivationHeight + 1

ResolveTip ==
    /\ spc = "resolving" /\ wanted = {0}
    /\ \/ Latest - SafeDepth < 1 /\ spc' = "failed" /\ UNCHANGED targets
       \/ /\ Latest - SafeDepth >= 1
          /\ targets' = {SafeHeight(Latest)}
          /\ spc' = "cached"
    /\ Answers
    /\ UNCHANGED <<wanted, search, offset, found, lists>>

ResolveHeights ==
    /\ spc = "resolving" /\ wanted # {0}
    /\ \/ 0 \in wanted /\ spc' = "failed" /\ UNCHANGED targets
       \/ 0 \notin wanted /\ targets' = wanted /\ spc' = "cached"
    /\ UNCHANGED <<wanted, search, offset, found, stries, lists, Unscanned>>

(* readCachedNonEmptyHeights: the file for exactly these heights, else any *)
(* that spans them.  A list cut short reads as a shorter one.              *)
ReadList ==
    /\ spc = "cached"
    /\ LET files == {m \in ReplayHeights : m >= MaxTarget /\ lists[m] # None}
           chosen == IF MaxTarget \in files THEN {MaxTarget} ELSE files
       IN  \/ \E m \in chosen : /\ found' = {h \in lists[m] : h <= MaxTarget}
                                /\ spc' = "listed"
           \/ /\ chosen = {} /\ spc' = "locating"
              /\ UNCHANGED found
    /\ UNCHANGED <<wanted, targets, search, offset, stries, lists, Unscanned>>

(* firstOffsetAtOrBelow: a binary search in the table as it is at each     *)
(* probe, between bounds taken from the first.                             *)
Locate ==
    /\ spc = "locating"
    /\ search' = [low |-> 0, high |-> Latest - 1, result |-> Latest, records |-> Latest]
    /\ spc' = IF Latest <= MaxTarget THEN "paging" ELSE "searching"
    /\ Answers
    /\ UNCHANGED <<wanted, targets, offset, found, lists>>

Probe ==
    /\ spc = "searching" /\ search.low <= search.high
    /\ LET mid == (search.low + search.high) \div 2
           h == Latest - mid
       IN  \/ h < 1 /\ search' = [search EXCEPT !.low = search.high + 1]
           \/ h > MaxTarget /\ search' = [search EXCEPT !.low = mid + 1]
           \/ /\ h \in 1..MaxTarget
              /\ search' = [search EXCEPT !.result = mid, !.high = mid - 1]
    /\ Answers
    /\ UNCHANGED <<spc, wanted, targets, offset, found, lists>>

LocatedIf(over) ==
    /\ spc = "searching" /\ over
    /\ offset' = search.result /\ spc' = "paging"
    /\ search' = [NoSearch EXCEPT !.records = search.records]
    /\ UNCHANGED <<wanted, targets, found, stries, lists, Unscanned>>

(* Mutant: the last probe may be left out.                                 *)
LocatedEarly == LocatedIf(search.low >= search.high)

Located == LocatedIf(search.low > search.high)

(* One page; the last is known by the count that came with it.             *)
ScanPage ==
    /\ spc = "paging"
    /\ LET page == Page(offset, PageSize)
       IN  /\ found' = found \cup {h \in page : h <= MaxTarget /\ HasMwebEvents(h)}
           /\ \/ /\ page = {} \/ offset + Cardinality(page) >= Latest
                 /\ spc' = "writing"
                 /\ UNCHANGED offset
              \/ /\ page # {} /\ offset + Cardinality(page) < Latest
                 /\ offset' = offset + PageSize
                 /\ UNCHANGED spc
    /\ Answers
    /\ UNCHANGED <<wanted, targets, search, lists>>

(* os.WriteFile empties the file first; until it returns, the file holds a *)
(* beginning of the list.                                                  *)
CreateList ==
    /\ spc = "writing"
    /\ \E h \in {0} \cup found : lists' = [lists EXCEPT ![MaxTarget] = found \cap (1..h)]
    /\ spc' = "created"
    /\ UNCHANGED <<wanted, targets, search, offset, found, stries, Unscanned>>

WriteList ==
    /\ spc = "created"
    /\ \/ /\ lists' = [lists EXCEPT ![MaxTarget] = found]
          /\ spc' = "listed"
          /\ UNCHANGED faults
       \/ /\ faults < MaxFaults           \* the write fails half way
          /\ faults' = faults + 1
          /\ spc' = "failed"
          /\ UNCHANGED lists
    /\ UNCHANGED <<wanted, targets, search, offset, found, stries, sourceTip, kills,
                   cache, argVars, channelVars, replayVars, clientVars>>

(* A try without a useful answer; the last one ends the scan.  So does, at *)
(* once, a page whose blocks are out of order.                             *)
ScanUnanswered ==
    /\ \/ spc = "resolving" /\ wanted = {0}
       \/ spc \in {"locating", "searching", "paging"}
    /\ \/ stries < Attempts /\ stries' = stries + 1 /\ UNCHANGED <<spc, faults>>
       \/ /\ stries = Attempts \/ spc = "paging"
          /\ faults < MaxFaults
          /\ spc' = "failed" /\ faults' = faults + 1
          /\ UNCHANGED stries
    /\ UNCHANGED <<wanted, targets, search, offset, found, lists, sourceTip, kills,
                   cache, argVars, channelVars, replayVars, clientVars>>

BeginReplay ==
    /\ spc = "listed"
    /\ Begin(targets, found)
    /\ spc' = "replaying"
    /\ UNCHANGED <<wanted, targets, search, offset, found, stries, lists>>

ScanStep ==
    \/ ResolveTip \/ ResolveHeights \/ ReadList \/ Locate \/ Probe \/ Located
    \/ ScanPage \/ CreateList \/ WriteList \/ ScanUnanswered \/ BeginReplay

(* Safety: a scan that was not cut off by a reorg lists every block up to  *)
(* the highest target (and up to the newest block when it began) whose     *)
(* summary shows events, whatever the table grew by between the pages and  *)
(* between the probes of the binary search.                                *)
ScanComplete ==
    spc \in {"writing", "created"} /\ faults = 0 =>
        \A h \in 1..MaxTarget :
            h <= search.records /\ HasMwebEvents(h) => h \in found
===============================================================================
