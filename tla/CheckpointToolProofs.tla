-------------------------- MODULE CheckpointToolProofs -------------------------
(***************************************************************************)
(* Theorems about the mwebcheckpoint command, with its scan and its        *)
(* archive; those about its replay are taken from LeafsetReplayProofs.     *)
(* The first three parts say what one step does, the last what the command *)
(* does, whatever its other parts do in between:                           *)
(*                                                                         *)
(*   - a scan no reorg has cut off finds every block the summaries show,   *)
(*     whatever the table grows by between the probes of the binary search *)
(*     and between the pages;                                              *)
(*   - every line of the archive of -watch that parses is a checkpoint of  *)
(*     one block, and as long as no write failed the lines are MinStep     *)
(*     apart;                                                              *)
(*   - what was asked of the peer for a block is still to be fetched, or   *)
(*     has come for that very block, so that every line written is the     *)
(*     checkpoint of one block.                                            *)
(***************************************************************************)
EXTENDS CheckpointTool, LeafsetReplayProofs

-------------------------------------------------------------------------------
(* The explorer's list *)

SearchType == [low : Nat, high : {-1} \cup Nat, result : Nat, records : Nat]
Scanning == {"cached", "locating", "searching", "paging", "writing", "created"}

ScanSets ==
    /\ wanted \subseteq ReplayHeights /\ IsFiniteSet(wanted)
    /\ targets \subseteq ReplayHeights /\ IsFiniteSet(targets)
    /\ found \subseteq Heights
    /\ lists \in [ReplayHeights -> {None} \cup SUBSET Heights]
    /\ search \in SearchType /\ offset \in Nat
    /\ spc = "resolving" => wanted # {}
    /\ spc \in Scanning => targets # {}
    /\ spc \in {"off", "resolving", "cached", "locating", "searching"} => offset = 0

(* What lies before the lower bound is above the highest target, and stays *)
(* there when the table grows.                                             *)
Searched ==
    faults = 0 /\ spc = "searching" =>
        /\ search.high = search.result - 1 /\ search.low <= search.result
        /\ search.result <= Latest /\ search.records <= Latest
        /\ \A o \in Nat : o < search.low => Latest - o > MaxTarget

(* Every listed block before the next page's offset has been seen.         *)
Paged ==
    faults = 0 /\ spc = "paging" =>
        /\ search.records <= Latest
        /\ \A h \in 1..MaxTarget :
             h <= search.records /\ HasMwebEvents(h) /\ Latest - h < offset => h \in found

Scanned ==
    faults = 0 /\ spc \in {"writing", "created"} =>
        /\ search.records <= Latest
        /\ \A h \in 1..MaxTarget : h <= search.records /\ HasMwebEvents(h) => h \in found

ScanFacts == ScanSets /\ Searched /\ Paged /\ Scanned
-------------------------------------------------------------------------------
LEMMA HighestType ==
    ASSUME NEW S \in SUBSET Nat, S # {}, IsFiniteSet(S)
    PROVE  Highest(S) \in S /\ \A k \in S : k <= Highest(S)
BY HighestExists DEF Highest

LEMMA MaxTargetType == ASSUME ScanSets, spc \in Scanning PROVE MaxTarget \in targets /\ MaxTarget \in Nat
BY HeightsType, HighestType DEF ScanSets, MaxTarget

LEMMA LatestType ==
    ASSUME ReplayTypeOK
    PROVE  /\ Latest \in Nat /\ Latest >= 1 /\ 1..Latest \subseteq Heights
           /\ Latest \in ReplayHeights
BY HeightType DEF ReplayTypeOK, Latest, Heights, ReplayHeights

LEMMA Remainder == ASSUME NEW a \in Nat, NEW b \in Nat \ {0} PROVE a % b \in 0..(b - 1)
OBVIOUS

LEMMA SafeHeightType ==
    ASSUME NEW n \in Nat, n - SafeDepth >= 1
    PROVE  SafeHeight(n) \in 0..n
<1> DEFINE safe == ActivationHeight + n - 1 - SafeDepth
           rounded == safe - (safe % Interval)
<1>1. safe \in Nat /\ ActivationHeight \in Nat /\ SafeDepth \in Nat /\ Interval \in Nat \ {0}
  BY ScanAssumption
<1>2. safe % Interval \in Nat
  BY <1>1, Remainder
<1>3. rounded \in Int /\ rounded <= safe
  BY <1>1, <1>2
<1>4. SafeHeight(n) = IF rounded < ActivationHeight THEN 0 ELSE rounded - ActivationHeight + 1
  BY DEF SafeHeight
<1> QED
  BY <1>1, <1>3, <1>4
-------------------------------------------------------------------------------
(* The sets of heights keep their types. *)

LEMMA SearchParts ==
    ASSUME ScanSets
    PROVE  /\ search.low \in Nat /\ search.high \in {-1} \cup Nat
           /\ search.result \in Nat /\ search.records \in Nat
BY DEF ScanSets, SearchType

LEMMA ScanSetsStep ==
    ASSUME ReplayTypeOK, ScanSets, ScanStep
    PROVE  ScanSets'
<1> USE DEF ScanSets, Scanning
<1>1. CASE ResolveTip
  <2>1. CASE Latest - SafeDepth < 1 /\ spc' = "failed" /\ UNCHANGED targets
    BY <1>1, <2>1 DEF ResolveTip
  <2>2. CASE Latest - SafeDepth >= 1 /\ targets' = {SafeHeight(Latest)} /\ spc' = "cached"
    <3>1. SafeHeight(Latest) \in ReplayHeights
      BY <2>2, LatestType, SafeHeightType DEF ReplayHeights
    <3>2. targets' \subseteq ReplayHeights /\ targets' # {} /\ IsFiniteSet(targets')
      BY <2>2, <3>1, FS_Singleton
    <3> QED
      BY <1>1, <2>2, <3>2 DEF ResolveTip
  <2> QED
    BY <1>1, <2>1, <2>2 DEF ResolveTip
<1>2. CASE ResolveHeights
  BY <1>2 DEF ResolveHeights
<1>3. CASE ReadList
  BY <1>3, BaseType DEF ReadList
<1>4. CASE Locate
  <2>1. search' \in SearchType
    BY <1>4, LatestType DEF Locate, SearchType
  <2> QED
    BY <1>4, <2>1 DEF Locate
<1>5. CASE Probe
  <2>1. PICK low \in Nat, high \in Nat, mid \in Nat :
          /\ low = search.low /\ high = search.high /\ mid = (low + high) \div 2
    BY <1>5, SearchParts DEF Probe
  <2>2. \/ search' = [search EXCEPT !.low = high + 1]
        \/ search' = [search EXCEPT !.low = mid + 1]
        \/ search' = [search EXCEPT !.result = mid, !.high = mid - 1]
    BY <1>5, <2>1 DEF Probe
  <2>3. mid - 1 \in {-1} \cup Nat /\ search \in SearchType
    BY <2>1
  <2>4. \A n \in Nat : [search EXCEPT !.low = n] \in SearchType
    BY <2>3 DEF SearchType
  <2>5. \A n \in Nat, m \in {-1} \cup Nat : [search EXCEPT !.result = n, !.high = m] \in SearchType
    BY <2>3 DEF SearchType
  <2>6. search' \in SearchType
    <3>1. high + 1 \in Nat /\ mid + 1 \in Nat
      OBVIOUS
    <3>2. CASE search' = [search EXCEPT !.low = high + 1]
      BY <3>1, <3>2, <2>4
    <3>3. CASE search' = [search EXCEPT !.low = mid + 1]
      BY <3>1, <3>3, <2>4
    <3>4. CASE search' = [search EXCEPT !.result = mid, !.high = mid - 1]
      BY <3>4, <2>3, <2>5
    <3> QED
      BY <2>2, <3>2, <3>3, <3>4
  <2> QED
    BY <1>5, <2>6 DEF Probe
<1>6. CASE Located
  <2>1. search' \in SearchType /\ offset' \in Nat
    BY <1>6 DEF Located, LocatedIf, SearchType, NoSearch
  <2> QED
    BY <1>6, <2>1 DEF Located, LocatedIf
<1>7. CASE ScanPage
  <2>1. found' \subseteq Heights
    BY <1>7, LatestType DEF ScanPage, Page
  <2>2. offset' \in Nat
    BY <1>7, ScanAssumption DEF ScanPage
  <2> QED
    BY <1>7, <2>1, <2>2 DEF ScanPage
<1>8. CASE CreateList
  <2>1. lists' \in [ReplayHeights -> {None} \cup SUBSET Heights]
    <3>1. PICK h \in {0} \cup found : lists' = [lists EXCEPT ![MaxTarget] = found \cap (1..h)]
      BY <1>8 DEF CreateList
    <3> QED
      BY <3>1
  <2> QED
    BY <1>8, <2>1 DEF CreateList
<1>9. CASE WriteList
  <2>1. lists' \in [ReplayHeights -> {None} \cup SUBSET Heights]
    BY <1>9 DEF WriteList
  <2> QED
    BY <1>9, <2>1 DEF WriteList
<1>10. CASE ScanUnanswered
  BY <1>10 DEF ScanUnanswered
<1>11. CASE BeginReplay
  BY <1>11 DEF BeginReplay
<1> QED
  BY <1>1, <1>2, <1>3, <1>4, <1>5, <1>6, <1>7, <1>8, <1>9, <1>10, <1>11 DEF ScanStep
-------------------------------------------------------------------------------
(* The search and the pages. *)

LEMMA ProbeStep ==
    ASSUME ReplayTypeOK, ScanFacts, Probe
    PROVE  Searched'
<1> SUFFICES ASSUME faults = 0 PROVE Searched'
  BY DEF Probe, Unscanned, sourceVars, Searched, Answers
<1>1. /\ MaxTarget \in Nat /\ Latest \in Nat /\ spc = "searching"
      /\ search.low <= search.high /\ search \in SearchType
  BY MaxTargetType, LatestType DEF ScanFacts, ScanSets, Probe, Scanning
<1>2. UNCHANGED <<Latest, MaxTarget, spc, faults>>
  BY DEF Probe, Answers, Unscanned, sourceVars, Latest, MaxTarget
<1>3. PICK low \in Nat, high \in Nat, result \in Nat, mid \in Nat :
        /\ low = search.low /\ high = search.high /\ result = search.result
        /\ mid = (low + high) \div 2
  BY <1>1, SearchParts DEF ScanFacts
<1>4. /\ high = result - 1 /\ low <= result /\ result <= Latest /\ search.records <= Latest
      /\ \A o \in Nat : o < low => Latest - o > MaxTarget
  BY <1>1, <1>3 DEF ScanFacts, Searched
<1>5. low <= mid /\ mid <= high /\ Latest - mid >= 1
  BY <1>1, <1>3, <1>4
<1>6. CASE Latest - mid > MaxTarget /\ search' = [search EXCEPT !.low = mid + 1]
  <2>1. /\ search'.low = mid + 1 /\ search'.high = high /\ search'.result = result
        /\ search'.records = search.records
    BY <1>1, <1>3, <1>6 DEF SearchType
  <2>2. \A o \in Nat : o < mid + 1 => Latest - o > MaxTarget
    BY <1>1, <1>5, <1>6
  <2>3. mid + 1 <= result
    BY <1>4, <1>5
  <2> QED
    BY <1>2, <1>4, <2>1, <2>2, <2>3 DEF Searched
<1>7. CASE search' = [search EXCEPT !.result = mid, !.high = mid - 1]
  <2>1. /\ search'.low = low /\ search'.high = mid - 1 /\ search'.result = mid
        /\ search'.records = search.records
    BY <1>1, <1>3, <1>7 DEF SearchType
  <2>2. low <= mid /\ mid <= Latest
    BY <1>1, <1>5
  <2> QED
    BY <1>2, <1>4, <2>1, <2>2 DEF Searched
<1> QED
  BY <1>1, <1>3, <1>5, <1>6, <1>7 DEF Probe

LEMMA LocatedStep ==
    ASSUME ReplayTypeOK, ScanFacts, Located
    PROVE  Paged'
<1> SUFFICES ASSUME faults = 0, NEW h \in 1..MaxTarget, h <= search.records, Latest - h < offset'
             PROVE  FALSE
  <2>1. search'.records = search.records /\ UNCHANGED <<Latest, MaxTarget, faults, found>>
    BY SearchParts DEF ScanFacts, Located, LocatedIf, NoSearch, Unscanned, sourceVars, Latest, MaxTarget
  <2>2. faults = 0 => search.records <= Latest
    BY DEF ScanFacts, Searched, Located, LocatedIf
  <2> QED
    BY <2>1, <2>2 DEF Paged, HasMwebEvents
<1>1. /\ MaxTarget \in Nat /\ Latest \in Nat /\ spc = "searching"
      /\ search.low > search.high /\ offset' = search.result
  BY MaxTargetType, LatestType DEF ScanFacts, Located, LocatedIf, Scanning
<1>2. /\ search.high = search.result - 1 /\ search.low <= search.result
      /\ search.records <= Latest
      /\ \A o \in Nat : o < search.low => Latest - o > MaxTarget
  BY <1>1 DEF ScanFacts, Searched
<1>3. Latest - h \in Nat /\ Latest - h < search.low
  BY <1>1, <1>2, SearchParts DEF ScanFacts
<1>4. Latest - (Latest - h) > MaxTarget
  BY <1>2, <1>3
<1> QED
  BY <1>1, <1>4

LEMMA PageSpan ==
    ASSUME ReplayTypeOK, NEW o \in Nat
    PROVE  /\ Cardinality(Page(o, PageSize)) \in Nat
           /\ Cardinality(Page(o, PageSize)) <= PageSize
           /\ Page(o, PageSize) = {} => o >= Latest
<1>1. Latest \in Nat /\ PageSize \in Nat /\ PageSize >= 1
  BY LatestType, ScanAssumption
<1> DEFINE a == Latest - o - PageSize + 1
           b == Latest - o
<1>2. Page(o, PageSize) \subseteq a..b
  BY <1>1 DEF Page
<1>3. IsFiniteSet(a..b) /\ Cardinality(a..b) = PageSize
  BY <1>1, FS_Interval
<1>4. Page(o, PageSize) = {} => o >= Latest
  <2>1. ASSUME o < Latest PROVE b \in Page(o, PageSize)
    BY <1>1, <2>1 DEF Page
  <2> QED
    BY <1>1, <2>1
<1> HIDE DEF a, b
<1> QED
  BY <1>2, <1>3, <1>4, FS_Subset, FS_CardinalityType

LEMMA PageStep ==
    ASSUME ReplayTypeOK, ScanFacts, ScanPage
    PROVE  Paged' /\ Scanned'
<1> SUFFICES ASSUME faults = 0 PROVE Paged' /\ Scanned'
  BY DEF ScanPage, Answers, Unscanned, sourceVars, Paged, Scanned
<1> DEFINE page == Page(offset, PageSize)
<1>1. /\ MaxTarget \in Nat /\ Latest \in Nat /\ spc = "paging" /\ offset \in Nat
      /\ search.records <= Latest /\ search.records \in Nat
      /\ PageSize \in Nat /\ PageSize >= 1
  BY MaxTargetType, LatestType, SearchParts, ScanAssumption
     DEF ScanFacts, ScanSets, ScanPage, Scanning, Paged
<1>2. UNCHANGED <<Latest, MaxTarget, faults, search, sourceTip>>
  BY DEF ScanPage, Answers, Unscanned, sourceVars, Latest, MaxTarget
<1>3. \A h : HasMwebEvents(h)' <=> HasMwebEvents(h)
  BY <1>2 DEF HasMwebEvents
<1>4. ASSUME NEW h \in 1..MaxTarget, h <= search.records, HasMwebEvents(h),
             Latest - h < offset + PageSize
      PROVE  h \in found'
  <2>1. CASE Latest - h < offset
    BY <1>1, <1>4, <2>1 DEF ScanFacts, Paged, ScanPage
  <2>2. CASE Latest - h >= offset
    <3>1. h \in page
      BY <1>1, <1>4, <2>2 DEF Page
    <3> QED
      BY <1>1, <1>4, <3>1 DEF ScanPage
  <2> QED
    BY <1>1, <2>1, <2>2
<1>5. CASE (page = {} \/ offset + Cardinality(page) >= Latest) /\ spc' = "writing" /\ UNCHANGED offset
  <2>1. offset + PageSize >= Latest
    BY <1>1, <1>5, PageSpan
  <2>2. \A h \in 1..MaxTarget : h <= search.records /\ HasMwebEvents(h) => h \in found'
    BY <1>1, <1>4, <2>1
  <2> QED
    BY <1>1, <1>2, <1>3, <1>5, <2>2 DEF Paged, Scanned
<1>6. CASE offset' = offset + PageSize /\ UNCHANGED spc
  BY <1>1, <1>2, <1>3, <1>4, <1>6 DEF Paged, Scanned
<1> QED
  BY <1>5, <1>6 DEF ScanPage

LEMMA LocateStep ==
    ASSUME ReplayTypeOK, ScanFacts, Locate
    PROVE  Searched' /\ Paged'
<1>1. /\ MaxTarget \in Nat /\ Latest \in Nat /\ offset = 0 /\ UNCHANGED offset
      /\ search' = [low |-> 0, high |-> Latest - 1, result |-> Latest, records |-> Latest]
      /\ UNCHANGED <<Latest, MaxTarget>>
  BY MaxTargetType, LatestType
     DEF ScanFacts, ScanSets, Locate, Scanning, Answers, Unscanned, sourceVars, Latest, MaxTarget
<1>2. Searched'
  BY <1>1 DEF Searched
<1>3. Paged'
  BY <1>1 DEF Paged
<1> QED
  BY <1>2, <1>3

(* What a step that only moves on leaves of the facts. *)
LEMMA FactsKept ==
    ASSUME ReplayTypeOK, ScanFacts, faults' \in Nat, faults' >= faults,
           UNCHANGED <<sourceTip, targets, search, found, offset>>,
           spc' \in {"searching", "paging"} => spc' = spc,
           spc' \in {"writing", "created"} => spc \in {"writing", "created"}
    PROVE  Searched' /\ Paged' /\ Scanned'
<1>1. UNCHANGED <<Latest, MaxTarget>> /\ (faults' = 0 => faults = 0)
  BY DEF Latest, MaxTarget, ReplayTypeOK
<1>2. \A h : HasMwebEvents(h)' <=> HasMwebEvents(h)
  BY DEF HasMwebEvents
<1> QED
  BY <1>1, <1>2 DEF ScanFacts, Searched, Paged, Scanned

LEMMA ScanFactsStep ==
    ASSUME ReplayTypeOK, ScanFacts, ScanStep
    PROVE  ScanFacts'
<1> SUFFICES Searched' /\ Paged' /\ Scanned'
  BY ScanSetsStep DEF ScanFacts
<1>1. faults \in Nat
  BY DEF ReplayTypeOK
<1>2. CASE ResolveTip \/ ResolveHeights \/ ReadList
  <2>1. spc' \notin {"searching", "paging", "writing", "created"}
    BY <1>2 DEF ResolveTip, ResolveHeights, ReadList, ScanFacts, ScanSets
  <2> QED
    BY <2>1 DEF Searched, Paged, Scanned
<1>3. CASE Locate
  BY <1>3, LocateStep DEF Locate, Scanned
<1>4. CASE Probe
  BY <1>4, ProbeStep DEF Probe, Paged, Scanned
<1>5. CASE Located
  BY <1>5, LocatedStep DEF Located, LocatedIf, Searched, Scanned
<1>6. CASE ScanPage
  <2>1. spc' # "searching"
    BY <1>6 DEF ScanPage
  <2> QED
    BY <1>6, <2>1, PageStep DEF Searched
<1>7. CASE CreateList
  <2>1. /\ spc = "writing" /\ spc' = "created" /\ faults' = faults
        /\ UNCHANGED <<sourceTip, targets, search, found, offset>>
    BY <1>7 DEF CreateList, Unscanned, sourceVars
  <2> QED
    BY <1>1, <2>1, FactsKept
<1>8. CASE WriteList
  <2>1. spc' \in {"listed", "failed"}
    BY <1>8 DEF WriteList
  <2> QED
    BY <2>1 DEF Searched, Paged, Scanned
<1>9. CASE ScanUnanswered
  <2>1. /\ spc' = spc \/ spc' = "failed"
        /\ faults' \in {faults, faults + 1}
        /\ UNCHANGED <<sourceTip, targets, search, found, offset>>
    BY <1>9 DEF ScanUnanswered
  <2> QED
    BY <1>1, <2>1, FactsKept
<1>10. CASE BeginReplay
  BY <1>10 DEF BeginReplay, Searched, Paged, Scanned
<1> QED
  BY <1>2, <1>3, <1>4, <1>5, <1>6, <1>7, <1>8, <1>9, <1>10 DEF ScanStep
-------------------------------------------------------------------------------
(* The other steps. *)

LEMMA ScanSetsKept == ASSUME ScanSets, UNCHANGED scanVars PROVE ScanSets'
BY DEF ScanSets, scanVars

LEMMA Earlier ==
    ASSUME NEW l \in Nat, NEW m \in Nat, NEW r \in Nat, NEW o \in Nat, NEW t \in Nat,
           NEW h \in 1..t, h <= r, r <= l, l <= m, m - h < o
    PROVE  h \in 1..l /\ l - h < o
OBVIOUS

LEMMA ScanUntouched ==
    ASSUME ReplayTypeOK, ScanFacts, UNCHANGED scanVars, sourceTip' = sourceTip,
           faults' \in Nat, faults' >= faults
    PROVE  ScanFacts'
<1>1. UNCHANGED <<spc, targets, search, found, offset>>
  BY DEF scanVars
<1> QED
  BY <1>1, ScanSetsKept, FactsKept DEF ScanFacts

(* With no fault the chain only grows: what was on it stays at its height. *)
LEMMA SourceGrows ==
    ASSUME ReplayTypeOK, ScanFacts, NEW b \in Blocks, MoveSource(b), UNCHANGED scanVars
    PROVE  ScanFacts'
<1>1. CASE faults' # 0
  BY <1>1, ScanSetsKept DEF ScanFacts, Searched, Paged, Scanned
<1>2. CASE faults' = 0
  <2>1. sourceTip' = b /\ On(sourceTip, b) /\ faults = 0 /\ sourceTip \in Blocks
    BY <1>2 DEF MoveSource, ReplayTypeOK
  <2>2. Latest \in Nat /\ Latest' \in Nat /\ Latest <= Latest'
    BY <2>1, HeightType DEF Latest, On
  <2>3. ASSUME NEW h \in 1..Latest PROVE HasMwebEvents(h)' <=> HasMwebEvents(h)
    BY <2>1, OnAgree DEF HasMwebEvents, Latest
  <2>4. UNCHANGED <<spc, targets, search, found, offset, MaxTarget>>
    BY DEF scanVars, MaxTarget
  <2>5. spc \in Scanning => MaxTarget \in Nat
    BY MaxTargetType DEF ScanFacts
  <2>6. search.result \in Nat /\ search.records \in Nat /\ offset \in Nat /\ search.low \in Nat
    BY SearchParts DEF ScanFacts, ScanSets
  <2>7. Searched'
    BY <2>1, <2>2, <2>4, <2>5, <2>6 DEF ScanFacts, Searched, Scanning
  <2>8. Paged'
    <3> SUFFICES ASSUME spc = "paging"
                 PROVE  /\ search.records <= Latest'
                        /\ \A h \in 1..MaxTarget :
                             h <= search.records /\ HasMwebEvents(h)' /\ Latest' - h < offset => h \in found
      BY <2>4 DEF Paged
    <3>1. search.records <= Latest /\ MaxTarget \in Nat
      BY <2>1, <2>5 DEF ScanFacts, Paged, Scanning
    <3>2. ASSUME NEW h \in 1..MaxTarget, h <= search.records, HasMwebEvents(h)', Latest' - h < offset
          PROVE  h \in found
      <4>1. PICK l, m, r, o, t : /\ l = Latest /\ m = Latest' /\ r = search.records
                                /\ o = offset /\ t = MaxTarget
        OBVIOUS
      <4>2. /\ l \in Nat /\ m \in Nat /\ r \in Nat /\ o \in Nat /\ t \in Nat
            /\ h \in 1..t /\ h <= r /\ r <= l /\ l <= m /\ m - h < o
        BY <2>2, <2>6, <3>1, <3>2, <4>1
      <4>3. h \in 1..Latest /\ Latest - h < offset
        BY <4>1, <4>2, Earlier
      <4>4. HasMwebEvents(h)
        BY <2>3, <3>2, <4>3
      <4> QED
        BY <2>1, <3>2, <4>3, <4>4 DEF ScanFacts, Paged
    <3>3. search.records <= Latest'
      BY <2>2, <2>6, <3>1
    <3> QED
      BY <3>2, <3>3
  <2>9. Scanned'
    <3> SUFFICES ASSUME spc \in {"writing", "created"}
                 PROVE  /\ search.records <= Latest'
                        /\ \A h \in 1..MaxTarget : h <= search.records /\ HasMwebEvents(h)' => h \in found
      BY <2>4 DEF Scanned
    <3>1. search.records <= Latest /\ MaxTarget \in Nat
      BY <2>1, <2>5 DEF ScanFacts, Scanned, Scanning
    <3> QED
      BY <2>1, <2>2, <2>3, <2>6, <3>1 DEF ScanFacts, Scanned
  <2> QED
    BY <2>7, <2>8, <2>9, ScanSetsKept DEF ScanFacts
<1> QED
  BY <1>1, <1>2

LEMMA Complete == ScanFacts => ScanComplete
BY DEF ScanFacts, Scanned, ScanComplete

-------------------------------------------------------------------------------
(* The archive *)

Entries == [state : {"whole", "open", "torn", "bad"}, line : LinesOf]

(* A line about to be written, or written. *)
Good(l) == l \in LinesOf /\ l.block \in Blocks /\ TrueLine(l)

Parsed(i) == i \in 1..Len(archive) /\ Parses(archive[i])
At(i) == archive[i].line.height

Stores ==
    /\ header \in Blocks /\ filter \in Blocks /\ On(filter, header)
    /\ leafset \in Blocks \cup {None}

Archived ==
    /\ archive \in Seq(Entries)
    /\ \A i : Parsed(i) => Good(archive[i].line)
    /\ wpc \in {"appending", "syncing"} => Good(line)

Apart ==
    /\ mishaps \in Nat /\ lastHeight \in {0} \cup Heights
    /\ mishaps = 0 =>
         /\ \A i, j : Parsed(i) /\ Parsed(j) /\ i < j => At(j) >= At(i) + MinStep
         /\ ~once /\ wpc \in {"waiting", "reading"} => \A i : Parsed(i) => At(i) <= lastHeight
         /\ wpc = "appending" => \A i : Parsed(i) => At(i) + MinStep <= line.height
         /\ wpc = "syncing" => \A i : Parsed(i) => At(i) <= line.height

(* The step of the watch never wraps around (heights are 32 bits wide).    *)
NoWrap == \A h \in Heights : h + MinStep < Word

(* What the command adds: it opens the directory for one export, or reads  *)
(* the headers of a hybrid checkpoint.                                     *)
OpenOnce ==
    /\ wpc = "off" /\ wpc' = "waiting" /\ once' = TRUE
    /\ UNCHANGED <<dirVars, line, lastHeight, archive, mishaps>>

ReadHeaders ==
    /\ wpc = "reading" /\ wpc' \in {"exported", "failed"}
    /\ UNCHANGED <<dirVars, once, line, lastHeight, archive, mishaps>>

WatchAlone ==
    \/ DaemonStep \/ WatchStep \/ EndWatch \/ OpenOnce \/ ReadHeaders
    \/ \E h : ExportCheckpoint(h)
-------------------------------------------------------------------------------
LEMMA HeightIn == \A b \in Blocks : Height(b) \in Heights /\ Height(b) \in Nat /\ Height(b) >= 1
<1> TAKE b \in Blocks
<1>1. Height(b) \in Nat /\ Height(b) >= 1
  BY HeightType
<1>2. Height(b) \in 1..Height(b)
  BY <1>1
<1> QED
  BY <1>1, <1>2 DEF Heights

LEMMA HeightsAreNat == Heights \subseteq Nat
BY HeightType DEF Heights

LEMMA GoodHeight == ASSUME NEW l, Good(l) PROVE l.height \in Heights /\ l.height \in Nat /\ l.height >= 1
BY HeightIn DEF Good, TrueLine

LEMMA NoLineType == NoLine \in LinesOf
BY DEF NoLine, Line, LinesOf

(* What can be read of an archive after an append that came to an end or   *)
(* was cut short: what was there, and at most the new line.                *)
Reads(file, l, e) ==
    /\ e \in Seq(Entries)
    /\ \A i \in 1..Len(e) : Parses(e[i]) =>
         \/ i \in 1..Len(file) /\ e[i] = file[i]
         \/ i = Len(file) + 1 /\ e[i].line = l

LEMMA AppendedReads ==
    ASSUME NEW file \in Seq(Entries), NEW l \in LinesOf,
           NEW s \in {"whole", "torn", "open"}, NEW e, e = Appended(file, Entry(s, l))
    PROVE  Reads(file, l, e)
<1> USE DEF Reads
<1> DEFINE n == Entry(s, l)
           z == Entry(IF n.state = "whole" THEN "bad" ELSE "torn", NoLine)
<1>1. n \in Entries /\ (Parses(n) => n.line = l) /\ z \in Entries /\ ~Parses(z)
  BY NoLineType DEF Entry, Entries, Parses
<1>2. CASE Unterminated(file)
  <2>1. e = [file EXCEPT ![Len(file)] = z]
    BY <1>2 DEF Appended
  <2>2. Len(file) \in 1..Len(file) /\ Len(file) \in Nat
    BY <1>2 DEF Unterminated
  <2>3. /\ e \in Seq(Entries) /\ Len(e) = Len(file) /\ e[Len(file)] = z
        /\ \A i \in 1..Len(file) : i # Len(file) => e[i] = file[i]
    <3> HIDE DEF z
    <3> QED
      BY <1>1, <2>1, <2>2
  <2> QED
    BY <1>1, <2>3
<1>3. CASE ~Unterminated(file)
  <2>1. e = Append(file, n)
    BY <1>3 DEF Appended
  <2> HIDE DEF n
  <2>2. /\ e \in Seq(Entries) /\ Len(e) = Len(file) + 1 /\ e[Len(file) + 1] = n
        /\ \A i \in 1..Len(file) : e[i] = file[i]
    BY <1>1, <2>1
  <2> QED
    BY <1>1, <2>2
<1> QED
  BY <1>2, <1>3
-------------------------------------------------------------------------------
(* The stores a daemon leaves.                                             *)

LEMMA ParentType ==
    ASSUME NEW b \in Blocks, Height(b) > 1
    PROVE  /\ Parent(b) \in Blocks /\ Height(Parent(b)) = Height(b) - 1
           /\ \A k \in 1..(Height(b) - 1) : Path[Parent(b)][k] = Path[b][k]
<1>1. Height(b) - 1 \in 1..Height(b) /\ Parent(b) = Path[b][Height(b) - 1]
  BY HeightType DEF Parent
<1> QED
  BY <1>1, AtType

LEMMA StoresStep ==
    ASSUME Stores, WatchAlone
    PROVE  Stores'
<1>1. CASE ConnectHeader
  <2>1. PICK b \in Blocks : Parent(b) = header /\ header' = b
    BY <1>1 DEF ConnectHeader
  <2>2. Height(b) > 1
    BY <2>1, HeightType, BaseType DEF Parent, Stores
  <2>3. On(filter, b)
    BY <2>1, <2>2, ParentType, HeightType DEF On, Stores
  <2> QED
    BY <1>1, <2>1, <2>3 DEF ConnectHeader, Stores
<1>2. CASE DisconnectHeader
  <2>1. Parent(header) \in Blocks /\ Height(header) \in Nat /\ Height(header) > 1
    BY <1>2, ParentType, HeightType DEF DisconnectHeader, Stores
  <2>2. CASE filter = header
    BY <1>2, <2>1, <2>2, OnTip, HeightType DEF DisconnectHeader, Stores, On
  <2>3. CASE filter # header
    <3>1. Height(filter) \in 1..(Height(header) - 1)
      BY <2>1, <2>3, OnTip, HeightType DEF Stores, On
    <3>2. On(filter, Parent(header))
      BY <2>1, <3>1, ParentType DEF Stores, On
    <3> QED
      BY <1>2, <2>1, <2>3, <3>2 DEF DisconnectHeader, Stores
  <2> QED
    BY <2>2, <2>3
<1>3. CASE ConnectFilter
  <2>1. Height(filter) + 1 \in 1..Height(header)
    BY <1>3, OnTip, HeightType DEF ConnectFilter, Stores, On
  <2>2. filter' = Path[header][Height(filter) + 1] /\ filter' \in Blocks
        /\ Height(filter') = Height(filter) + 1
    BY <1>3, <2>1, AtType DEF ConnectFilter, Stores
  <2>3. On(filter', header)
    BY <2>1, <2>2, HeightType DEF On, Stores
  <2> QED
    BY <1>3, <2>2, <2>3 DEF ConnectFilter, Stores
<1>4. CASE Round \/ CutRound \/ RollbackLeaves
  BY <1>4 DEF Round, CutRound, RollbackLeaves, Stores
<1>5. CASE UNCHANGED dirVars
  BY <1>5 DEF dirVars, Stores
<1> QED
  BY <1>1, <1>2, <1>3, <1>4, <1>5
     DEF WatchAlone, DaemonStep, WatchStep, EndWatch, OpenOnce, ReadHeaders, StartWatch, Poll,
         ExportCheckpoint, AppendLine, AppendFails, Synced, SyncFails
-------------------------------------------------------------------------------
(* The line.                                                               *)

(* Of a leafset whose block is the one in the store, at its height.        *)
LEMMA ExportGood ==
    ASSUME Stores, Exportable
    PROVE  Good(ExportLine) /\ ExportLine.height = Height(leafset)
<1>1. leafset \in Blocks /\ Height(leafset) \in Nat /\ Height(leafset) \in 1..Height(filter)
  BY HeightType DEF Stores, Exportable, InStores
<1>2. Path[header][Height(leafset)] = leafset /\ Path[filter][Height(leafset)] = leafset
  BY <1>1, OnAgree DEF Stores, Exportable
<1>3. Unspent[leafset] \in SUBSET Leaves /\ SizeOf(leafset) \in Nat
  BY <1>1, OutsType, BaseType DEF SizeOf
<1> QED
  BY <1>1, <1>2, <1>3 DEF Good, TrueLine, ExportLine, Line, LinesOf

(* The archive after a step: as before, or with what can be read of one    *)
(* append of the line.                                                     *)
LEMMA ArchiveStep ==
    ASSUME Archived, WatchAlone
    PROVE  \/ archive' = archive
           \/ wpc = "appending" /\ Reads(archive, line, archive')
<1>1. CASE UNCHANGED archive
  BY <1>1
<1>2. CASE wpc = "appending" /\ \E s \in {"whole", "torn", "open"} :
              archive' = Appended(archive, Entry(s, line))
  <2>1. line \in LinesOf /\ archive \in Seq(Entries)
    BY <1>2 DEF Archived, Good
  <2>2. PICK s \in {"whole", "torn", "open"} : archive' = Appended(archive, Entry(s, line))
    BY <1>2
  <2> QED
    BY <1>2, <2>1, <2>2, AppendedReads
<1> QED
  BY <1>1, <1>2
     DEF WatchAlone, DaemonStep, ConnectHeader, DisconnectHeader, ConnectFilter, Round, CutRound,
         RollbackLeaves, toolVars, WatchStep, EndWatch, OpenOnce, ReadHeaders, StartWatch, Poll,
         ExportCheckpoint, AppendLine, AppendFails, CutShort, Synced, SyncFails

(* What is written is what was exported a step ago, in the same state.     *)
LEMMA LineStep ==
    ASSUME Stores, Archived, WatchAlone, wpc' \in {"appending", "syncing"}
    PROVE  Good(line')
<1>1. CASE UNCHANGED <<line, wpc>>
  BY <1>1 DEF Archived
<1>2. CASE wpc = "appending" /\ line' = line
  BY <1>2 DEF Archived
<1>3. CASE Exportable /\ line' = ExportLine
  BY <1>3, ExportGood
<1> QED
  BY <1>1, <1>2, <1>3
     DEF WatchAlone, DaemonStep, ConnectHeader, DisconnectHeader, ConnectFilter, Round, CutRound,
         RollbackLeaves, toolVars, WatchStep, EndWatch, OpenOnce, ReadHeaders, StartWatch, Poll,
         ExportCheckpoint, AppendLine, AppendFails, Synced, SyncFails

LEMMA ArchivedStep ==
    ASSUME Stores, Archived, WatchAlone
    PROVE  Archived'
<1>1. wpc' \in {"appending", "syncing"} => Good(line')
  BY LineStep
<1>2. CASE archive' = archive
  BY <1>1, <1>2 DEF Archived, Parsed, Good, TrueLine
<1>3. CASE wpc = "appending" /\ Reads(archive, line, archive')
  BY <1>1, <1>3 DEF Archived, Parsed, Good, TrueLine, Reads
<1> QED
  BY <1>2, <1>3, ArchiveStep
-------------------------------------------------------------------------------
(* The distance.                                                           *)

LEMMA ApartKept ==
    ASSUME Apart, archive' = archive, mishaps' \in Nat, mishaps' >= mishaps,
           lastHeight' = lastHeight, line' = line \/ wpc' \notin {"appending", "syncing"},
           wpc' \in {"appending", "syncing"} => wpc' = wpc,
           ~once' /\ wpc' \in {"waiting", "reading"} =>
                mishaps' > 0 \/ (~once /\ wpc \in {"waiting", "reading"})
    PROVE  Apart'
BY DEF Apart, Parsed, At

LEMMA AppendStep ==
    ASSUME Apart, Archived, WatchAlone, mishaps' = mishaps,
           wpc = "appending", lastHeight' \in {0} \cup Heights,
           wpc' \in {"off", "syncing"}, wpc' = "syncing" => line' = line
    PROVE  Apart'
<1>1. archive' = archive \/ Reads(archive, line, archive')
  BY ArchiveStep
<1>2. \A i : Parsed(i) => At(i) \in Nat /\ At(i) >= 1
  BY GoodHeight DEF Archived, At
<1>3. line.height \in Nat /\ MinStep \in Nat /\ Len(archive) \in Nat
  BY GoodHeight, WatchAssumption DEF Archived
<1>4. \A i : Parsed(i)' =>
        \/ Parsed(i) /\ i <= Len(archive) /\ At(i)' = At(i)
        \/ i = Len(archive) + 1 /\ At(i)' = line.height
  BY <1>1, <1>3 DEF Parsed, At, Reads
<1>5. mishaps = 0 => \A i, j : Parsed(i)' /\ Parsed(j)' /\ i < j => At(j)' >= At(i)' + MinStep
  <2> SUFFICES ASSUME mishaps = 0, NEW i, NEW j, Parsed(i)', Parsed(j)', i < j
               PROVE  At(j)' >= At(i)' + MinStep
    OBVIOUS
  <2>1. i \in Nat /\ j \in Nat
    BY DEF Parsed
  <2>2. Parsed(i) /\ At(i)' = At(i)
    BY <1>3, <1>4, <2>1
  <2> QED
    BY <1>2, <1>3, <1>4, <2>1, <2>2 DEF Apart
<1>6. mishaps = 0 /\ wpc' = "syncing" => \A i : Parsed(i)' => At(i)' <= line'.height
  BY <1>2, <1>3, <1>4 DEF Apart
<1> QED
  BY <1>5, <1>6 DEF Apart

(* A mishap: nothing is claimed any more.                                  *)
LEMMA MishapStep ==
    ASSUME Apart, mishaps' = mishaps + 1, lastHeight' = lastHeight
    PROVE  Apart'
BY DEF Apart

(* What watchLocalCheckpoints reads of the archive: its highest line.       *)
LEMMA LastHeight ==
    ASSUME Archived, StartWatch, wpc' = "waiting"
    PROVE  /\ lastHeight' \in {0} \cup Heights
           /\ \A i : Parsed(i)' => Parsed(i) /\ At(i)' = At(i) /\ At(i) <= lastHeight'
<1> DEFINE hs == {0} \cup {At(i) : i \in 1..Len(archive)}
<1>1. /\ \A i \in 1..Len(archive) : Parsed(i)
      /\ lastHeight' = CHOOSE h \in hs : \A k \in hs : k <= h
      /\ UNCHANGED <<archive, mishaps, once, line>>
  BY DEF StartWatch, Parsed, At
<1>2. Len(archive) \in Nat
  BY DEF Archived
<1>3. \A i \in 1..Len(archive) : At(i) \in Heights
  BY <1>1, GoodHeight DEF Archived, At
<1>4. hs \in SUBSET Nat /\ hs # {} /\ hs \subseteq {0} \cup Heights
  <2>1. hs \subseteq {0} \cup Heights
    <3> HIDE DEF At
    <3> QED
      BY <1>3
  <2>2. 0 \in hs
    OBVIOUS
  <2> HIDE DEF hs
  <2> QED
    BY <2>1, <2>2, HeightsAreNat
<1>5. IsFiniteSet(hs)
  <2>1. IsFiniteSet(1..Len(archive))
    BY <1>2, FS_Interval
  <2>2. IsFiniteSet({At(i) : i \in 1..Len(archive)})
    <3> DEFINE T == {At(i) : i \in 1..Len(archive)}
    <3>1. [i \in 1..Len(archive) |-> At(i)] \in Surjection(1..Len(archive), T)
      BY DEF Surjection
    <3> HIDE DEF T
    <3>2. IsFiniteSet(T)
      BY <2>1, <3>1, FS_Surjection
    <3> QED
      BY <3>2 DEF T
  <2>3. IsFiniteSet({0})
    BY FS_Singleton
  <2> QED
    BY <2>2, <2>3, FS_Union
<1>6. lastHeight' \in hs /\ \A k \in hs : k <= lastHeight'
  <2> HIDE DEF hs
  <2> QED
    BY <1>1, <1>4, <1>5, HighestExists
<1>7. \A i : Parsed(i)' => Parsed(i) /\ At(i)' = At(i) /\ At(i) <= lastHeight'
  BY <1>1, <1>6 DEF Parsed, At
<1> QED
  BY <1>4, <1>6, <1>7

LEMMA StartStep ==
    ASSUME Archived, Apart, StartWatch, wpc' = "waiting"
    PROVE  Apart'
<1>1. UNCHANGED <<archive, mishaps, once, line>>
  BY DEF StartWatch
<1> QED
  BY <1>1, LastHeight DEF Apart

LEMMA ExportStep ==
    ASSUME NoWrap, Stores, Archived, Apart, NEW h, ExportCheckpoint(h), wpc' = "appending"
    PROVE  Apart'
<1>1. /\ Exportable /\ ~once /\ ~TooSoon(Height(leafset)) /\ line' = ExportLine
      /\ wpc = "reading" /\ UNCHANGED <<once, lastHeight, archive, mishaps>>
  BY DEF ExportCheckpoint
<1>2. line'.height = Height(leafset) /\ line'.height \in Nat
  BY <1>1, ExportGood, GoodHeight
<1>3. \A i : Parsed(i) => At(i) \in Nat /\ At(i) >= 1
  BY GoodHeight DEF Archived, At
<1>4. lastHeight \in Nat /\ MinStep \in Nat /\ (lastHeight # 0 => lastHeight + MinStep < Word)
  BY HeightsAreNat, WatchAssumption DEF Apart, NoWrap
<1>5. lastHeight # 0 => line'.height >= lastHeight + MinStep
  <2>1. lastHeight # 0 => (lastHeight + MinStep) % Word = lastHeight + MinStep
    BY <1>4, WatchAssumption
  <2> QED
    BY <1>1, <1>2, <1>4, <2>1 DEF TooSoon
<1>6. mishaps = 0 => \A i : Parsed(i) => At(i) + MinStep <= line'.height
  BY <1>1, <1>2, <1>3, <1>4, <1>5 DEF Apart
<1>7. \A i : (Parsed(i)' <=> Parsed(i)) /\ At(i)' = At(i)
  BY <1>1 DEF Parsed, At
<1> QED
  BY <1>1, <1>6, <1>7 DEF Apart

LEMMA SyncedStep ==
    ASSUME Archived, Apart, Synced
    PROVE  Apart'
<1>1. line.height \in Heights /\ lastHeight' = line.height
  BY GoodHeight DEF Archived, Synced
<1>2. \A i : (Parsed(i)' <=> Parsed(i)) /\ At(i)' = At(i)
  BY DEF Synced, Parsed, At
<1> QED
  BY <1>1, <1>2 DEF Synced, Apart

LEMMA ApartStep ==
    ASSUME NoWrap, Stores, Archived, Apart, WatchAlone
    PROVE  Apart'
<1>1. mishaps \in Nat /\ mishaps >= mishaps
  BY DEF Apart
<1>2. CASE DaemonStep
  <2>1. UNCHANGED toolVars
    BY <1>2 DEF DaemonStep, ConnectHeader, DisconnectHeader, ConnectFilter, Round, CutRound, RollbackLeaves
  <2> QED
    BY <1>1, <2>1, ApartKept DEF toolVars
<1>3. CASE OpenOnce \/ ReadHeaders \/ Poll
  BY <1>1, <1>3, ApartKept DEF OpenOnce, ReadHeaders, Poll
<1>4. CASE StartWatch
  <2>1. CASE wpc' = "waiting"
    BY <1>4, <2>1, StartStep
  <2>2. CASE wpc' = "failed" /\ UNCHANGED lastHeight
    BY <1>1, <1>4, <2>2, ApartKept DEF StartWatch
  <2> QED
    BY <1>4, <2>1, <2>2 DEF StartWatch
<1>5. ASSUME NEW h, ExportCheckpoint(h) PROVE Apart'
  <2>1. CASE wpc' = "appending"
    BY <1>5, <2>1, ExportStep
  <2>2. CASE wpc' # "appending"
    <3>1. /\ wpc = "reading" /\ wpc' \in {"failed", "waiting", "exported"}
          /\ UNCHANGED <<once, lastHeight, archive, mishaps>>
      BY <1>5, <2>2 DEF ExportCheckpoint
    <3> QED
      BY <1>1, <3>1, ApartKept
  <2> QED
    BY <2>1, <2>2
<1>6. CASE AppendLine
  BY <1>6, AppendStep DEF AppendLine, Apart
<1>7. CASE AppendFails \/ SyncFails
  BY <1>7, MishapStep DEF AppendFails, SyncFails
<1>8. CASE Synced
  BY <1>8, SyncedStep
<1>9. CASE EndWatch
  <2>1. wpc' = "off" /\ lastHeight' = 0 /\ mishaps' = mishaps
    BY <1>9 DEF EndWatch
  <2>2. CASE wpc = "appending"
    BY <2>1, <2>2, AppendStep
  <2>3. CASE archive' = archive
    BY <2>1, <2>3 DEF Apart, Parsed, At
  <2> QED
    BY <1>9, <2>2, <2>3 DEF EndWatch
<1> QED
  BY <1>2, <1>3, <1>4, <1>5, <1>6, <1>7, <1>8, <1>9 DEF WatchAlone, WatchStep
-------------------------------------------------------------------------------
LEMMA WatchInitInv == WatchInit => Stores /\ Archived /\ Apart
<1> SUFFICES ASSUME WatchInit PROVE Stores /\ Archived /\ Apart
  OBVIOUS
<1>1. Stores
  BY BaseType, OnTip, HeightType DEF WatchInit, Stores, On
<1>2. archive \in Seq(Entries) /\ \A i : ~Parsed(i)
  BY DEF WatchInit, Parsed
<1> QED
  BY <1>1, <1>2 DEF WatchInit, Archived, Apart

LEMMA WatchUnchanged ==
    ASSUME Stores, Archived, UNCHANGED watchVars
    PROVE  Stores' /\ Archived' /\ (Apart => Apart')
BY DEF Stores, Archived, Apart, Parsed, At, Good, TrueLine, watchVars, dirVars

LEMMA AllTrue == Archived => ArchiveTrue
BY DEF Archived, ArchiveTrue, Good, Parsed

LEMMA AllApart == Archived /\ Apart => ArchiveSpaced
BY DEF Archived, Apart, ArchiveSpaced, Parsed, At

-------------------------------------------------------------------------------
(* What lists of requests hold *)

Els(s) == {s[i] : i \in 1..Len(s)}

LEMMA ElsHead ==
    ASSUME NEW T, NEW s \in Seq(T), s # <<>>
    PROVE  /\ Head(s) \in T /\ Tail(s) \in Seq(T)
           /\ Els(s) = {Head(s)} \cup Els(Tail(s))
<1>1. /\ Head(s) = s[1] /\ Tail(s) \in Seq(T) /\ Len(Tail(s)) = Len(s) - 1
      /\ Len(s) \in Nat /\ Len(s) >= 1
      /\ \A i \in 1..(Len(s) - 1) : Tail(s)[i] = s[i + 1]
  OBVIOUS
<1>2. ASSUME NEW x \in Els(s) PROVE x \in {Head(s)} \cup Els(Tail(s))
  <2>1. PICK i \in 1..Len(s) : x = s[i]
    BY <1>2 DEF Els
  <2>2. CASE i = 1
    BY <1>1, <2>1, <2>2
  <2>3. CASE i # 1
    <3>1. i - 1 \in 1..Len(Tail(s)) /\ Tail(s)[i - 1] = x
      BY <1>1, <2>1, <2>3
    <3> QED
      BY <3>1 DEF Els
  <2> QED
    BY <2>2, <2>3
<1>3. ASSUME NEW x \in {Head(s)} \cup Els(Tail(s)) PROVE x \in Els(s)
  <2>1. CASE x = Head(s)
    <3>1. 1 \in 1..Len(s) /\ x = s[1]
      BY <1>1, <2>1
    <3> QED
      BY <3>1 DEF Els
  <2>2. CASE x \in Els(Tail(s))
    <3>1. PICK i \in 1..Len(Tail(s)) : x = Tail(s)[i]
      BY <2>2 DEF Els
    <3>2. i + 1 \in 1..Len(s) /\ x = s[i + 1]
      BY <1>1, <3>1
    <3> QED
      BY <3>2 DEF Els
  <2> QED
    BY <1>3, <2>1, <2>2
<1>4. s[1] \in T
  BY <1>1
<1>5. Els(s) = {Head(s)} \cup Els(Tail(s))
  BY <1>2, <1>3
<1> QED
  BY <1>1, <1>4, <1>5

LEMMA ElsConcat ==
    ASSUME NEW T, NEW s \in Seq(T), NEW t \in Seq(T)
    PROVE  s \o t \in Seq(T) /\ Els(s \o t) = Els(s) \cup Els(t)
<1>1. /\ s \o t \in Seq(T) /\ Len(s \o t) = Len(s) + Len(t) /\ Len(s) \in Nat /\ Len(t) \in Nat
      /\ \A i \in 1..Len(s) : (s \o t)[i] = s[i]
      /\ \A i \in 1..Len(t) : (s \o t)[Len(s) + i] = t[i]
  OBVIOUS
<1>2. PICK c : c = s \o t
  OBVIOUS
<1>3. ASSUME NEW x \in Els(c) PROVE x \in Els(s) \cup Els(t)
  <2>1. PICK i \in 1..Len(c) : x = c[i]
    BY <1>3 DEF Els
  <2>2. CASE i <= Len(s)
    <3>1. i \in 1..Len(s) /\ x = s[i]
      BY <1>1, <1>2, <2>1, <2>2
    <3> QED
      BY <3>1 DEF Els
  <2>3. CASE i > Len(s)
    <3>1. PICK j \in 1..Len(t) : i = Len(s) + j
      <4>1. i - Len(s) \in 1..Len(t) /\ i = Len(s) + (i - Len(s))
        BY <1>1, <1>2, <2>1, <2>3
      <4> QED
        BY <4>1
    <3>2. x = t[j]
      BY <1>1, <1>2, <2>1, <3>1
    <3> QED
      BY <3>2 DEF Els
  <2> QED
    BY <1>1, <1>2, <2>1, <2>2, <2>3
<1>4. ASSUME NEW x \in Els(s) PROVE x \in Els(c)
  <2>1. PICK i \in 1..Len(s) : x = s[i]
    BY <1>4 DEF Els
  <2>2. i \in 1..Len(c) /\ x = c[i]
    BY <1>1, <1>2, <2>1
  <2> QED
    BY <2>2 DEF Els
<1>5. ASSUME NEW x \in Els(t) PROVE x \in Els(c)
  <2>1. PICK i \in 1..Len(t) : x = t[i]
    BY <1>5 DEF Els
  <2>2. Len(s) + i \in 1..Len(c) /\ x = c[Len(s) + i]
    BY <1>1, <1>2, <2>1
  <2> QED
    BY <2>2 DEF Els
<1>6. Els(c) = Els(s) \cup Els(t)
  BY <1>3, <1>4, <1>5
<1> QED
  BY <1>1, <1>2, <1>6

(* What FlattenSeq builds its sequence by.                                 *)
Joins(n, ss, g) == g = [i \in 1..n |-> IF i = 1 THEN ss[i] ELSE g[i - 1] \o ss[i]]

LEMMA JoinsExist ==
    ASSUME NEW ss, NEW n \in Nat
    PROVE  \E g : Joins(n, ss, g)
<1> DEFINE P == {m \in Nat : \E g : Joins(m, ss, g)}
<1>1. 0 \in P
  <2>1. PICK g : g = [i \in 1..0 |-> 0]
    OBVIOUS
  <2>2. Joins(0, ss, g)
    BY <2>1 DEF Joins
  <2> QED
    BY <2>2
<1>2. ASSUME NEW m \in 0..(n - 1), m \in P PROVE m + 1 \in P
  <2>1. PICK g : Joins(m, ss, g)
    BY <1>2
  <2>2. PICK e : e = IF m = 0 THEN ss[m + 1] ELSE g[m] \o ss[m + 1]
    OBVIOUS
  <2>3. PICK h : h = [i \in 1..(m + 1) |-> IF i = m + 1 THEN e ELSE g[i]]
    OBVIOUS
  <2>4. m \in Nat
    BY <1>2
  <2>5. ASSUME NEW i \in 1..(m + 1)
        PROVE  h[i] = IF i = 1 THEN ss[i] ELSE h[i - 1] \o ss[i]
    <3>1. CASE i = m + 1
      <4>1. h[i] = e
        BY <2>3, <3>1
      <4>2. CASE m = 0
        BY <2>2, <3>1, <4>1, <4>2
      <4>3. CASE m # 0
        <5>1. i - 1 = m /\ m \in 1..(m + 1) /\ i # 1 /\ m # m + 1
          BY <2>4, <3>1, <4>3
        <5>2. h[m] = g[m]
          BY <2>3, <5>1
        <5> QED
          BY <2>2, <3>1, <4>1, <4>3, <5>1, <5>2
      <4> QED
        BY <4>2, <4>3
    <3>2. CASE i # m + 1
      <4>1. i \in 1..m /\ h[i] = g[i]
        BY <2>3, <2>4, <3>2
      <4>2. g[i] = IF i = 1 THEN ss[i] ELSE g[i - 1] \o ss[i]
        BY <2>1, <4>1 DEF Joins
      <4>3. i # 1 => i - 1 \in 1..(m + 1) /\ i - 1 # m + 1 /\ h[i - 1] = g[i - 1]
        BY <2>3, <2>4, <4>1
      <4> QED
        BY <4>1, <4>2, <4>3
    <3> QED
      BY <3>1, <3>2
  <2>6. h = [i \in 1..(m + 1) |-> IF i = 1 THEN ss[i] ELSE h[i - 1] \o ss[i]]
    <3>1. PICK f : f = [i \in 1..(m + 1) |-> IF i = 1 THEN ss[i] ELSE h[i - 1] \o ss[i]]
      OBVIOUS
    <3>2. \A i \in 1..(m + 1) : f[i] = h[i]
      BY <2>5, <3>1
    <3>3. h = f
      BY <2>3, <3>1, <3>2
    <3> QED
      BY <3>1, <3>3
  <2>7. Joins(m + 1, ss, h)
    BY <2>6 DEF Joins
  <2> QED
    BY <2>4, <2>7
<1> HIDE DEF P
<1>3. n \in P
  BY <1>1, <1>2, Upto
<1> QED
  BY <1>3 DEF P

Joined(T, ss, s, i) == s \in Seq(T) /\ Els(s) = UNION {Els(ss[j]) : j \in 1..i}

LEMMA FlattenEls ==
    ASSUME NEW T, NEW ss \in Seq(Seq(T))
    PROVE  /\ FlattenSeq(ss) \in Seq(T)
           /\ Els(FlattenSeq(ss)) = UNION {Els(ss[i]) : i \in 1..Len(ss)}
<1>0. Len(ss) \in Nat /\ \A i \in 1..Len(ss) : ss[i] \in Seq(T)
  OBVIOUS
<1>1. CASE Len(ss) = 0
  <2>1. FlattenSeq(ss) = ss /\ ss = <<>>
    BY <1>1 DEF FlattenSeq
  <2> QED
    BY <2>1 DEF Els
<1>2. CASE Len(ss) # 0
  <2>1. PICK g : g = CHOOSE f : Joins(Len(ss), ss, f)
    OBVIOUS
  <2>2. FlattenSeq(ss) = g[Len(ss)]
    BY <1>2, <2>1 DEF FlattenSeq, Joins
  <2>3. Joins(Len(ss), ss, g)
    BY <1>0, <2>1, JoinsExist
  <2> DEFINE P == {i \in 0..Len(ss) : i = 0 \/ Joined(T, ss, g[i], i)}
  <2>4. 0 \in P
    BY <1>0
  <2>5. ASSUME NEW i \in 0..(Len(ss) - 1), i \in P PROVE i + 1 \in P
    <3>1. i \in Nat /\ i + 1 \in 1..Len(ss) /\ ss[i + 1] \in Seq(T)
          /\ 1..(i + 1) = (1..i) \cup {i + 1}
      BY <1>0
    <3>2. g[i + 1] = IF i + 1 = 1 THEN ss[i + 1] ELSE g[i] \o ss[i + 1]
      <4>1. (i + 1) - 1 = i
        BY <3>1
      <4> QED
        BY <2>3, <3>1, <4>1 DEF Joins
    <3>3. CASE i = 0
      <4>1. g[i + 1] = ss[1] /\ 1..(i + 1) = {1} /\ g[i + 1] \in Seq(T)
        BY <3>1, <3>2, <3>3
      <4>2. Els(g[i + 1]) = UNION {Els(ss[j]) : j \in 1..(i + 1)}
        BY <4>1
      <4>3. Joined(T, ss, g[i + 1], i + 1)
        BY <4>1, <4>2 DEF Joined
      <4> QED
        BY <3>1, <4>3
    <3>4. CASE i # 0
      <4>1. Joined(T, ss, g[i], i)
        BY <2>5, <3>4
      <4>2. g[i + 1] = g[i] \o ss[i + 1]
        <5>1. i + 1 # 1
          BY <3>1, <3>4
        <5> QED
          BY <3>2, <5>1, Zenon
      <4>3. g[i + 1] \in Seq(T) /\ Els(g[i + 1]) = Els(g[i]) \cup Els(ss[i + 1])
        BY <3>1, <4>1, <4>2, ElsConcat DEF Joined
      <4>4. Els(g[i + 1]) = UNION {Els(ss[j]) : j \in 1..(i + 1)}
        BY <3>1, <4>1, <4>3 DEF Joined
      <4>5. Joined(T, ss, g[i + 1], i + 1)
        BY <4>3, <4>4 DEF Joined
      <4> QED
        BY <3>1, <4>5
    <3> QED
      BY <3>3, <3>4
  <2>6. \A i \in 0..(Len(ss) - 1) : i \in P => i + 1 \in P
    BY <2>5
  <2> HIDE DEF P
  <2>7. \A i \in 0..Len(ss) : i \in P
    BY <1>0, <2>4, <2>6, Upto
  <2>8. Len(ss) \in P
    BY <1>0, <2>7
  <2> QED
    BY <1>2, <2>2, <2>8 DEF P, Joined
<1> QED
  BY <1>1, <1>2

(* The elements so far, in order, below all the others.                    *)
Begun(H, k, s) ==
    /\ s \in [1..k -> H]
    /\ \A i, j \in 1..k : i < j => s[i] < s[j]
    /\ \A h \in H : (\E i \in 1..k : s[i] = h) \/ (\A i \in 1..k : s[i] < h)

LEMMA AscendingType ==
    ASSUME NEW H \in SUBSET Nat, IsFiniteSet(H)
    PROVE  Ascending(H) \in Seq(H) /\ Els(Ascending(H)) = H
<1>0. Cardinality(H) \in Nat
  BY FS_CardinalityType
<1> DEFINE P == {k \in 0..Cardinality(H) : \E s : Begun(H, k, s)}
<1>1. 0 \in P
  <2>1. PICK s : s = [i \in 1..0 |-> 0]
    OBVIOUS
  <2>2. Begun(H, 0, s)
    BY <2>1 DEF Begun
  <2> QED
    BY <1>0, <2>2
<1>2. ASSUME NEW k \in 0..(Cardinality(H) - 1), k \in P PROVE k + 1 \in P
  <2>1. PICK s : Begun(H, k, s)
    BY <1>2
  <2>2. PICK R : R = {h \in H : \A i \in 1..k : s[i] < h}
    OBVIOUS
  <2>3. k \in Nat /\ k + 1 \in 0..Cardinality(H) /\ s \in [1..k -> H]
    BY <1>0, <2>1 DEF Begun
  <2>4. R # {}
    <3>1. SUFFICES ASSUME R = {} PROVE FALSE
      OBVIOUS
    <3>2. \A h \in H : \E i \in 1..k : s[i] = h
      BY <2>1, <2>2, <3>1 DEF Begun
    <3>3. s \in Surjection(1..k, H)
      BY <2>3, <3>2 DEF Surjection
    <3>4. IsFiniteSet(1..k) /\ Cardinality(1..k) = k
      BY <2>3, FS_Interval
    <3>5. Cardinality(H) <= k
      BY <3>3, <3>4, FS_Surjection
    <3> QED
      BY <1>0, <2>3, <3>5
  <2>5. PICK m \in R : \A h \in R : m <= h
    BY <2>2, <2>4, LowestType
  <2>6. PICK t : t = [i \in 1..(k + 1) |-> IF i = k + 1 THEN m ELSE s[i]]
    OBVIOUS
  <2>7. /\ \A i \in 1..k : t[i] = s[i] /\ s[i] < m /\ s[i] \in H
        /\ t[k + 1] = m /\ m \in H
    BY <2>2, <2>3, <2>5, <2>6
  <2>8. t \in [1..(k + 1) -> H]
    BY <2>3, <2>6, <2>7
  <2>9. \A i, j \in 1..(k + 1) : i < j => t[i] < t[j]
    <3>1. TAKE i, j \in 1..(k + 1)
    <3>2. CASE j = k + 1
      BY <2>3, <2>7, <3>2
    <3>3. CASE j # k + 1
      BY <2>1, <2>3, <2>7, <3>3 DEF Begun
    <3> QED
      BY <3>2, <3>3
  <2>10. ASSUME NEW h \in H
         PROVE  (\E i \in 1..(k + 1) : t[i] = h) \/ (\A i \in 1..(k + 1) : t[i] < h)
    <3>1. CASE \E i \in 1..k : s[i] = h
      BY <2>3, <2>7, <3>1
    <3>2. CASE h \in R /\ h = m
      BY <2>3, <2>7, <3>2
    <3>3. CASE h \in R /\ h # m
      <4>1. m < h
        BY <2>5, <2>7, <3>3
      <4> QED
        BY <2>2, <2>3, <2>7, <3>3, <4>1
    <3> QED
      BY <2>1, <2>2, <3>1, <3>2, <3>3 DEF Begun
  <2>11. Begun(H, k + 1, t)
    BY <2>8, <2>9, <2>10 DEF Begun
  <2> QED
    BY <2>3, <2>11
<1>3. Cardinality(H) \in P
  <2> HIDE DEF P
  <2> QED
    BY <1>0, <1>1, <1>2, Upto
<1>4. PICK s : Begun(H, Cardinality(H), s)
  BY <1>3
<1>5. /\ Ascending(H) \in [1..Cardinality(H) -> H]
      /\ \A i, j \in 1..Cardinality(H) : i < j => Ascending(H)[i] < Ascending(H)[j]
  BY <1>4 DEF Begun, Ascending
<1>6. Ascending(H) \in Seq(H) /\ Len(Ascending(H)) = Cardinality(H)
  BY <1>0, <1>5
<1>7. Els(Ascending(H)) = H
  <2>1. PICK a \in [1..Cardinality(H) -> H] : a = Ascending(H)
    BY <1>5
  <2>2. a \in Injection(1..Cardinality(H), H)
    <3>1. \A i, j \in 1..Cardinality(H) : i < j => a[i] < a[j]
      BY <1>5, <2>1
    <3>2. ASSUME NEW i \in 1..Cardinality(H), NEW j \in 1..Cardinality(H), a[i] = a[j]
          PROVE  i = j
      <4>0. i \in Nat /\ j \in Nat
        BY <1>0
      <4>1. PICK n \in Nat : n = a[i] /\ n = a[j]
        <5>1. a[i] \in H
          OBVIOUS
        <5> QED
          BY <3>2, <5>1
      <4>2. ~(i < j) /\ ~(j < i)
        BY <3>1, <3>2, <4>1
      <4> QED
        BY <4>0, <4>2
    <3> QED
      BY <3>2 DEF Injection, IsInjective
  <2>3. IsFiniteSet(1..Cardinality(H)) /\ Cardinality(1..Cardinality(H)) = Cardinality(H)
    BY <1>0, FS_Interval
  <2>4. a \in Surjection(1..Cardinality(H), H)
    BY <2>2, <2>3, FS_Injection
  <2>5. \A h \in H : \E i \in 1..Cardinality(H) : a[i] = h
    BY <2>4 DEF Surjection
  <2> QED
    BY <1>6, <2>1, <2>5 DEF Els
<1> QED
  BY <1>6, <1>7

(* The peer *)

(* What the peer has sent fits the request under way, but for the number   *)
(* of filter hashes and the height of the block.                           *)
Fits(s, in, g) ==
    \/ /\ s.op = "headers" /\ g = {}
       /\ \E bs \in Seq(Blocks) : in = <<[op |-> "headers", blocks |-> bs]>>
    \/ /\ s.op \in {"prime", "filter"} /\ g = {}
       /\ s.block \in Blocks /\ s.height \in 1..Height(s.block)
       /\ in = <<CFHeaders(s.height, s.block)>>
    \/ /\ s.op = "mweb" /\ s.block \in Blocks
       /\ \/ /\ g = {}
             /\ in = <<[op |-> "mwebheader", block |-> s.block],
                       [op |-> "mwebleafset", block |-> s.block]>>
          \/ /\ g = {"mwebheader"} /\ Height(s.block) = s.height
             /\ in = <<[op |-> "mwebleafset", block |-> s.block]>>
          \/ g = {} /\ in = <<[op |-> "notfound", block |-> s.block]>>

Talk ==
    /\ ppc = "waiting" => steps # <<>>
    /\ ppc \notin {"waiting", "failed"} => inbox = <<>> /\ got = {}
    /\ ppc = "waiting" /\ asked => inbox = <<>> /\ got = {}
    /\ ppc = "waiting" /\ ~asked => Fits(Head(steps), inbox, got)

(* Before the blocks at the heights asked for are known, and after.        *)
Locating == steps # <<>> /\ Tail(steps) = <<>> /\ Head(steps).op = "headers"

Heeded == /\ IsFiniteSet(heights)
          /\ heights = {0} \/ 0 \notin heights

PairSet(F) == F \subseteq Nat \X Blocks /\ \A p, q \in F : p[1] = q[1] => p = q

(* Of F the filter headers and of M the MWEB data are to be fetched, or    *)
(* have been.                                                              *)
Fetches(F, M) ==
    /\ \A s \in Els(steps) :
         /\ s.op # "headers" /\ s.block \in Blocks
         /\ s.op = "filter" => <<s.height, s.block>> \in F
         /\ s.op = "mweb" => <<s.height, s.block>> \in M
    /\ \A p \in F : \/ Step("filter", p[1], p[2]) \in Els(steps)
                    \/ Height(p[2]) = p[1] /\ filters[p[1]] = p[2]
    /\ \A p \in M : \/ Step("mweb", p[1], p[2]) \in Els(steps)
                    \/ Height(p[2]) = p[1] /\ mweb[p[1]] = p[2]

PeerFacts == /\ PeerTypeOK /\ Talk /\ Heeded
             /\ \A s \in Els(steps) : s.op # "headers" => s.block \in Blocks

PeerStep == ClientSteps \/ PeerAnswers \/ PeerMoves
-------------------------------------------------------------------------------
LEMMA HeadType ==
    ASSUME PeerTypeOK, steps # <<>>
    PROVE  /\ Head(steps) \in Steps /\ Tail(steps) \in Seq(Steps)
           /\ Els(steps) = {Head(steps)} \cup Els(Tail(steps))
<1>1. steps \in Seq(Steps)
  BY DEF PeerTypeOK
<1> QED
  BY <1>1, ElsHead

LEMMA HashesHeld ==
    ASSUME NEW H \in SUBSET Nat, IsFiniteSet(H), NEW hs \in Seq(Blocks), H \subseteq 1..Len(hs)
    PROVE  /\ ByHash(H, hs) \in Seq(Steps)
           /\ Els(ByHash(H, hs)) = UNION {{Step("filter", h, hs[h]), Step("prime", h, hs[h]),
                                           Step("mweb", h, hs[h])} : h \in H}
<1>1. PICK s \in Seq(H) : s = Ascending(H) /\ Els(s) = H
  BY AscendingType
<1>2. Len(s) \in Nat /\ \A i \in 1..Len(s) : s[i] \in H /\ s[i] \in Nat /\ hs[s[i]] \in Blocks
  <2>1. Len(s) \in Nat /\ \A i \in 1..Len(s) : s[i] \in H
    BY <1>1
  <2>2. \A h \in H : h \in Nat /\ h \in 1..Len(hs) /\ hs[h] \in Blocks
    OBVIOUS
  <2> QED
    BY <2>1, <2>2
<1>3. \A h \in H : \E i \in 1..Len(s) : s[i] = h
  BY <1>1 DEF Els
<1>4. PICK a : a = [i \in 1..Len(s) |-> Step("filter", s[i], hs[s[i]])]
  OBVIOUS
<1>5. a \in Seq(Steps) /\ Els(a) = {Step("filter", h, hs[h]) : h \in H}
  <2>1. \A i \in 1..Len(s) : Step("filter", s[i], hs[s[i]]) \in Steps
    BY <1>2 DEF Step, Steps
  <2>2. a \in Seq(Steps) /\ Len(a) = Len(s)
    BY <1>2, <1>4, <2>1
  <2>3. Els(a) = {Step("filter", s[i], hs[s[i]]) : i \in 1..Len(s)}
    BY <1>4, <2>2 DEF Els
  <2> QED
    BY <1>2, <1>3, <2>2, <2>3
<1>6. PICK m : m = [i \in 1..Len(s) |-> MwebSteps(s[i], hs[s[i]])]
  OBVIOUS
<1>7. ASSUME NEW i \in 1..Len(s)
      PROVE  /\ m[i] \in Seq(Steps)
             /\ Els(m[i]) = {Step("prime", s[i], hs[s[i]]), Step("mweb", s[i], hs[s[i]])}
  <2>1. PICK p \in Steps, q \in Steps :
          p = Step("prime", s[i], hs[s[i]]) /\ q = Step("mweb", s[i], hs[s[i]])
    BY <1>2 DEF Step, Steps
  <2>2. m[i] = <<p, q>>
    BY <1>6, <2>1 DEF MwebSteps
  <2>3. Els(<<p, q>>) = {p, q} /\ <<p, q>> \in Seq(Steps)
    BY DEF Els
  <2> QED
    BY <2>1, <2>2, <2>3
<1>8. m \in Seq(Seq(Steps)) /\ Len(m) = Len(s)
  <2>1. PICK T : T = Seq(Steps)
    OBVIOUS
  <2>2. \A i \in 1..Len(s) : m[i] \in T
    BY <1>7, <2>1
  <2>3. m \in [1..Len(s) -> T]
    BY <1>6, <2>2
  <2>4. m \in Seq(T) /\ Len(m) = Len(s)
    BY <1>2, <1>6, <2>3
  <2> QED
    BY <2>1, <2>4
<1>9. /\ FlattenSeq(m) \in Seq(Steps)
      /\ Els(FlattenSeq(m)) = UNION {Els(m[i]) : i \in 1..Len(s)}
  BY <1>8, FlattenEls
<1>10. ByHash(H, hs) = a \o FlattenSeq(m)
  BY <1>1, <1>4, <1>6 DEF ByHash
<1>11. ByHash(H, hs) \in Seq(Steps) /\ Els(ByHash(H, hs)) = Els(a) \cup Els(FlattenSeq(m))
  BY <1>5, <1>9, <1>10, ElsConcat
<1>12. Els(FlattenSeq(m)) = UNION {{Step("prime", h, hs[h]), Step("mweb", h, hs[h])} : h \in H}
  <2>1. Els(FlattenSeq(m)) = UNION {{Step("prime", s[i], hs[s[i]]), Step("mweb", s[i], hs[s[i]])} :
                                    i \in 1..Len(s)}
    BY <1>7, <1>9
  <2>2. \A x : (\E i \in 1..Len(s) : x \in {Step("prime", s[i], hs[s[i]]), Step("mweb", s[i], hs[s[i]])})
               <=> (\E h \in H : x \in {Step("prime", h, hs[h]), Step("mweb", h, hs[h])})
    BY <1>2, <1>3
  <2> DEFINE R == UNION {{Step("prime", h, hs[h]), Step("mweb", h, hs[h])} : h \in H}
  <2>3. \A x : x \in R <=> \E h \in H : x \in {Step("prime", h, hs[h]), Step("mweb", h, hs[h])}
    OBVIOUS
  <2> DEFINE Pair(i) == {Step("prime", s[i], hs[s[i]]), Step("mweb", s[i], hs[s[i]])}
  <2>4. \A x : x \in Els(FlattenSeq(m)) <=> \E i \in 1..Len(s) : x \in Pair(i)
    <3> HIDE DEF Pair
    <3>1. Els(FlattenSeq(m)) = UNION {Pair(i) : i \in 1..Len(s)}
      BY <2>1 DEF Pair
    <3> QED
      BY <3>1
  <2> HIDE DEF R
  <2>5. \A x : x \in Els(FlattenSeq(m)) <=> x \in R
    BY <2>2, <2>3, <2>4
  <2>6. Els(FlattenSeq(m)) = R
    BY <2>5
  <2> QED
    BY <2>6 DEF R
<1> QED
  BY <1>5, <1>11, <1>12

LEMMA TipHeld ==
    ASSUME NEW h \in Nat, NEW b \in Blocks
    PROVE  /\ TipSteps(h, b) \in Seq(Steps)
           /\ Els(TipSteps(h, b)) = {Step("filter", h, b), Step("prime", h, b), Step("mweb", h, b)}
<1>1. PICK p \in Steps, q \in Steps, r \in Steps :
        p = Step("prime", h, b) /\ q = Step("mweb", h, b) /\ r = Step("filter", h, b)
  <2>1. b \in Blocks \cup {None}
    OBVIOUS
  <2>2. \A op \in {"prime", "mweb", "filter"} : Step(op, h, b) \in Steps
    BY <2>1 DEF Step, Steps
  <2> QED
    BY <2>2
<1>2. TipSteps(h, b) = <<p, q>> \o <<r>>
  BY <1>1 DEF TipSteps, MwebSteps
<1>3. PICK u \in Seq(Steps), v \in Seq(Steps) :
        u = <<p, q>> /\ v = <<r>> /\ Els(u) = {p, q} /\ Els(v) = {r}
  <2>1. /\ <<p, q>> \in Seq(Steps) /\ <<r>> \in Seq(Steps)
        /\ Els(<<p, q>>) = {p, q} /\ Els(<<r>>) = {r}
    BY DEF Els
  <2> QED
    BY <2>1
<1>4. u \o v \in Seq(Steps) /\ Els(u \o v) = {p, q} \cup {r}
  <2>1. u \o v \in Seq(Steps) /\ Els(u \o v) = Els(u) \cup Els(v)
    BY ElsConcat
  <2> QED
    BY <1>3, <2>1, Zenon
<1>5. TipSteps(h, b) = u \o v
  BY <1>2, <1>3, Zenon
<1> QED
  BY <1>1, <1>4, <1>5

LEMMA FollowingType ==
    ASSUME NEW b \in Blocks \cup {None}, peerTip \in Blocks
    PROVE  FollowingHeaders(b) \in Seq(Blocks)
<1>1. PICK from \in Nat : from >= 1 /\ from = IF b # None /\ On(b, peerTip) THEN Height(b) + 1 ELSE 1
  BY HeightType
<1>2. PICK s \in Seq(Blocks) : s = Path[peerTip] /\ Len(s) = Height(peerTip)
  BY PathAssumption DEF Height
<1>3. PICK to \in Int : /\ to = (IF from + Batch - 1 < Height(peerTip) THEN from + Batch - 1
                                 ELSE Height(peerTip))
                        /\ to <= Len(s)
  BY <1>2, PeerAssumption
<1>4. FollowingHeaders(b) = SubSeq(s, from, to)
  BY <1>1, <1>2, <1>3 DEF FollowingHeaders
<1>5. SubSeq(s, from, to) \in Seq(Blocks)
  <2>1. \A i \in from..to : i \in 1..Len(s) /\ s[i] \in Blocks
    BY <1>1, <1>3
  <2> QED
    BY <1>1, <1>3, <2>1
<1> QED
  BY <1>4, <1>5

(* The peer has been asked. *)
LEMMA AnswerFits ==
    ASSUME PeerFacts, PeerAnswers
    PROVE  /\ inbox' \in Seq(Messages) /\ Fits(Head(steps), inbox', got)
           /\ asked' = FALSE /\ UNCHANGED <<remoteVars, complaint, ppc, fetchVars>>
<1>1. /\ ppc = "waiting" /\ asked /\ steps # <<>> /\ inbox = <<>> /\ got = {} /\ peerTip \in Blocks
  BY DEF PeerAnswers, PeerFacts, Talk, PeerTypeOK
<1>2. PICK s \in Steps : s = Head(steps) /\ s \in Els(steps)
  BY <1>1, HeadType DEF PeerFacts
<1>3. s.height \in Nat /\ s.block \in Blocks \cup {None} /\ (s.op # "headers" => s.block \in Blocks)
  BY <1>2 DEF Steps, PeerFacts
<1>4. asked' = FALSE /\ UNCHANGED <<remoteVars, complaint, ppc, fetchVars>>
  BY DEF PeerAnswers, Reply
<1>5. \A m : inbox \o <<m>> = <<m>> /\ \A n : inbox \o <<m, n>> = <<m, n>>
  BY <1>1
<1>6. CASE s.op = "headers" /\ Reply(<<[op |-> "headers", blocks |-> FollowingHeaders(s.block)]>>)
  <2>1. PICK bs \in Seq(Blocks) : bs = FollowingHeaders(s.block)
    BY <1>1, <1>3, FollowingType
  <2>2. inbox' = <<[op |-> "headers", blocks |-> bs]>>
    BY <1>5, <1>6, <2>1 DEF Reply
  <2>3. [op |-> "headers", blocks |-> bs] \in Messages
    BY DEF Messages
  <2>4. inbox' \in Seq(Messages)
    BY <2>2, <2>3
  <2> QED
    BY <1>1, <1>2, <1>4, <1>6, <2>2, <2>4 DEF Fits
<1>7. CASE /\ s.op \in {"prime", "filter"} /\ s.height \in 1..Height(s.block)
           /\ Reply(<<CFHeaders(s.height, s.block)>>)
  <2>1. inbox' = <<CFHeaders(s.height, s.block)>>
    BY <1>5, <1>7 DEF Reply
  <2>2. s.block \in Blocks /\ Height(s.block) - s.height + 1 \in Nat /\ Path[s.block][s.height] \in Blocks
    BY <1>3, <1>7, HeightType, AtType
  <2>3. CFHeaders(s.height, s.block) \in Messages
    BY <2>2 DEF CFHeaders, Messages
  <2>4. inbox' \in Seq(Messages)
    BY <2>1, <2>3
  <2> QED
    BY <1>1, <1>2, <1>4, <1>7, <2>1, <2>2, <2>4 DEF Fits
<1>8. CASE /\ s.op = "mweb"
           /\ Reply(<<[op |-> "mwebheader", block |-> s.block],
                      [op |-> "mwebleafset", block |-> s.block]>>)
  <2>1. inbox' = <<[op |-> "mwebheader", block |-> s.block],
                   [op |-> "mwebleafset", block |-> s.block]>>
    BY <1>5, <1>8 DEF Reply
  <2>2. /\ [op |-> "mwebheader", block |-> s.block] \in Messages
        /\ [op |-> "mwebleafset", block |-> s.block] \in Messages
    BY <1>3, <1>8 DEF Messages
  <2>3. inbox' \in Seq(Messages)
    BY <2>1, <2>2
  <2> QED
    BY <1>1, <1>2, <1>3, <1>4, <1>8, <2>1, <2>3 DEF Fits
<1>9. CASE s.op = "mweb" /\ Reply(<<[op |-> "notfound", block |-> s.block]>>)
  <2>1. inbox' = <<[op |-> "notfound", block |-> s.block]>>
    BY <1>5, <1>9 DEF Reply
  <2>2. [op |-> "notfound", block |-> s.block] \in Messages
    BY <1>3, <1>9 DEF Messages
  <2>3. inbox' \in Seq(Messages)
    BY <2>1, <2>2
  <2> QED
    BY <1>1, <1>2, <1>3, <1>4, <1>9, <2>1, <2>3 DEF Fits
<1> QED
  BY <1>2, <1>6, <1>7, <1>8, <1>9 DEF PeerAnswers

(* What is taken from the channel. *)
LEMMA TakenFits ==
    ASSUME PeerFacts, NEW op, Taken(op)
    PROVE  /\ steps # <<>> /\ Head(steps) \in Steps /\ Head(steps) \in Els(steps)
           /\ Head(steps).op = op /\ Tail(steps) \in Seq(Steps)
           /\ Els(Tail(steps)) \subseteq Els(steps)
           /\ Fits(Head(steps), inbox, got) /\ ~asked /\ ppc = "waiting"
           /\ inbox' = Tail(inbox) /\ inbox' \in Seq(Messages)
           /\ UNCHANGED <<remoteVars, complaint, asked>>
<1>1. steps # <<>> /\ ~asked /\ ppc = "waiting" /\ Fits(Head(steps), inbox, got)
  BY DEF Taken, PeerFacts, Talk, PeerTypeOK
<1>2. inbox \in Seq(Messages) /\ inbox # <<>>
  BY DEF Taken, PeerFacts, PeerTypeOK
<1>3. Tail(inbox) \in Seq(Messages)
  BY <1>2
<1> QED
  BY <1>1, <1>3, HeadType DEF Taken, PeerFacts

LEMMA HeadersTaken ==
    ASSUME PeerFacts, TakeHeaders
    PROVE  /\ inbox' = <<>> /\ got = {} /\ UNCHANGED <<got, filters, mweb>>
           /\ \/ ppc' = "failed" /\ UNCHANGED <<heights, hashes, steps>>
              \/ /\ ppc' = "ready" /\ hashes' \in Seq(Blocks)
                 /\ heights' \subseteq Nat /\ Heeded' /\ steps' \in Seq(Steps)
                 /\ \/ \E b \in Blocks : steps' = <<Step("headers", 0, b)>>
                    \/ /\ heights' \subseteq 1..Len(hashes')
                       /\ Els(steps') = UNION {{Step("filter", h, hashes'[h]), Step("prime", h, hashes'[h]),
                                                Step("mweb", h, hashes'[h])} : h \in heights'}
<1>1. Fits(Head(steps), inbox, got) /\ Head(steps).op = "headers" /\ inbox' = Tail(inbox)
  BY TakenFits DEF TakeHeaders
<1>2. PICK bs \in Seq(Blocks) : inbox = <<[op |-> "headers", blocks |-> bs]>> /\ got = {}
  BY <1>1 DEF Fits
<1>3. inbox' = <<>> /\ Came.blocks = bs
  BY <1>1, <1>2 DEF Came
<1>4. UNCHANGED <<got, filters, mweb>>
  BY DEF TakeHeaders
<1>5. heights \in SUBSET Nat /\ hashes \in Seq(Blocks) /\ Heeded
  BY DEF PeerFacts, PeerTypeOK
<1>6. CASE bs = <<>>
  BY <1>2, <1>3, <1>4, <1>6 DEF TakeHeaders
<1>7. CASE bs # <<>>
  <2>1. PICK hs \in Seq(Blocks) : hs = hashes \o bs /\ Len(hs) >= 1 /\ Len(hs) \in Nat
    <3>1. PICK s \in Seq(Blocks) : s = hashes
      BY <1>5
    <3>2. /\ s \o bs \in Seq(Blocks) /\ Len(s \o bs) = Len(s) + Len(bs)
          /\ Len(s) \in Nat /\ Len(bs) \in Nat /\ Len(bs) >= 1
      BY <1>7
    <3>3. Len(s \o bs) >= 1 /\ Len(s \o bs) \in Nat
      BY <3>2
    <3> QED
      BY <3>1, <3>2, <3>3
  <2>2. ppc' = "ready" /\ hashes' = hs
    BY <1>3, <1>7, <2>1 DEF TakeHeaders
  <2>3. PICK b \in Blocks : b = Last(hs) /\ b = hs[Len(hs)]
    BY <2>1 DEF Last
  <2>4. CASE /\ heights = {0} /\ heights' = {Len(hs)}
             /\ steps' = TipSteps(Len(hs), b)
    <3>1. heights' \subseteq 1..Len(hs) /\ IsFiniteSet(heights') /\ 0 \notin heights'
          /\ heights' \subseteq Nat
      <4>1. PICK n \in Nat : n = Len(hs) /\ n >= 1
        BY <2>1
      <4>2. heights' = {n} /\ IsFiniteSet({n})
        BY <2>4, <4>1, FS_Singleton
      <4>3. n \in 1..Len(hs) /\ n # 0
        BY <4>1
      <4> QED
        BY <4>2, <4>3
    <3>2. /\ steps' \in Seq(Steps)
          /\ Els(steps') = {Step("filter", Len(hs), b), Step("prime", Len(hs), b), Step("mweb", Len(hs), b)}
      BY <2>1, <2>4, TipHeld
    <3>3. Els(steps') = UNION {{Step("filter", h, hs[h]), Step("prime", h, hs[h]),
                                Step("mweb", h, hs[h])} : h \in heights'}
      <4>1. heights' = {Len(hs)} /\ hs[Len(hs)] = b
        BY <2>3, <2>4
      <4>2. PICK H : H = heights' /\ H = {Len(hs)}
        BY <4>1
      <4>3. UNION {{Step("filter", h, hs[h]), Step("prime", h, hs[h]), Step("mweb", h, hs[h])} : h \in H}
            = {Step("filter", Len(hs), b), Step("prime", Len(hs), b), Step("mweb", Len(hs), b)}
        <5> DEFINE U == {{Step("filter", h, hs[h]), Step("prime", h, hs[h]), Step("mweb", h, hs[h])} : h \in H}
        <5>1. U = {{Step("filter", Len(hs), b), Step("prime", Len(hs), b), Step("mweb", Len(hs), b)}}
          BY <4>1, <4>2
        <5> HIDE DEF U
        <5>2. UNION U = {Step("filter", Len(hs), b), Step("prime", Len(hs), b), Step("mweb", Len(hs), b)}
          BY <5>1
        <5> QED
          BY <5>2 DEF U
      <4> QED
        BY <3>2, <4>2, <4>3
    <3> QED
      BY <1>2, <1>3, <1>4, <2>2, <3>1, <3>2, <3>3 DEF Heeded
  <2>5. CASE /\ heights # {0} /\ \A h \in heights : h <= Len(hs)
             /\ steps' = ByHash(heights, hs) /\ UNCHANGED heights
    <3>1. heights \subseteq 1..Len(hs) /\ IsFiniteSet(heights)
      <4>1. IsFiniteSet(heights) /\ 0 \notin heights
        BY <1>5, <2>5 DEF Heeded
      <4>2. \A h \in heights : h \in Nat /\ h # 0 /\ h <= Len(hs)
        BY <1>5, <2>5, <4>1
      <4> QED
        BY <2>1, <4>1, <4>2
    <3>2. /\ steps' \in Seq(Steps)
          /\ Els(steps') = UNION {{Step("filter", h, hs[h]), Step("prime", h, hs[h]),
                                   Step("mweb", h, hs[h])} : h \in heights}
      BY <1>5, <2>5, <3>1, HashesHeld
    <3> QED
      BY <1>2, <1>3, <1>4, <1>5, <2>2, <2>5, <3>1, <3>2 DEF Heeded
  <2>6. CASE steps' = <<Step("headers", 0, b)>> /\ UNCHANGED heights
    <3>1. Step("headers", 0, b) \in Steps
      BY DEF Step, Steps
    <3>2. steps' \in Seq(Steps)
      BY <2>6, <3>1
    <3> QED
      BY <1>2, <1>3, <1>4, <1>5, <2>2, <2>6, <3>2 DEF Heeded
  <2> QED
    BY <1>3, <1>7, <2>2, <2>3, <2>4, <2>5, <2>6 DEF TakeHeaders
<1> QED
  BY <1>6, <1>7

LEMMA CFHeadersFits ==
    ASSUME NEW s, NEW in, NEW g, s.op \in {"prime", "filter"}, Fits(s, in, g)
    PROVE  /\ s.block \in Blocks /\ s.height \in 1..Height(s.block) /\ g = {}
           /\ Head(in) = CFHeaders(s.height, s.block) /\ Tail(in) = <<>>
<1>1. /\ s.block \in Blocks /\ s.height \in 1..Height(s.block) /\ g = {}
      /\ in = <<CFHeaders(s.height, s.block)>>
  BY DEF Fits
<1>2. PICK m : m = CFHeaders(s.height, s.block)
  OBVIOUS
<1>3. Head(<<m>>) = m /\ Tail(<<m>>) = <<>>
  OBVIOUS
<1> QED
  BY <1>1, <1>2, <1>3

LEMMA PrimedTaken ==
    ASSUME PeerFacts, TakePrimed
    PROVE  /\ inbox' = <<>> /\ got = {} /\ ppc' = "ready" /\ steps' = Tail(steps)
           /\ UNCHANGED <<heights, hashes, got, filters, mweb>>
<1>1. Fits(Head(steps), inbox, got) /\ Head(steps).op = "prime" /\ inbox' = Tail(inbox)
  BY TakenFits DEF TakePrimed
<1>2. Tail(inbox) = <<>> /\ got = {}
  BY <1>1, CFHeadersFits
<1> QED
  BY <1>1, <1>2 DEF TakePrimed

LEMMA FilterTaken ==
    ASSUME PeerFacts, TakeFilter, NEW s, s = Head(steps)
    PROVE  /\ inbox' = <<>> /\ got = {} /\ UNCHANGED <<heights, hashes, got, mweb>>
           /\ \/ ppc' = "failed" /\ UNCHANGED <<steps, filters>>
              \/ /\ ppc' = "ready" /\ steps' = Tail(steps)
                 /\ s.op = "filter" /\ s.block \in Blocks
                 /\ s.height \in Heights /\ Height(s.block) = s.height
                 /\ filters' = [filters EXCEPT ![s.height] = s.block]
<1>1. Fits(s, inbox, got) /\ s.op = "filter" /\ inbox' = Tail(inbox)
  BY TakenFits DEF TakeFilter
<1>2. /\ s.block \in Blocks /\ s.height \in 1..Height(s.block)
      /\ Came = CFHeaders(s.height, s.block) /\ inbox' = <<>> /\ got = {}
  BY <1>1, CFHeadersFits DEF Came
<1>3. Came.count = Height(s.block) - s.height + 1 /\ Came.block = Path[s.block][s.height]
  BY <1>2 DEF CFHeaders
<1>4. UNCHANGED <<heights, hashes, got, mweb>>
  BY DEF TakeFilter
<1>5. CASE Came.count = 1 /\ KeepFilter
  <2>1. PICK h \in Nat, k \in Nat : h = s.height /\ k = Height(s.block) /\ h \in 1..k /\ k - h + 1 = 1
    BY <1>2, <1>3, <1>5, HeightType
  <2>2. Height(s.block) = s.height
    BY <2>1
  <2>3. Came.block = s.block /\ s.height \in Heights
    BY <1>2, <1>3, <2>2, OnTip, HeightIn
  <2> QED
    BY <1>1, <1>2, <1>4, <1>5, <2>2, <2>3 DEF KeepFilter
<1>6. CASE ppc' = "failed" /\ UNCHANGED <<steps, filters>>
  BY <1>2, <1>4, <1>6
<1> QED
  BY <1>5, <1>6 DEF TakeFilter

LEMMA MwebTaken ==
    ASSUME PeerFacts, TakeMweb, NEW s, s = Head(steps)
    PROVE  /\ UNCHANGED <<heights, hashes, filters>> /\ s.op = "mweb"
           /\ \/ ppc' = "failed" /\ UNCHANGED <<steps, got, mweb>>
              \/ /\ UNCHANGED <<ppc, steps, mweb>> /\ got' = {"mwebheader"}
                 /\ Fits(s, inbox', got')
              \/ /\ ppc' = "ready" /\ steps' = Tail(steps) /\ inbox' = <<>> /\ got' = {}
                 /\ s.block \in Blocks /\ s.height \in Heights /\ Height(s.block) = s.height
                 /\ mweb' = [mweb EXCEPT ![s.height] = s.block]
<1>1. Fits(s, inbox, got) /\ s.op = "mweb" /\ inbox' = Tail(inbox)
  BY TakenFits DEF TakeMweb
<1>2. UNCHANGED <<heights, hashes, filters>> /\ s.op = "mweb" /\ s.block \in Blocks
  BY <1>1 DEF TakeMweb, Fits
<1>3. ASSUME NEW have, have = got \cup {Came.op},
             \/ Came.op = "notfound"
             \/ Came.op = "mwebheader" /\ Height(Came.block) # s.height
      PROVE  ppc' = "failed" /\ UNCHANGED <<steps, got, mweb>>
  BY <1>3 DEF TakeMweb
<1>7. ASSUME NEW n, n = Cardinality(got \cup {Came.op}), n \in {1, 2},
             Came.op # "notfound", Came.op # "mwebheader" \/ Height(Came.block) = s.height
      PROVE  \/ n = 1 /\ got' = got \cup {Came.op} /\ UNCHANGED <<ppc, steps, mweb>>
             \/ /\ n = 2 /\ mweb' = [mweb EXCEPT ![s.height] = Came.block]
                /\ got' = {} /\ steps' = Tail(steps) /\ ppc' = "ready"
  BY <1>7 DEF TakeMweb
<1>4. CASE /\ got = {}
           /\ inbox = <<[op |-> "mwebheader", block |-> s.block],
                        [op |-> "mwebleafset", block |-> s.block]>>
  <2>1. Came.op = "mwebheader" /\ Came.block = s.block
        /\ inbox' = <<[op |-> "mwebleafset", block |-> s.block]>>
    BY <1>1, <1>4 DEF Came
  <2>2. CASE Height(s.block) # s.height
    BY <1>2, <1>3, <2>1, <2>2
  <2>3. CASE Height(s.block) = s.height
    <3>1. got \cup {Came.op} = {"mwebheader"} /\ Cardinality({"mwebheader"}) = 1
      BY <1>4, <2>1, FS_Singleton
    <3>2. got' = {"mwebheader"} /\ UNCHANGED <<ppc, steps, mweb>>
      <4>1. Cardinality(got \cup {Came.op}) = 1
        BY <3>1, Zenon
      <4>2. got' = got \cup {Came.op} /\ UNCHANGED <<ppc, steps, mweb>>
        BY <1>7, <2>1, <2>3, <4>1
      <4> QED
        BY <3>1, <4>2
    <3>3. Fits(s, inbox', got')
      BY <1>1, <1>2, <2>1, <2>3, <3>2 DEF Fits
    <3> QED
      BY <1>2, <3>2, <3>3
  <2> QED
    BY <2>2, <2>3
<1>5. CASE /\ got = {"mwebheader"} /\ Height(s.block) = s.height
           /\ inbox = <<[op |-> "mwebleafset", block |-> s.block]>>
  <2>1. Came.op = "mwebleafset" /\ Came.block = s.block /\ inbox' = <<>>
    BY <1>1, <1>5 DEF Came
  <2>2. got \cup {Came.op} = {"mwebheader", "mwebleafset"}
    BY <1>5, <2>1
  <2>3. Cardinality({"mwebheader", "mwebleafset"}) = 2
    <3>1. {"mwebheader"} \cup {"mwebleafset"} = {"mwebheader", "mwebleafset"}
      OBVIOUS
    <3>2. IsFiniteSet({"mwebheader"}) /\ Cardinality({"mwebheader"}) = 1
      BY FS_Singleton
    <3> QED
      BY <3>1, <3>2, FS_AddElement
  <2>4. /\ mweb' = [mweb EXCEPT ![s.height] = s.block]
        /\ got' = {} /\ steps' = Tail(steps) /\ ppc' = "ready"
    BY <1>5, <1>7, <2>1, <2>2, <2>3
  <2> QED
    BY <1>2, <1>5, <2>1, <2>4, HeightIn
<1>6. CASE got = {} /\ inbox = <<[op |-> "notfound", block |-> s.block]>>
  <2>1. Came.op = "notfound"
    BY <1>6 DEF Came
  <2> QED
    BY <1>2, <1>3, <2>1
<1> QED
  BY <1>1, <1>4, <1>5, <1>6 DEF Fits

(* A step after which nothing lies in the channel.                         *)
LEMMA QuietFacts ==
    ASSUME PeerFacts, inbox' = <<>>, got' = {}, ppc' \in {"ready", "done", "off"},
           UNCHANGED <<remoteVars, complaint, asked>>,
           steps' \in Seq(Steps),
           \A s \in Els(steps') : s.op # "headers" => s.block \in Blocks,
           hashes' \in Seq(Blocks), heights' \subseteq Nat, Heeded',
           filters' \in [Heights -> Blocks \cup {None}], mweb' \in [Heights -> Blocks \cup {None}]
    PROVE  PeerFacts'
<1>1. Talk'
  BY DEF Talk
<1>2. PeerTypeOK'
  BY DEF PeerFacts, PeerTypeOK, remoteVars
<1> QED
  BY <1>1, <1>2 DEF PeerFacts, Els

LEMMA SameFacts ==
    ASSUME PeerFacts, UNCHANGED <<heights, hashes, steps, filters, mweb>>,
           peerTip' \in Blocks, peerMoves' \in 0..MaxPeerMoves, lacking' \in BOOLEAN,
           complaint' \in BOOLEAN, asked' \in BOOLEAN, inbox' \in Seq(Messages),
           got' \subseteq {"mwebheader", "mwebleafset"},
           ppc' \in {"off", "dialing", "ready", "waiting", "done", "failed"}, Talk'
    PROVE  PeerFacts'
<1>1. PeerTypeOK'
  BY DEF PeerFacts, PeerTypeOK
<1>2. Heeded'
  BY DEF PeerFacts, Heeded
<1> QED
  BY <1>1, <1>2 DEF PeerFacts, Els

LEMMA ClientFacts ==
    ASSUME PeerFacts, Connected \/ GiveUp \/ Ask \/ Fetched
    PROVE  PeerFacts'
<1>1. PeerTypeOK /\ Talk
  BY DEF PeerFacts
<1>2. /\ UNCHANGED <<remoteVars, complaint, inbox, fetchVars>> /\ asked' \in BOOLEAN
      /\ ppc' \in {"ready", "failed", "waiting", "done"}
  BY <1>1 DEF Connected, GiveUp, Ask, Fetched, PeerTypeOK
<1>3. Talk'
  BY <1>1 DEF Talk, Connected, GiveUp, Ask, Fetched, fetchVars
<1> QED
  BY <1>1, <1>2, <1>3, SameFacts DEF PeerTypeOK, remoteVars, fetchVars

LEMMA PeerSideFacts ==
    ASSUME PeerFacts, PeerAnswers \/ PeerMoves
    PROVE  PeerFacts'
<1>1. PeerTypeOK /\ Talk
  BY DEF PeerFacts
<1>2. CASE PeerAnswers
  <2>1. /\ inbox' \in Seq(Messages) /\ Fits(Head(steps), inbox', got)
        /\ asked' = FALSE /\ UNCHANGED <<remoteVars, complaint, ppc, fetchVars>>
    BY <1>2, AnswerFits
  <2>2. UNCHANGED <<heights, hashes, steps, got, filters, mweb>>
    BY <2>1 DEF fetchVars
  <2>3. Fits(Head(steps'), inbox', got')
    BY <2>1, <2>2 DEF Fits
  <2>4. ppc = "waiting" /\ steps # <<>>
    BY <1>1, <1>2 DEF PeerAnswers, Talk
  <2>5. Talk'
    BY <2>1, <2>2, <2>3, <2>4 DEF Talk
  <2> QED
    BY <1>1, <2>1, <2>2, <2>5, SameFacts DEF PeerTypeOK, remoteVars
<1>3. CASE PeerMoves
  <2>1. UNCHANGED <<lacking, complaint, ppc, asked, inbox, heights, hashes, steps, got, filters, mweb>>
    BY <1>3 DEF PeerMoves, fetchVars
  <2>2. Talk'
    BY <1>1, <2>1 DEF Talk, Fits
  <2>3. peerTip' \in Blocks /\ peerMoves' \in 0..MaxPeerMoves
    BY <1>1, <1>3, PeerAssumption DEF PeerMoves, PeerTypeOK
  <2> QED
    BY <1>1, <2>1, <2>2, <2>3, SameFacts DEF PeerTypeOK
<1> QED
  BY <1>2, <1>3

LEMMA TakenFacts ==
    ASSUME PeerFacts, TakeHeaders \/ TakePrimed \/ TakeFilter \/ TakeMweb
    PROVE  PeerFacts'
<1>1. PeerTypeOK /\ Talk /\ Heeded
  BY DEF PeerFacts
<1>2. PICK s : s = Head(steps)
  OBVIOUS
<1>3. /\ Tail(steps) \in Seq(Steps) /\ Els(Tail(steps)) \subseteq Els(steps)
      /\ inbox' \in Seq(Messages) /\ UNCHANGED <<remoteVars, complaint, asked>>
      /\ ppc = "waiting" /\ steps # <<>> /\ ~asked
  BY TakenFits DEF TakeHeaders, TakePrimed, TakeFilter, TakeMweb
<1>4. ASSUME inbox' = <<>>, got' = {}, ppc' = "ready", UNCHANGED <<heights, hashes>>,
             steps' = Tail(steps),
             filters' \in [Heights -> Blocks \cup {None}], mweb' \in [Heights -> Blocks \cup {None}]
      PROVE  PeerFacts'
  <2>1. \A e \in Els(steps') : e.op # "headers" => e.block \in Blocks
    BY <1>3, <1>4 DEF PeerFacts
  <2>2. hashes' \in Seq(Blocks) /\ heights' \subseteq Nat /\ Heeded'
    BY <1>1, <1>4 DEF PeerTypeOK, Heeded
  <2> QED
    BY <1>3, <1>4, <2>1, <2>2, QuietFacts
<1>5. ASSUME ppc' = "failed", UNCHANGED <<heights, hashes, steps, got, filters, mweb>>
      PROVE  PeerFacts'
  <2>1. Talk'
    BY <1>5 DEF Talk
  <2> QED
    BY <1>1, <1>3, <1>5, <2>1, SameFacts DEF PeerTypeOK, remoteVars
<1>6. CASE TakeHeaders
  <2>1. /\ inbox' = <<>> /\ got = {} /\ UNCHANGED <<got, filters, mweb>>
        /\ \/ ppc' = "failed" /\ UNCHANGED <<heights, hashes, steps>>
           \/ /\ ppc' = "ready" /\ hashes' \in Seq(Blocks)
              /\ heights' \subseteq Nat /\ Heeded' /\ steps' \in Seq(Steps)
              /\ \/ \E b \in Blocks : steps' = <<Step("headers", 0, b)>>
                 \/ /\ heights' \subseteq 1..Len(hashes')
                    /\ Els(steps') = UNION {{Step("filter", h, hashes'[h]), Step("prime", h, hashes'[h]),
                                             Step("mweb", h, hashes'[h])} : h \in heights'}
    BY <1>6, HeadersTaken
  <2>2. CASE ppc' = "ready" /\ \E b \in Blocks : steps' = <<Step("headers", 0, b)>>
    <3>1. PICK b \in Blocks : steps' = <<Step("headers", 0, b)>>
      BY <2>2
    <3>2. \A e \in Els(steps') : e.op = "headers"
      BY <3>1 DEF Els, Step
    <3> QED
      BY <1>1, <1>3, <2>1, <2>2, <3>2, QuietFacts DEF PeerTypeOK
  <2>3. CASE /\ ppc' = "ready" /\ heights' \subseteq 1..Len(hashes')
             /\ Els(steps') = UNION {{Step("filter", h, hashes'[h]), Step("prime", h, hashes'[h]),
                                      Step("mweb", h, hashes'[h])} : h \in heights'}
    <3>1. \A h \in heights' : hashes'[h] \in Blocks
      BY <2>1, <2>3
    <3>2. \A e \in Els(steps') : e.block \in Blocks
      BY <2>3, <3>1 DEF Step
    <3> QED
      BY <1>1, <1>3, <2>1, <2>3, <3>2, QuietFacts DEF PeerTypeOK
  <2> QED
    BY <1>5, <2>1, <2>2, <2>3
<1>7. CASE TakePrimed
  BY <1>1, <1>4, <1>7, PrimedTaken DEF PeerTypeOK
<1>8. CASE TakeFilter
  <2>1. CASE ppc' = "failed"
    BY <1>2, <1>5, <1>8, <2>1, FilterTaken
  <2>2. CASE ppc' = "ready"
    <3>1. filters' \in [Heights -> Blocks \cup {None}]
      BY <1>1, <1>2, <1>8, <2>2, FilterTaken DEF PeerTypeOK
    <3> QED
      BY <1>1, <1>2, <1>4, <1>8, <2>2, <3>1, FilterTaken DEF PeerTypeOK
  <2> QED
    BY <1>2, <1>8, <2>1, <2>2, FilterTaken
<1>9. CASE TakeMweb
  <2>1. CASE ppc' = "failed"
    BY <1>2, <1>3, <1>5, <1>9, <2>1, MwebTaken
  <2>2. CASE UNCHANGED <<ppc, steps, mweb>> /\ got' = {"mwebheader"} /\ Fits(s, inbox', got')
    <3>1. UNCHANGED <<heights, hashes, filters>>
      BY <1>2, <1>9, MwebTaken
    <3>2. Fits(Head(steps'), inbox', got')
      BY <1>2, <2>2
    <3>3. Talk'
      BY <1>3, <2>2, <3>2 DEF Talk
    <3> QED
      BY <1>1, <1>3, <2>2, <3>1, <3>3, SameFacts DEF PeerTypeOK, remoteVars
  <2>3. CASE /\ ppc' = "ready" /\ steps' = Tail(steps) /\ inbox' = <<>> /\ got' = {}
             /\ s.block \in Blocks /\ mweb' = [mweb EXCEPT ![s.height] = s.block]
    <3>1. mweb' \in [Heights -> Blocks \cup {None}]
      BY <1>1, <2>3 DEF PeerTypeOK
    <3> QED
      BY <1>1, <1>2, <1>4, <1>9, <2>3, <3>1, MwebTaken DEF PeerTypeOK
  <2> QED
    BY <1>2, <1>9, <2>1, <2>2, <2>3, MwebTaken
<1> QED
  BY <1>6, <1>7, <1>8, <1>9

LEMMA PeerFactsStep ==
    ASSUME PeerFacts, PeerStep
    PROVE  PeerFacts'
BY ClientFacts, PeerSideFacts, TakenFacts DEF PeerStep, ClientSteps

HeightPairs == {<<h, hashes[h]>> : h \in heights}

LEMMA QuietFetches ==
    ASSUME NEW F, NEW M, Fetches(F, M), UNCHANGED <<steps, filters, mweb>>
    PROVE  Fetches(F, M)'
BY DEF Fetches, Els

(* A step that is neither of TakePrimed, TakeFilter and TakeMweb nor of    *)
(* TakeHeaders.                                                            *)
LEMMA NotTaken ==
    ASSUME PeerFacts, PeerStep
    PROVE  \/ TakeHeaders \/ TakePrimed \/ TakeFilter \/ TakeMweb
           \/ UNCHANGED <<heights, hashes, steps, filters, mweb>>
<1>1. CASE PeerAnswers
  BY <1>1, AnswerFits DEF fetchVars
<1> QED
  BY <1>1 DEF PeerStep, ClientSteps, Connected, GiveUp, Ask, Fetched, PeerMoves, fetchVars

LEMMA LocatingStep ==
    ASSUME PeerFacts, Locating, PeerStep
    PROVE  Locating' \/ (heights' \subseteq 1..Len(hashes') /\ Fetches(HeightPairs, HeightPairs)')
<1>1. steps # <<>> /\ Head(steps).op = "headers"
  BY DEF Locating
<1>2. CASE UNCHANGED steps
  BY <1>2 DEF Locating
<1>3. CASE TakeHeaders /\ ~UNCHANGED steps
  <2>1. CASE \E b \in Blocks : steps' = <<Step("headers", 0, b)>>
    <3>1. PICK s : s.op = "headers" /\ steps' = <<s>>
      BY <2>1 DEF Step
    <3> QED
      BY <3>1 DEF Locating
  <2>2. CASE /\ heights' \subseteq 1..Len(hashes') /\ hashes' \in Seq(Blocks)
             /\ Els(steps') = UNION {{Step("filter", h, hashes'[h]), Step("prime", h, hashes'[h]),
                                      Step("mweb", h, hashes'[h])} : h \in heights'}
    <3>1. PICK H, hs : H = heights' /\ hs = hashes' /\ hs \in Seq(Blocks) /\ H \subseteq 1..Len(hs)
      BY <2>2
    <3>2. PICK E : /\ E = Els(steps')
                   /\ E = UNION {{Step("filter", h, hs[h]), Step("prime", h, hs[h]),
                                  Step("mweb", h, hs[h])} : h \in H}
      BY <2>2, <3>1
    <3>3. PICK F : F = {<<h, hs[h]>> : h \in H} /\ F = HeightPairs'
      BY <3>1 DEF HeightPairs
    <3>4. \A s \in E : /\ s.op # "headers" /\ s.block \in Blocks
                       /\ s.op = "filter" => <<s.height, s.block>> \in F
                       /\ s.op = "mweb" => <<s.height, s.block>> \in F
      BY <3>1, <3>2, <3>3 DEF Step
    <3>5. \A p \in F : Step("filter", p[1], p[2]) \in E /\ Step("mweb", p[1], p[2]) \in E
      BY <3>2, <3>3
    <3>6. Fetches(F, F)'
      BY <3>2, <3>4, <3>5 DEF Fetches, Els
    <3>7. Fetches(HeightPairs, HeightPairs)'
      BY <3>3, <3>6 DEF Fetches
    <3> QED
      BY <2>2, <3>7
  <2> QED
    BY <1>3, <2>1, <2>2, HeadersTaken
<1>4. CASE TakePrimed \/ TakeFilter \/ TakeMweb
  BY <1>1, <1>4 DEF TakePrimed, TakeFilter, TakeMweb, Taken
<1> QED
  BY <1>2, <1>3, <1>4, NotTaken

(* All of F is among the steps e, or kept.                                 *)
Due(op, F, e, kept) ==
    \A p \in F : Step(op, p[1], p[2]) \in e \/ (Height(p[2]) = p[1] /\ kept[p[1]] = p[2])

(* The step s under way, once its answer has been taken.                   *)
Kept(op, s, kept, now) ==
    \/ s.op # op /\ now = kept
    \/ /\ s.op = op /\ Height(s.block) = s.height
       /\ kept \in [Heights -> Blocks \cup {None}] /\ s.height \in Heights
       /\ now = [kept EXCEPT ![s.height] = s.block]

LEMMA FetchedOne ==
    ASSUME NEW F, PairSet(F), NEW todoNow, NEW todoNext, NEW op, NEW s, NEW kept, NEW now,
           s.op = op => <<s.height, s.block>> \in F,
           todoNow = {s} \cup todoNext,
           Due(op, F, todoNow, kept), Kept(op, s, kept, now)
    PROVE  Due(op, F, todoNext, now)
<1> USE DEF Due, Kept
<1> SUFFICES ASSUME NEW p \in F, Step(op, p[1], p[2]) \notin todoNext
             PROVE  Height(p[2]) = p[1] /\ now[p[1]] = p[2]
  OBVIOUS
<1>1. PICK h, b : p = <<h, b>> /\ p[1] = h /\ p[2] = b
  BY DEF PairSet
<1>2. CASE s.op # op
  <2>1. Step(op, h, b) # s
    BY <1>2 DEF Step
  <2> QED
    BY <1>1, <1>2, <2>1
<1>3. CASE s.op = op
  <2>1. PICK q : q = <<s.height, s.block>> /\ q \in F /\ q[1] = s.height /\ q[2] = s.block
    BY <1>3
  <2>2. CASE h = s.height
    <3>1. p = q
      BY <1>1, <2>1, <2>2 DEF PairSet
    <3>2. b = s.block
      BY <1>1, <2>1, <3>1
    <3> QED
      BY <1>1, <1>3, <2>2, <3>2
  <2>3. CASE h # s.height
    <3>1. Step(op, h, b) # s
      BY <2>3 DEF Step
    <3>2. Height(b) = h /\ kept[h] = b
      BY <1>1, <3>1
    <3>3. now[h] = kept[h]
      <4>1. CASE h \in Heights
        BY <1>3, <2>3, <4>1
      <4>2. CASE h \notin Heights
        <5>1. b \in Blocks
          BY <1>1 DEF PairSet
        <5> QED
          BY <3>2, <4>2, <5>1, HeightIn
      <4> QED
        BY <4>1, <4>2
    <3> QED
      BY <1>1, <3>2, <3>3
  <2> QED
    BY <2>2, <2>3
<1> QED
  BY <1>2, <1>3

LEMMA FetchStep ==
    ASSUME PeerFacts, NEW F, NEW M, PairSet(F), PairSet(M), Fetches(F, M), PeerStep
    PROVE  Fetches(F, M)' /\ UNCHANGED <<heights, hashes>>
<1>1. PeerTypeOK
  BY DEF PeerFacts
<1>2. ASSUME UNCHANGED <<heights, hashes, steps, filters, mweb>>
      PROVE  Fetches(F, M)' /\ UNCHANGED <<heights, hashes>>
  BY <1>2, QuietFetches
<1>3. ASSUME NEW s \in Els(steps) PROVE s.op # "headers"
  BY DEF Fetches
<1>4. CASE TakeHeaders
  BY <1>3, <1>4, TakenFits DEF TakeHeaders
<1>5. ASSUME NEW s, s = Head(steps), steps # <<>>, steps' = Tail(steps),
             UNCHANGED <<heights, hashes>>,
             \/ s.op # "filter" /\ filters' = filters
             \/ /\ s.op = "filter" /\ Height(s.block) = s.height /\ s.height \in Heights
                /\ filters' = [filters EXCEPT ![s.height] = s.block],
             \/ s.op # "mweb" /\ mweb' = mweb
             \/ /\ s.op = "mweb" /\ Height(s.block) = s.height /\ s.height \in Heights
                /\ mweb' = [mweb EXCEPT ![s.height] = s.block]
      PROVE  Fetches(F, M)' /\ UNCHANGED <<heights, hashes>>
  <2>1. PICK now, next : now = Els(steps) /\ next = Els(steps') /\ now = {s} \cup next
    BY <1>1, <1>5, HeadType
  <2>2. PICK f, g, fn, gn : f = filters /\ g = mweb /\ fn = filters' /\ gn = mweb'
    OBVIOUS
  <2>3. /\ f \in [Heights -> Blocks \cup {None}] /\ g \in [Heights -> Blocks \cup {None}]
    BY <1>1, <2>2 DEF PeerTypeOK
  <2>4. /\ \A e \in now :
             /\ e.op # "headers" /\ e.block \in Blocks
             /\ e.op = "filter" => <<e.height, e.block>> \in F
             /\ e.op = "mweb" => <<e.height, e.block>> \in M
        /\ Due("filter", F, now, f) /\ Due("mweb", M, now, g)
    BY <2>1, <2>2 DEF Fetches, Due
  <2>5. Due("filter", F, next, fn)
    <3>1. Kept("filter", s, f, fn)
      BY <1>5, <2>2, <2>3 DEF Kept
    <3>2. s.op = "filter" => <<s.height, s.block>> \in F
      BY <2>1, <2>4
    <3> QED
      BY <2>1, <2>4, <3>1, <3>2, FetchedOne
  <2>6. Due("mweb", M, next, gn)
    <3>1. Kept("mweb", s, g, gn)
      BY <1>5, <2>2, <2>3 DEF Kept
    <3>2. s.op = "mweb" => <<s.height, s.block>> \in M
      BY <2>1, <2>4
    <3> QED
      BY <2>1, <2>4, <3>1, <3>2, FetchedOne
  <2>7. Fetches(F, M)'
    BY <2>1, <2>2, <2>4, <2>5, <2>6 DEF Fetches, Els, Due
  <2> QED
    BY <1>5, <2>7
<1>6. PICK s : s = Head(steps)
  OBVIOUS
<1>7. CASE TakePrimed
  <2>1. s.op = "prime" /\ steps # <<>>
    BY <1>6, <1>7, TakenFits DEF TakePrimed
  <2> QED
    BY <1>5, <1>6, <1>7, <2>1, PrimedTaken
<1>8. CASE TakeFilter
  <2>1. s.op = "filter" /\ steps # <<>>
    BY <1>6, <1>8, TakenFits DEF TakeFilter
  <2> QED
    BY <1>2, <1>5, <1>6, <1>8, <2>1, FilterTaken
<1>9. CASE TakeMweb
  <2>1. s.op = "mweb" /\ steps # <<>>
    BY <1>6, <1>9, TakenFits DEF TakeMweb
  <2> QED
    BY <1>2, <1>5, <1>6, <1>9, <2>1, MwebTaken
<1> QED
  BY <1>2, <1>4, <1>7, <1>8, <1>9, NotTaken

-------------------------------------------------------------------------------
(* The command *)

ToolInv == args \in Wanted /\ IInv /\ FInv /\ ScanFacts /\ Stores /\ Archived

(* What any step of the command does to the replay and the scan, and to    *)
(* the directory and the archive.                                          *)
EndSource == EndReplay /\ spc' = "off" /\ ScanIdle /\ UNCHANGED lists
             /\ kills < MaxKills /\ kills' = kills + 1

SourceStep ==
    \/ UNCHANGED replayPart
    \/ ScanStep
    \/ UNCHANGED scanVars /\ (ReplayNext \/ \E b \in Blocks : MoveSource(b))
    \/ BeginScan(args) \/ EndSource

DirStep == UNCHANGED watchVars \/ WatchAlone
-------------------------------------------------------------------------------
LEMMA PartSteps ==
    ASSUME [Next]_vars
    PROVE  SourceStep /\ DirStep /\ UNCHANGED args
<1>1. CASE UNCHANGED vars
  BY <1>1 DEF vars, toolState, SourceStep, DirStep
<1>2. CASE StartTool
  BY <1>2 DEF StartTool, SourceStep, DirStep, WatchAlone, WatchStep, OpenOnce
<1>3. CASE DialForFilters \/ WriteOutput \/ ExitWithError
  BY <1>3 DEF DialForFilters, WriteOutput, ExitWithError, toolState, SourceStep, DirStep
<1>4. CASE ReadInputs
  BY <1>4 DEF ReadInputs, SourceStep, DirStep, WatchAlone, ReadHeaders
<1>5. CASE KillTool \/ StartAgain
  BY <1>5 DEF KillTool, StartAgain, EndTool, SourceStep, EndSource, DirStep, WatchAlone
<1>6. CASE Over
  BY <1>6 DEF Over, vars, toolState, SourceStep, DirStep
<1>7. ASSUME UNCHANGED <<peerVars, watchVars, toolState>>,
             \/ ScanStep
             \/ ReplayNext /\ UNCHANGED scanVars
             \/ \E b \in Blocks : MoveSource(b) /\ UNCHANGED scanVars
      PROVE  SourceStep /\ DirStep /\ UNCHANGED args
  BY <1>7 DEF SourceStep, DirStep, toolState
<1>8. CASE UNCHANGED <<replayPart, watchVars, toolState>>
  BY <1>8 DEF SourceStep, DirStep, toolState
<1>9. ASSUME UNCHANGED <<replayPart, peerVars, toolState>>,
             DaemonStep \/ PollLocal \/ ExportNext \/ WatchNext
      PROVE  SourceStep /\ DirStep /\ UNCHANGED args
  BY <1>9 DEF SourceStep, DirStep, toolState, WatchAlone, WatchStep, PollLocal, ExportNext, WatchNext
<1>10. CASE Next
  <2>1. \/ StartTool \/ DialForFilters \/ ReadInputs \/ WriteOutput \/ ExitWithError
        \/ KillTool \/ StartAgain \/ Over
        \/ /\ UNCHANGED <<peerVars, watchVars, toolState>>
           /\ \/ ScanStep
              \/ ReplayNext /\ UNCHANGED scanVars
              \/ \E b \in Blocks : MoveSource(b) /\ UNCHANGED scanVars
        \/ UNCHANGED <<replayPart, watchVars, toolState>>
        \/ /\ UNCHANGED <<replayPart, peerVars, toolState>>
           /\ DaemonStep \/ PollLocal \/ ExportNext \/ WatchNext
    BY <1>10, Zenon DEF Next
  <2> QED
    BY <2>1, <1>2, <1>3, <1>4, <1>5, <1>6, <1>7, <1>8, <1>9
<1> QED
  BY <1>1, <1>10

(* A goroutine of the replay leaves the explorer's chain alone.            *)
LEMMA ReplayFaults ==
    ASSUME ReplayTypeOK, ReplayNext
    PROVE  sourceTip' = sourceTip /\ faults' \in {faults, faults + 1}
<1>1. ASSUME NEW g \in Goroutines, ClientNext(g)
      PROVE  sourceTip' = sourceTip /\ faults' \in {faults, faults + 1}
  BY <1>1 DEF ClientNext, ReadCache, Answered, Misserved, Absent, Unanswered, WriteCache, sourceVars
<1>2. ASSUME NEW f \in Fetchers, TakeJob(f) \/ Send(f) \/ FetcherExit(f)
      PROVE  sourceTip' = sourceTip /\ faults' \in {faults, faults + 1}
  BY <1>2 DEF TakeJob, TakeJobLeaving, Send, SendOf, FetcherExit, sourceVars
<1>3. CASE TakePending \/ TakeResult \/ NothingFetched \/ RecoverBlock
  BY <1>3 DEF TakePending, TakeResult, NothingFetched, RecoverBlock, sourceVars
<1> QED
  BY <1>1, <1>2, <1>3, MainType DEF ReplayNext, FetcherNext

LEMMA ScanReplay ==
    ASSUME IInv, FInv, ScanSets, ScanStep
    PROVE  IInv' /\ FInv'
<1>1. faults \in Nat
  BY DEF IInv, ReplayTypeOK
<1>2. CASE BeginReplay
  <2>1. targets \in SUBSET ReplayHeights /\ found \in SUBSET Heights
    BY DEF ScanSets
  <2> QED
    BY <1>2, <2>1, AloneStep, AloneFits DEF BeginReplay, ReplayAlone
<1>3. CASE WriteList \/ ScanUnanswered
  <2>1. faults' \in Nat /\ faults' >= faults
    BY <1>1, <1>3 DEF WriteList, ScanUnanswered
  <2> QED
    BY <1>3, <2>1, Elsewhere, ElsewhereFits DEF WriteList, ScanUnanswered
<1>4. ASSUME UNCHANGED Unscanned PROVE IInv' /\ FInv'
  <2>1. /\ faults' = faults /\ faults' >= faults
        /\ UNCHANGED <<sourceTip, kills, cache, argVars, channelVars, replayVars, clientVars>>
    BY <1>1, <1>4 DEF Unscanned, sourceVars
  <2> QED
    BY <1>1, <2>1, Elsewhere, ElsewhereFits
<1> QED
  BY <1>2, <1>3, <1>4
     DEF ScanStep, ResolveTip, ResolveHeights, ReadList, Locate, Probe, Located, LocatedIf,
         ScanPage, CreateList, Answers

LEMMA SourceInv ==
    ASSUME ToolInv, SourceStep
    PROVE  IInv' /\ FInv' /\ ScanFacts'
<1>1. ReplayTypeOK /\ faults \in Nat /\ kills \in Nat /\ ScanSets /\ IInv /\ FInv /\ ScanFacts
  BY DEF ToolInv, IInv, ReplayTypeOK, ScanFacts
<1>2. CASE UNCHANGED replayPart
  <2>1. UNCHANGED scanVars /\ UNCHANGED replayState
    BY <1>2 DEF replayPart
  <2>2. UNCHANGED <<sourceTip, faults, kills, cache, argVars, channelVars, replayVars, clientVars>>
    BY <2>1 DEF replayState, sourceVars
  <2>3. faults' >= faults
    BY <1>1, <2>2
  <2> QED
    BY <1>1, <2>1, <2>2, <2>3, Elsewhere, ElsewhereFits, ScanUntouched
<1>3. CASE ScanStep
  BY <1>1, <1>3, ScanReplay, ScanFactsStep
<1>4. CASE UNCHANGED scanVars /\ ReplayNext
  <2>1. sourceTip' = sourceTip /\ faults' \in Nat /\ faults' >= faults
    BY <1>1, <1>4, ReplayFaults
  <2> QED
    BY <1>1, <1>4, <2>1, AloneStep, AloneFits, ScanUntouched DEF ReplayAlone
<1>5. ASSUME NEW b \in Blocks, MoveSource(b), UNCHANGED scanVars
      PROVE  IInv' /\ FInv' /\ ScanFacts'
  BY <1>1, <1>5, AloneStep, AloneFits, SourceGrows DEF ReplayAlone
<1>6. CASE BeginScan(args)
  <2>1. UNCHANGED <<sourceTip, faults, kills, cache, argVars, channelVars, replayVars, clientVars>>
    BY <1>6 DEF BeginScan, Unscanned, sourceVars
  <2>2. args \subseteq ReplayHeights /\ IsFiniteSet(args) /\ args # {}
    BY ToolAssumption DEF ToolInv
  <2>3. ScanFacts'
    BY <1>1, <1>6, <2>2 DEF BeginScan, ScanFacts, ScanSets, Searched, Paged, Scanned, Scanning
  <2>4. faults' >= faults
    BY <1>1, <2>1
  <2> QED
    BY <1>1, <2>1, <2>3, <2>4, Elsewhere, ElsewhereFits
<1>7. CASE EndSource
  <2>1. IInv' /\ FInv'
    BY <1>1, <1>7, AloneStep, AloneFits DEF EndSource, Kill, ReplayAlone
  <2>2. /\ spc' = "off" /\ wanted' = {} /\ targets' = {} /\ found' = {} /\ offset' = 0
        /\ search' = NoSearch /\ lists' = lists
    BY <1>7 DEF EndSource, ScanIdle
  <2>3. ScanSets'
    BY <1>1, <2>2, FS_EmptySet DEF ScanSets, SearchType, NoSearch, Scanning
  <2> QED
    BY <2>1, <2>2, <2>3 DEF ScanFacts, Searched, Paged, Scanned
<1> QED
  BY <1>2, <1>3, <1>4, <1>5, <1>6, <1>7 DEF SourceStep

LEMMA DirInv ==
    ASSUME Stores, Archived, DirStep
    PROVE  Stores' /\ Archived' /\ (NoWrap /\ Apart => Apart')
BY WatchUnchanged, StoresStep, ArchivedStep, ApartStep DEF DirStep

LEMMA ToolInit == Init => ToolInv /\ Apart
<1> SUFFICES ASSUME Init PROVE ToolInv /\ Apart
  OBVIOUS
<1>1. IInv /\ FInv /\ Stores /\ Archived /\ Apart /\ args \in Wanted
  BY InitInv, InitFits, WatchInitInv DEF Init
<1>2. ScanSets
  BY FS_EmptySet DEF Init, ScanInit, ScanSets, SearchType, NoSearch, Scanning
<1>3. Searched /\ Paged /\ Scanned
  BY DEF Init, ScanInit, Searched, Paged, Scanned
<1> QED
  BY <1>1, <1>2, <1>3 DEF ToolInv, ScanFacts

LEMMA ToolNext ==
    ASSUME ToolInv, [Next]_vars
    PROVE  ToolInv' /\ (NoWrap /\ Apart => Apart')
<1>1. SourceStep /\ DirStep /\ UNCHANGED args
  BY PartSteps
<1>2. IInv' /\ FInv' /\ ScanFacts'
  BY <1>1, SourceInv
<1>3. Stores' /\ Archived' /\ (NoWrap /\ Apart => Apart')
  BY <1>1, DirInv DEF ToolInv
<1> QED
  BY <1>1, <1>2, <1>3 DEF ToolInv

LEMMA ToolInvariance == Spec => []ToolInv
<1>1. ToolInv /\ [Next]_vars => ToolInv'
  BY ToolNext
<1> QED
  BY <1>1, ToolInit, PTL DEF Spec
-------------------------------------------------------------------------------
(* What is asked of the peer *)

Pairs(s) == {<<s[i].height, s[i].block>> : i \in 1..Len(s)}

(* The blocks whose filter headers, and whose MWEB data, the mode wants of *)
(* the peer.                                                               *)
FilterPairs == IF mode = "network" THEN HeightPairs
               ELSE IF mode = "explorer" THEN Pairs(snapshots) ELSE {}
MwebPairs == IF mode = "network" THEN HeightPairs
             ELSE IF mode = "hybrid" THEN Pairs(inputs) ELSE {}

Asked ==
    /\ Fetches(FilterPairs, MwebPairs) /\ PairSet(FilterPairs) /\ PairSet(MwebPairs)
    /\ mode = "network" => heights \subseteq 1..Len(hashes)

(* The snapshots stay as they are while the filter headers are fetched.    *)
PeerInv ==
    /\ PeerFacts
    /\ status = "off" => ppc = "off"
    /\ ppc = "done" => steps = <<>>
    /\ ppc # "off" => (mode = "network" /\ Locating) \/ Asked
    /\ mode = "explorer" /\ ppc # "off" => phase = "done"

LocalInput == [height : Nat, block : Blocks, filter : Blocks]
InputsRead ==
    /\ inputs \in Seq(LocalInput)
    /\ \A i \in 1..Len(inputs) : inputs[i].filter = inputs[i].block
    /\ \A i, j \in 1..Len(inputs) : inputs[i].height = inputs[j].height => inputs[i].block = inputs[j].block
-------------------------------------------------------------------------------
LEMMA PairsPaired ==
    ASSUME NEW s, Len(s) \in Nat,
           \A i \in 1..Len(s) : s[i].height \in Nat /\ s[i].block \in Blocks,
           \A i, j \in 1..Len(s) : s[i].height = s[j].height => s[i].block = s[j].block
    PROVE  PairSet(Pairs(s))
<1>1. Pairs(s) \subseteq Nat \X Blocks
  BY DEF Pairs
<1>2. ASSUME NEW p \in Pairs(s), NEW q \in Pairs(s), p[1] = q[1] PROVE p = q
  <2>1. PICK i \in 1..Len(s) : p = <<s[i].height, s[i].block>>
    BY DEF Pairs
  <2>2. PICK j \in 1..Len(s) : q = <<s[j].height, s[j].block>>
    BY DEF Pairs
  <2>3. s[i].height = s[j].height
    BY <1>2, <2>1, <2>2
  <2> QED
    BY <2>1, <2>2, <2>3
<1> QED
  BY <1>1, <1>2 DEF PairSet

LEMMA SnappedPairs == ASSUME Snapped PROVE PairSet(Pairs(snapshots))
<1>1. Len(snapshots) \in Nat /\ \A i \in 1..Len(snapshots) : snapshots[i] \in Snapshot
  BY DEF Snapped
<1>2. \A i \in 1..Len(snapshots) : snapshots[i].height \in Nat /\ snapshots[i].block \in Blocks
  BY <1>1, HeightsType DEF Snapshot
<1> QED
  BY <1>1, <1>2, PairsPaired DEF Snapped

LEMMA InputPairs == ASSUME InputsRead PROVE PairSet(Pairs(inputs))
<1>1. Len(inputs) \in Nat /\ \A i \in 1..Len(inputs) : inputs[i] \in LocalInput
  BY DEF InputsRead
<1>2. \A i \in 1..Len(inputs) : inputs[i].height \in Nat /\ inputs[i].block \in Blocks
  BY <1>1 DEF LocalInput
<1> QED
  BY <1>1, <1>2, PairsPaired DEF InputsRead

LEMMA HeightsPaired ==
    ASSUME heights \subseteq 1..Len(hashes), hashes \in Seq(Blocks)
    PROVE  PairSet(HeightPairs)
<1>1. \A h \in heights : h \in Nat /\ hashes[h] \in Blocks
  OBVIOUS
<1>2. HeightPairs \subseteq Nat \X Blocks
  BY <1>1 DEF HeightPairs
<1>3. \A p, q \in HeightPairs : p[1] = q[1] => p = q
  BY DEF HeightPairs
<1> QED
  BY <1>2, <1>3 DEF PairSet

(* The requests for the snapshots' filter headers.                         *)
LEMMA FilterStepsAll ==
    ASSUME NEW s, Len(s) \in Nat,
           \A i \in 1..Len(s) : s[i].height \in Nat /\ s[i].block \in Blocks,
           NEW S, S = [i \in 1..Len(s) |-> Step("filter", s[i].height, s[i].block)]
    PROVE  S \in Seq(Steps) /\ Els(S) = {Step("filter", p[1], p[2]) : p \in Pairs(s)}
<1>1. \A i \in 1..Len(s) : Step("filter", s[i].height, s[i].block) \in Steps
  BY DEF Step, Steps
<1>2. S \in Seq(Steps) /\ Len(S) = Len(s)
  BY <1>1
<1>3. Els(S) = {Step("filter", s[i].height, s[i].block) : i \in 1..Len(s)}
  BY <1>2 DEF Els
<1>4. ASSUME NEW x \in Els(S) PROVE \E p \in Pairs(s) : x = Step("filter", p[1], p[2])
  <2>1. PICK i \in 1..Len(s) : x = Step("filter", s[i].height, s[i].block)
    BY <1>3, <1>4
  <2>2. PICK h, b : h = s[i].height /\ b = s[i].block
    OBVIOUS
  <2>3. <<h, b>> \in Pairs(s) /\ <<h, b>>[1] = h /\ <<h, b>>[2] = b
    BY <2>2 DEF Pairs
  <2> QED
    BY <2>1, <2>2, <2>3
<1>5. ASSUME NEW p \in Pairs(s) PROVE Step("filter", p[1], p[2]) \in Els(S)
  <2>1. PICK i \in 1..Len(s) : p = <<s[i].height, s[i].block>> /\ p[1] = s[i].height /\ p[2] = s[i].block
    BY <1>5 DEF Pairs
  <2> QED
    BY <1>3, <2>1
<1> QED
  BY <1>2, <1>4, <1>5

(* Those for the MWEB data of the blocks read from the directory.          *)
LEMMA MwebStepsAll ==
    ASSUME NEW s, Len(s) \in Nat,
           \A i \in 1..Len(s) : s[i].height \in Nat /\ s[i].block \in Blocks,
           NEW S, S = FlattenSeq([i \in 1..Len(s) |-> MwebSteps(s[i].height, s[i].block)])
    PROVE  /\ S \in Seq(Steps)
           /\ Els(S) = UNION {{Step("prime", p[1], p[2]), Step("mweb", p[1], p[2])} : p \in Pairs(s)}
<1>1. PICK m : m = [i \in 1..Len(s) |-> MwebSteps(s[i].height, s[i].block)]
  OBVIOUS
<1>2. ASSUME NEW i \in 1..Len(s)
      PROVE  /\ m[i] \in Seq(Steps)
             /\ Els(m[i]) = {Step("prime", s[i].height, s[i].block), Step("mweb", s[i].height, s[i].block)}
  <2>1. PICK p \in Steps, q \in Steps :
          p = Step("prime", s[i].height, s[i].block) /\ q = Step("mweb", s[i].height, s[i].block)
    BY <1>2 DEF Step, Steps
  <2>2. m[i] = <<p, q>>
    BY <1>1, <2>1 DEF MwebSteps
  <2>3. Els(<<p, q>>) = {p, q} /\ <<p, q>> \in Seq(Steps)
    BY DEF Els
  <2> QED
    BY <2>1, <2>2, <2>3
<1>3. m \in Seq(Seq(Steps)) /\ Len(m) = Len(s)
  <2>1. PICK T : T = Seq(Steps)
    OBVIOUS
  <2>2. \A i \in 1..Len(s) : m[i] \in T
    BY <1>2, <2>1
  <2>3. m \in [1..Len(s) -> T]
    BY <1>1, <2>2
  <2>4. m \in Seq(T) /\ Len(m) = Len(s)
    BY <1>1, <2>3
  <2> QED
    BY <2>1, <2>4
<1>4. S \in Seq(Steps) /\ Els(S) = UNION {Els(m[i]) : i \in 1..Len(s)}
  <2>1. S = FlattenSeq(m)
    BY <1>1, Zenon
  <2>2. /\ FlattenSeq(m) \in Seq(Steps)
        /\ Els(FlattenSeq(m)) = UNION {Els(m[i]) : i \in 1..Len(m)}
    BY <1>3, FlattenEls
  <2> QED
    BY <1>3, <2>1, <2>2, Zenon
<1>5. Els(S) = UNION {{Step("prime", s[i].height, s[i].block), Step("mweb", s[i].height, s[i].block)} :
                      i \in 1..Len(s)}
  BY <1>2, <1>4
<1>6. ASSUME NEW x \in Els(S)
      PROVE  \E p \in Pairs(s) : x \in {Step("prime", p[1], p[2]), Step("mweb", p[1], p[2])}
  <2>1. PICK i \in 1..Len(s) :
          x \in {Step("prime", s[i].height, s[i].block), Step("mweb", s[i].height, s[i].block)}
    BY <1>5, <1>6
  <2>2. PICK h, b : h = s[i].height /\ b = s[i].block
    OBVIOUS
  <2>3. <<h, b>> \in Pairs(s) /\ <<h, b>>[1] = h /\ <<h, b>>[2] = b
    BY <2>2 DEF Pairs
  <2> QED
    BY <2>1, <2>2, <2>3
<1>7. ASSUME NEW p \in Pairs(s)
      PROVE  Step("prime", p[1], p[2]) \in Els(S) /\ Step("mweb", p[1], p[2]) \in Els(S)
  <2>1. PICK i \in 1..Len(s) : p = <<s[i].height, s[i].block>> /\ p[1] = s[i].height /\ p[2] = s[i].block
    BY <1>7 DEF Pairs
  <2> QED
    BY <1>5, <2>1
<1>8. Els(S) = UNION {{Step("prime", p[1], p[2]), Step("mweb", p[1], p[2])} : p \in Pairs(s)}
  BY <1>6, <1>7
<1> QED
  BY <1>4, <1>8
-------------------------------------------------------------------------------
LEMMA DialFacts ==
    ASSUME PeerFacts, NEW H \in SUBSET Nat, IsFiniteSet(H), H = {0} \/ 0 \notin H,
           NEW S \in Seq(Steps), \A s \in Els(S) : s.op # "headers" => s.block \in Blocks,
           Dial(H, S)
    PROVE  PeerFacts'
<1>1. /\ ppc = "off" /\ ppc' = "dialing" /\ complaint' = lacking /\ heights' = H /\ steps' = S
      /\ UNCHANGED <<remoteVars, asked, inbox, hashes, got, filters, mweb>>
  BY DEF Dial
<1>2. PeerTypeOK'
  BY <1>1 DEF PeerFacts, PeerTypeOK, remoteVars
<1>3. Talk' /\ Heeded'
  BY <1>1 DEF PeerFacts, Talk, Heeded
<1>4. \A s \in Els(steps') : s.op # "headers" => s.block \in Blocks
  BY <1>1
<1> QED
  BY <1>2, <1>3, <1>4 DEF PeerFacts, Els

LEMMA EndFacts ==
    ASSUME PeerFacts, PeerIdle, ppc' = "off", UNCHANGED remoteVars
    PROVE  PeerFacts'
<1>1. /\ Nothing \in [Heights -> Blocks \cup {None}]
      /\ <<>> \in Seq(Blocks) /\ <<>> \in Seq(Steps) /\ <<>> \in Seq(Messages)
  BY DEF Nothing
<1>2. PeerTypeOK'
  BY <1>1 DEF PeerFacts, PeerTypeOK, PeerIdle, remoteVars
<1>3. Talk' /\ Heeded'
  BY FS_EmptySet DEF Talk, Heeded, PeerIdle
<1>4. Len(steps') = 0
  BY DEF PeerIdle
<1> QED
  BY <1>2, <1>3, <1>4 DEF PeerFacts, Els

LEMMA InitFacts == ASSUME PeerInit PROVE PeerFacts
<1>1. /\ Nothing \in [Heights -> Blocks \cup {None}]
      /\ <<>> \in Seq(Blocks) /\ <<>> \in Seq(Steps) /\ <<>> \in Seq(Messages)
  BY DEF Nothing
<1>2. PeerTypeOK
  <2>1. peerMoves \in 0..MaxPeerMoves
    BY PeerAssumption DEF PeerInit
  <2> QED
    BY <1>1, <2>1 DEF PeerTypeOK, PeerInit
<1>3. Talk /\ Heeded
  BY FS_EmptySet DEF Talk, Heeded, PeerInit
<1>4. Len(steps) = 0
  BY DEF PeerInit
<1> QED
  BY <1>2, <1>3, <1>4 DEF PeerFacts, Els

LEMMA AskedKept ==
    ASSUME Asked, UNCHANGED <<mode, heights, hashes, steps, filters, mweb>>,
           mode = "explorer" => snapshots' = snapshots,
           mode = "hybrid" => inputs' = inputs
    PROVE  Asked'
<1>1. FilterPairs' = FilterPairs /\ MwebPairs' = MwebPairs
  BY DEF FilterPairs, MwebPairs, HeightPairs, Pairs
<1>2. PICK F, M : F = FilterPairs /\ M = MwebPairs
  OBVIOUS
<1>3. Fetches(F, M) /\ PairSet(F) /\ PairSet(M) /\ F = FilterPairs' /\ M = MwebPairs'
  BY <1>1, <1>2 DEF Asked
<1>4. Fetches(F, M)'
  BY <1>3, QuietFetches
<1>5. Fetches(FilterPairs, MwebPairs)'
  BY <1>3, <1>4 DEF Fetches
<1> QED
  BY <1>3, <1>5 DEF Asked, PairSet

(* The rest of the command leaves the talk with the peer alone.            *)
LEMMA PeerInvKept ==
    ASSUME PeerInv, UNCHANGED <<peerVars, mode>>,
           status' = "off" => status = "off",
           mode = "explorer" /\ ppc # "off" => UNCHANGED <<snapshots, phase>>,
           mode = "hybrid" /\ ppc # "off" => inputs' = inputs
    PROVE  PeerInv'
<1>1. UNCHANGED <<ppc, asked, inbox, heights, hashes, steps, got, filters, mweb>>
      /\ UNCHANGED <<remoteVars, complaint, peerTip, peerMoves, lacking>>
  BY DEF peerVars, remoteVars, fetchVars
<1>2. PeerFacts'
  BY <1>1 DEF PeerInv, PeerFacts, PeerTypeOK, Talk, Fits, Heeded, Els
<1>3. ppc' # "off" => (mode' = "network" /\ Locating') \/ Asked'
  BY <1>1, AskedKept DEF PeerInv, Locating
<1> QED
  BY <1>1, <1>2, <1>3 DEF PeerInv

(* A step of the talk itself.                                              *)
LEMMA PeerInvStep ==
    ASSUME PeerInv, PeerStep, Running, UNCHANGED <<replayPart, watchVars, toolState>>
    PROVE  PeerInv'
<1>1. UNCHANGED <<snapshots, phase, mode, inputs, status>> /\ PeerFacts /\ status # "off"
  BY DEF replayPart, replayState, replayVars, toolState, PeerInv, Running
<1>2. PeerFacts'
  BY <1>1, PeerFactsStep
<1>3. /\ ppc' # "off" => ppc # "off"
      /\ ppc' = "done" => steps' = <<>>
  BY DEF PeerInv, PeerStep, PeerAnswers, Reply, PeerMoves, ClientSteps, Connected, GiveUp, Ask,
         Fetched, TakeHeaders, TakePrimed, TakeFilter, KeepFilter, TakeMweb, Taken, fetchVars
<1>4. ASSUME ppc # "off", mode = "network", Locating
      PROVE  (mode' = "network" /\ Locating') \/ Asked'
  <2>1. CASE heights' \subseteq 1..Len(hashes') /\ Fetches(HeightPairs, HeightPairs)'
    <3>1. hashes' \in Seq(Blocks)
      BY <1>2 DEF PeerFacts, PeerTypeOK
    <3>2. PairSet(HeightPairs)'
      <4>1. PICK H, hs : H = heights' /\ hs = hashes' /\ hs \in Seq(Blocks) /\ H \subseteq 1..Len(hs)
        BY <2>1, <3>1
      <4>2. \A h \in H : h \in Nat /\ hs[h] \in Blocks
        BY <4>1
      <4>3. PICK F : F = {<<h, hs[h]>> : h \in H} /\ F = HeightPairs'
        BY <4>1 DEF HeightPairs
      <4>4. F \subseteq Nat \X Blocks
        BY <4>2, <4>3
      <4>5. \A p, q \in F : p[1] = q[1] => p = q
        BY <4>3
      <4> QED
        BY <4>3, <4>4, <4>5 DEF PairSet
    <3>3. FilterPairs' = HeightPairs' /\ MwebPairs' = HeightPairs'
      BY <1>1, <1>4 DEF FilterPairs, MwebPairs
    <3>4. PICK F : F = HeightPairs'
      OBVIOUS
    <3>5. Fetches(FilterPairs, MwebPairs)'
      BY <2>1, <3>3, <3>4 DEF Fetches
    <3>6. PairSet(FilterPairs)' /\ PairSet(MwebPairs)'
      BY <3>2, <3>3 DEF PairSet
    <3> QED
      BY <2>1, <3>5, <3>6 DEF Asked
  <2> QED
    BY <1>1, <1>4, <2>1, LocatingStep
<1>5. ASSUME Asked PROVE Asked'
  <2>1. PICK F, M : F = FilterPairs /\ M = MwebPairs
    OBVIOUS
  <2>2. Fetches(F, M) /\ PairSet(F) /\ PairSet(M)
    BY <1>5, <2>1 DEF Asked
  <2>3. Fetches(F, M)' /\ UNCHANGED <<heights, hashes>>
    BY <1>1, <2>2, FetchStep
  <2>4. FilterPairs' = F /\ MwebPairs' = M
    BY <1>1, <2>1, <2>3 DEF FilterPairs, MwebPairs, HeightPairs, Pairs
  <2>5. Fetches(FilterPairs, MwebPairs)'
    BY <2>3, <2>4 DEF Fetches
  <2>6. PairSet(FilterPairs)' /\ PairSet(MwebPairs)'
    BY <2>2, <2>4 DEF PairSet
  <2> QED
    BY <1>1, <1>5, <2>3, <2>5, <2>6 DEF Asked
<1> QED
  BY <1>1, <1>2, <1>3, <1>4, <1>5 DEF PeerInv

(* With a peer that has just been dialed.                                  *)
LEMMA PeerInvDialed ==
    ASSUME PeerFacts', ppc' = "dialing", status' = "running",
           mode' = "explorer" => phase' = "done",
           (mode' = "network" /\ Locating') \/ Asked'
    PROVE  PeerInv'
BY DEF PeerInv

SourceMoves == \/ ScanStep
               \/ ReplayNext /\ UNCHANGED scanVars
               \/ \E b \in Blocks : MoveSource(b) /\ UNCHANGED scanVars

(* Once the replay is over its snapshots stay as they are.                 *)
LEMMA SourceSnapped ==
    ASSUME ToolInv, Snapped, SourceMoves
    PROVE  Snapped' /\ (phase = "done" => UNCHANGED <<snapshots, phase>>)
<1>1. CASE BeginReplay
  <2>1. Quiet(targets, found) /\ phase = "idle"
    BY <1>1 DEF BeginReplay, Begin
  <2> QED
    BY <2>1, QuietSnapped
<1>2. CASE UNCHANGED replayVars
  <2>1. UNCHANGED <<replayer, ahead, event, snapshots, phase>> /\ replayer \in Replayers
    BY <1>2 DEF replayVars, Snapped
  <2>2. ahead' \subseteq ahead /\ replayer' \in Replayers
    BY <2>1
  <2> QED
    BY <2>1, <2>2, SnappedKept
<1>3. CASE ReplayNext
  BY <1>3, SnappedStep DEF ToolInv
<1> QED
  BY <1>1, <1>2, <1>3
     DEF SourceMoves, MoveSource, ScanStep, ResolveTip, ResolveHeights, ReadList, Locate, Probe,
         Located, LocatedIf, ScanPage, CreateList, WriteList, ScanUnanswered, Answers, Unscanned

LEMMA SnappedAll ==
    ASSUME ToolInv, Snapped, SourceStep
    PROVE  Snapped'
<1>1. CASE UNCHANGED replayPart \/ BeginScan(args)
  <2>1. UNCHANGED <<replayer, ahead, event, snapshots>> /\ replayer \in Replayers
    BY <1>1 DEF replayPart, replayState, replayVars, BeginScan, Unscanned, Snapped
  <2>2. ahead' \subseteq ahead /\ replayer' \in Replayers
    BY <2>1
  <2> QED
    BY <2>1, <2>2, SnappedKept
<1>2. CASE EndSource
  BY <1>2, QuietSnapped DEF EndSource, EndReplay
<1>3. CASE SourceMoves
  BY <1>3, SourceSnapped
<1> QED
  BY <1>1, <1>2, <1>3 DEF SourceStep, SourceMoves
-------------------------------------------------------------------------------
(* What main asks for.                                                     *)
ArgsHeeded == mode # "explorer" => args = {0} \/ 0 \notin args

LEMMA DialAsked ==
    ASSUME NEW S, NEW F, NEW M, Dial({}, S),
           \A s \in Els(S) : /\ s.op # "headers" /\ s.block \in Blocks
                             /\ s.op = "filter" => <<s.height, s.block>> \in F
                             /\ s.op = "mweb" => <<s.height, s.block>> \in M,
           \A p \in F : Step("filter", p[1], p[2]) \in Els(S),
           \A p \in M : Step("mweb", p[1], p[2]) \in Els(S)
    PROVE  Fetches(F, M)'
<1>1. steps' = S
  BY DEF Dial
<1>2. Els(steps') = Els(S)
  BY <1>1
<1>3. Els(steps)' = Els(steps')
  BY DEF Els
<1> QED
  BY <1>2, <1>3 DEF Fetches

LEMMA EmptySteps == <<>> \in Seq(Steps) /\ Els(<<>>) = {}
BY DEF Els

LEMMA StartPeer ==
    ASSUME ToolInv, PeerInv, ArgsHeeded, StartTool
    PROVE  PeerInv'
<1>1. status' = "running" /\ UNCHANGED mode /\ PeerFacts /\ ppc = "off" /\ args \in Wanted
  BY DEF StartTool, PeerInv, ToolInv
<1>2. CASE UNCHANGED peerVars
  BY <1>1, <1>2, PeerInvKept
<1>3. CASE mode = "check" /\ Dial({}, <<>>)
  <2>1. {} \in SUBSET Nat /\ IsFiniteSet({})
    BY FS_EmptySet
  <2>2. PeerFacts'
    BY <1>1, <1>3, <2>1, EmptySteps, DialFacts
  <2>3. Fetches({}, {})'
    BY <1>3, EmptySteps, DialAsked
  <2>4. FilterPairs' = {} /\ MwebPairs' = {} /\ PairSet({})
    BY <1>1, <1>3 DEF FilterPairs, MwebPairs, PairSet
  <2>5. Fetches(FilterPairs, MwebPairs)'
    BY <2>3, <2>4 DEF Fetches
  <2>6. Asked'
    BY <1>1, <1>3, <2>4, <2>5 DEF Asked, PairSet
  <2> QED
    BY <1>1, <1>3, <2>2, <2>6, PeerInvDialed DEF Dial
<1>4. CASE mode = "network" /\ Dial(args, <<Step("headers", 0, None)>>)
  <2>1. args \in SUBSET Nat /\ IsFiniteSet(args) /\ (args = {0} \/ 0 \notin args)
    <3>1. args \subseteq {0} \cup Heights /\ IsFiniteSet(args)
      BY <1>1, ToolAssumption DEF ReplayHeights
    <3>2. {0} \cup Heights \subseteq Nat
      BY HeightsAreNat
    <3> QED
      BY <1>4, <3>1, <3>2 DEF ArgsHeeded
  <2>2. PICK s \in Steps : s = Step("headers", 0, None) /\ s.op = "headers"
    <3>1. None \in Blocks \cup {None} /\ "headers" \in {"headers", "prime", "filter", "mweb"}
      OBVIOUS
    <3>2. Step("headers", 0, None) \in Steps /\ Step("headers", 0, None).op = "headers"
      BY <3>1 DEF Step, Steps
    <3> QED
      BY <3>2
  <2>3. <<s>> \in Seq(Steps) /\ Els(<<s>>) = {s} /\ Head(<<s>>) = s /\ Tail(<<s>>) = <<>> /\ <<s>> # <<>>
    BY DEF Els
  <2>4. Dial(args, <<s>>)
    BY <1>4, <2>2, Zenon
  <2>5. PeerFacts'
    BY <1>1, <2>1, <2>2, <2>3, <2>4, DialFacts
  <2>6. Locating'
    BY <2>2, <2>3, <2>4 DEF Dial, Locating
  <2> QED
    BY <1>1, <1>4, <2>4, <2>5, <2>6, PeerInvDialed DEF Dial
<1> QED
  BY <1>2, <1>3, <1>4 DEF StartTool

LEMMA DialPeer ==
    ASSUME ToolInv, PeerInv, Snapped, DialForFilters
    PROVE  PeerInv'
<1>1. /\ UNCHANGED <<mode, status, phase, snapshots>> /\ mode = "explorer" /\ status = "running"
      /\ phase = "done" /\ PeerFacts
  BY DEF DialForFilters, toolState, replayPart, replayState, replayVars, Running, PeerInv
<1>2. Len(snapshots) \in Nat /\ \A i \in 1..Len(snapshots) :
        snapshots[i].height \in Nat /\ snapshots[i].block \in Blocks
  <2>1. Len(snapshots) \in Nat /\ \A i \in 1..Len(snapshots) : snapshots[i] \in Snapshot
    BY DEF Snapped
  <2> QED
    BY <2>1, HeightsType DEF Snapshot
<1>3. PICK S : S = [i \in 1..Len(snapshots) |-> Step("filter", snapshots[i].height, snapshots[i].block)]
  OBVIOUS
<1>4. PICK F : F = Pairs(snapshots) /\ PairSet(F)
  BY SnappedPairs
<1>5. S \in Seq(Steps) /\ Els(S) = {Step("filter", p[1], p[2]) : p \in F}
  BY <1>2, <1>3, <1>4, FilterStepsAll
<1>6. Dial({}, S)
  BY <1>3 DEF DialForFilters
<1>7. ASSUME NEW s \in Els(S)
      PROVE  s.op = "filter" /\ s.block \in Blocks /\ <<s.height, s.block>> \in F
  <2>1. PICK p \in F : s = Step("filter", p[1], p[2])
    BY <1>5, <1>7
  <2>2. p \in Nat \X Blocks
    BY <1>4 DEF PairSet
  <2> QED
    BY <2>1, <2>2 DEF Step
<1>8. PeerFacts'
  <2>1. {} \in SUBSET Nat /\ IsFiniteSet({})
    BY FS_EmptySet
  <2> QED
    BY <1>1, <1>5, <1>6, <1>7, <2>1, DialFacts
<1>9. Fetches(F, {})'
  <2>1. \A s \in Els(S) : /\ s.op # "headers" /\ s.block \in Blocks
                          /\ s.op = "filter" => <<s.height, s.block>> \in F
                          /\ s.op = "mweb" => <<s.height, s.block>> \in {}
    BY <1>7
  <2>2. /\ \A p \in F : Step("filter", p[1], p[2]) \in Els(S)
        /\ \A p \in {} : Step("mweb", p[1], p[2]) \in Els(S)
    BY <1>5
  <2> QED
    BY <1>6, <2>1, <2>2, DialAsked
<1>10. FilterPairs' = F /\ MwebPairs' = {} /\ PairSet({})
  BY <1>1, <1>4 DEF FilterPairs, MwebPairs, PairSet, Pairs
<1>11. Asked'
  <2>1. Fetches(FilterPairs, MwebPairs)'
    BY <1>9, <1>10 DEF Fetches
  <2> QED
    BY <1>1, <1>4, <1>10, <2>1 DEF Asked, PairSet
<1> QED
  BY <1>1, <1>6, <1>8, <1>11, PeerInvDialed DEF Dial

(* The filter store follows the block store: at a height both hold, the    *)
(* filter header is the block's.                                           *)
LEMMA LocalInputsFit ==
    ASSUME Stores, args \in Wanted, args = {0} \/ 0 \notin args,
           \A h \in args : InStores(h) /\ (h = 0 => InStores(Height(header))),
           inputs' = LocalInputs
    PROVE  InputsRead'
<1>1. header \in Blocks /\ filter \in Blocks /\ On(filter, header)
      /\ Height(header) \in Nat /\ Height(filter) \in Nat /\ Height(header) >= 1
  BY HeightType DEF Stores
<1>2. args \subseteq {0} \cup Heights /\ IsFiniteSet(args) /\ args # {}
  BY ToolAssumption DEF ReplayHeights
<1>3. PICK order \in Seq(Nat) :
        /\ order = IF args = {0} THEN <<Height(header)>> ELSE Ascending(args)
        /\ \A i \in 1..Len(order) : order[i] \in 1..Height(filter)
  <2>1. CASE args = {0}
    <3>1. InStores(Height(header))
      BY <2>1
    <3>2. PICK n \in Nat : n = Height(header) /\ n \in 1..Height(filter)
      BY <1>1, <3>1 DEF InStores
    <3>3. <<n>> \in Seq(Nat) /\ Len(<<n>>) = 1 /\ <<n>>[1] = n
      OBVIOUS
    <3>4. \A i \in 1..Len(<<n>>) : <<n>>[i] \in 1..Height(filter)
      BY <3>2, <3>3
    <3>5. <<n>> = IF args = {0} THEN <<Height(header)>> ELSE Ascending(args)
      BY <2>1, <3>2
    <3> QED
      BY <3>3, <3>4, <3>5
  <2>2. CASE args # {0}
    <3>1. 0 \notin args /\ args \in SUBSET Nat
      BY <1>2, <2>2, HeightsAreNat
    <3>2. PICK s \in Seq(args) : s = Ascending(args) /\ Els(s) = args
      BY <1>2, <3>1, AscendingType
    <3>3. Len(s) \in Nat /\ \A i \in 1..Len(s) : s[i] \in args
      BY <3>2
    <3>4. \A h \in args : h \in Nat /\ h \in 1..Height(filter)
      <4> TAKE h \in args
      <4>1. h \in Nat /\ h # 0 /\ h <= Height(filter)
        BY <3>1 DEF InStores
      <4> QED
        BY <1>1, <4>1
    <3>5. s \in Seq(Nat)
      BY <3>3, <3>4
    <3>6. \A i \in 1..Len(s) : s[i] \in 1..Height(filter)
      BY <3>3, <3>4
    <3> QED
      BY <2>2, <3>2, <3>5, <3>6
  <2> QED
    BY <2>1, <2>2
<1>4. Len(order) \in Nat /\ \A i \in 1..Len(order) : order[i] \in Nat
  BY <1>3
<1>5. ASSUME NEW i \in 1..Len(order)
      PROVE  Path[header][order[i]] \in Blocks /\ Path[filter][order[i]] = Path[header][order[i]]
  <2>1. PICK k \in 1..Height(filter) : k = order[i]
    BY <1>3
  <2>2. k \in 1..Height(header)
    BY <1>1, <2>1 DEF On
  <2>3. Path[header][k] \in Blocks /\ Path[filter][k] = Path[header][k]
    BY <1>1, <2>2, AtType, OnAgree
  <2> QED
    BY <2>1, <2>3
<1>6. PICK L : L = [i \in 1..Len(order) |-> [height |-> order[i], block |-> Path[header][order[i]],
                                            filter |-> Path[filter][order[i]]]]
  OBVIOUS
<1>7. inputs' = L
  BY <1>3, <1>6 DEF LocalInputs
<1>8. ASSUME NEW i \in 1..Len(order)
      PROVE  /\ L[i] \in LocalInput /\ L[i].filter = L[i].block
             /\ L[i].height = order[i] /\ L[i].block = Path[header][order[i]]
  BY <1>4, <1>5, <1>6 DEF LocalInput
<1>9. L \in Seq(LocalInput) /\ Len(L) = Len(order)
  BY <1>4, <1>6, <1>8
<1>10. \A i, j \in 1..Len(L) : L[i].height = L[j].height => L[i].block = L[j].block
  BY <1>8, <1>9
<1>11. \A i \in 1..Len(L) : L[i].filter = L[i].block
  BY <1>8, <1>9
<1> QED
  BY <1>7, <1>9, <1>10, <1>11 DEF InputsRead, LocalInput

LEMMA ReadPeer ==
    ASSUME ToolInv, PeerInv, ArgsHeeded, ReadInputs
    PROVE  PeerInv' /\ (InputsRead => InputsRead')
<1>1. /\ UNCHANGED <<mode, status, phase, snapshots>> /\ mode = "hybrid" /\ status = "running"
      /\ PeerFacts /\ Stores /\ args \in Wanted /\ (args = {0} \/ 0 \notin args)
  BY DEF ReadInputs, replayPart, replayState, replayVars, Running, PeerInv, ToolInv, ArgsHeeded
<1>2. CASE UNCHANGED <<inputs, peerVars>>
  BY <1>1, <1>2, PeerInvKept DEF InputsRead
<1>3. CASE /\ \A h \in args : InStores(h) /\ (h = 0 => InStores(Height(header)))
           /\ inputs' = LocalInputs
           /\ Dial({}, FlattenSeq([i \in 1..Len(inputs') |->
                                     MwebSteps(inputs'[i].height, inputs'[i].block)]))
  <2>1. InputsRead'
    BY <1>1, <1>3, LocalInputsFit
  <2>2. PICK L : /\ L = inputs'
                 /\ L \in Seq(LocalInput)
                 /\ \A i, j \in 1..Len(L) : L[i].height = L[j].height => L[i].block = L[j].block
    BY <2>1 DEF InputsRead, LocalInput
  <2>3. Len(L) \in Nat /\ \A i \in 1..Len(L) : L[i].height \in Nat /\ L[i].block \in Blocks
    <3>1. Len(L) \in Nat /\ \A i \in 1..Len(L) : L[i] \in LocalInput
      BY <2>2
    <3> QED
      BY <3>1 DEF LocalInput
  <2>4. PICK S : S = FlattenSeq([i \in 1..Len(L) |-> MwebSteps(L[i].height, L[i].block)])
    OBVIOUS
  <2>5. PICK M : M = Pairs(L) /\ PairSet(M)
    BY <2>2, <2>3, PairsPaired
  <2>6. /\ S \in Seq(Steps)
        /\ Els(S) = UNION {{Step("prime", p[1], p[2]), Step("mweb", p[1], p[2])} : p \in M}
    BY <2>3, <2>4, <2>5, MwebStepsAll
  <2>7. Dial({}, S)
    BY <1>3, <2>2, <2>4
  <2>8. ASSUME NEW s \in Els(S)
        PROVE  /\ s.op \in {"prime", "mweb"} /\ s.block \in Blocks
               /\ <<s.height, s.block>> \in M
    <3>1. PICK p \in M : s = Step("prime", p[1], p[2]) \/ s = Step("mweb", p[1], p[2])
      BY <2>6, <2>8
    <3>2. p \in Nat \X Blocks /\ p = <<p[1], p[2]>>
      BY <2>5 DEF PairSet
    <3>3. s.op \in {"prime", "mweb"} /\ s.height = p[1] /\ s.block = p[2]
      BY <3>1 DEF Step
    <3>4. <<s.height, s.block>> = p
      BY <3>2, <3>3, Zenon
    <3> QED
      BY <3>2, <3>3, <3>4
  <2>9. PeerFacts'
    <3>1. {} \in SUBSET Nat /\ IsFiniteSet({})
      BY FS_EmptySet
    <3>2. \A s \in Els(S) : s.op # "headers" => s.block \in Blocks
      BY <2>8
    <3> QED
      BY <1>1, <2>6, <2>7, <3>1, <3>2, DialFacts
  <2>10. Fetches({}, M)'
    <3>1. \A s \in Els(S) : /\ s.op # "headers" /\ s.block \in Blocks
                            /\ s.op = "filter" => <<s.height, s.block>> \in {}
                            /\ s.op = "mweb" => <<s.height, s.block>> \in M
      BY <2>8
    <3>2. /\ \A p \in {} : Step("filter", p[1], p[2]) \in Els(S)
          /\ \A p \in M : Step("mweb", p[1], p[2]) \in Els(S)
      BY <2>6
    <3> QED
      BY <2>7, <3>1, <3>2, DialAsked
  <2>11. FilterPairs' = {} /\ MwebPairs' = M /\ PairSet({})
    BY <1>1, <2>2, <2>5 DEF FilterPairs, MwebPairs, PairSet, Pairs
  <2>12. Asked'
    <3>1. Fetches(FilterPairs, MwebPairs)'
      BY <2>10, <2>11 DEF Fetches
    <3> QED
      BY <1>1, <2>5, <2>11, <3>1 DEF Asked, PairSet
  <2>13. PeerInv'
    BY <1>1, <2>7, <2>9, <2>12, PeerInvDialed DEF Dial
  <2> QED
    BY <2>1, <2>13
<1> QED
  BY <1>2, <1>3 DEF ReadInputs

LEMMA EndPeer ==
    ASSUME PeerInv, EndTool
    PROVE  PeerInv' /\ InputsRead'
<1>1. PeerFacts'
  BY EndFacts DEF PeerInv, EndTool
<1>2. PeerInv'
  BY <1>1 DEF PeerInv, EndTool
<1>3. <<>> \in Seq(LocalInput) /\ Len(<<>>) = 0
  OBVIOUS
<1>4. InputsRead'
  BY <1>3 DEF EndTool, InputsRead, LocalInput
<1> QED
  BY <1>2, <1>4
-------------------------------------------------------------------------------
TalkInv == ToolInv /\ Snapped /\ PeerInv /\ InputsRead /\ ArgsHeeded

LEMMA TalkInit == Init => TalkInv
<1> SUFFICES ASSUME Init PROVE TalkInv
  OBVIOUS
<1>1. ToolInv /\ Snapped
  BY ToolInit, InitSnapped DEF Init
<1>2. PeerInv
  BY InitFacts DEF Init, PeerInit, PeerInv
<1>3. <<>> \in Seq(LocalInput) /\ Len(<<>>) = 0
  OBVIOUS
<1>4. InputsRead /\ ArgsHeeded
  BY <1>3 DEF Init, InputsRead, ArgsHeeded
<1> QED
  BY <1>1, <1>2, <1>4 DEF TalkInv

LEMMA TalkStep ==
    ASSUME TalkInv, [Next]_vars
    PROVE  TalkInv'
<1>1. ToolInv /\ Snapped /\ PeerInv /\ InputsRead /\ ArgsHeeded
  BY DEF TalkInv
<1>2. ToolInv' /\ Snapped'
  BY <1>1, ToolNext, PartSteps, SnappedAll
<1> SUFFICES PeerInv' /\ InputsRead' /\ ArgsHeeded'
  BY <1>2 DEF TalkInv
<1>3. ASSUME UNCHANGED <<peerVars, mode, inputs>>,
             status' = "off" => status = "off",
             mode = "explorer" /\ ppc # "off" => UNCHANGED <<snapshots, phase>>
      PROVE  PeerInv' /\ InputsRead'
  BY <1>1, <1>3, PeerInvKept DEF InputsRead
<1>4. ArgsHeeded'
  <2>1. UNCHANGED <<mode, args>>
    BY DEF Next, vars, toolState, StartTool, DialForFilters, ReadInputs, WriteOutput,
           ExitWithError, KillTool, StartAgain, EndTool, Over
  <2> QED
    BY <1>1, <2>1 DEF ArgsHeeded
<1>5. CASE UNCHANGED vars
  BY <1>3, <1>4, <1>5 DEF vars, toolState, replayPart, replayState, replayVars
<1>6. CASE StartTool
  <2>1. <<>> \in Seq(LocalInput) /\ Len(<<>>) = 0
    OBVIOUS
  <2>2. InputsRead'
    BY <1>6, <2>1 DEF StartTool, InputsRead, LocalInput
  <2> QED
    BY <1>1, <1>4, <1>6, <2>2, StartPeer
<1>7. CASE DialForFilters
  BY <1>1, <1>4, <1>7, DialPeer DEF DialForFilters, toolState, InputsRead
<1>8. CASE ReadInputs
  BY <1>1, <1>4, <1>8, ReadPeer
<1>9. CASE WriteOutput \/ ExitWithError
  BY <1>3, <1>4, <1>9 DEF WriteOutput, ExitWithError, replayPart, replayState, replayVars
<1>10. CASE KillTool \/ StartAgain
  BY <1>1, <1>4, <1>10, EndPeer DEF KillTool, StartAgain
<1>11. CASE Over
  BY <1>5, <1>11 DEF Over
<1>12. ASSUME Running, UNCHANGED <<peerVars, watchVars, toolState>>, SourceMoves
       PROVE  PeerInv' /\ InputsRead' /\ ArgsHeeded'
  <2>1. mode = "explorer" /\ ppc # "off" => UNCHANGED <<snapshots, phase>>
    BY <1>1, <1>12, SourceSnapped DEF PeerInv
  <2> QED
    BY <1>3, <1>4, <1>12, <2>1 DEF toolState
<1>13. ASSUME Running, UNCHANGED <<replayPart, watchVars, toolState>>, PeerStep
       PROVE  PeerInv' /\ InputsRead' /\ ArgsHeeded'
  BY <1>1, <1>4, <1>13, PeerInvStep DEF toolState, InputsRead
<1>14. CASE UNCHANGED <<replayPart, peerVars, toolState>>
  BY <1>3, <1>4, <1>14 DEF toolState, replayPart, replayState, replayVars
<1>15. CASE Next
  <2>1. \/ StartTool \/ DialForFilters \/ ReadInputs \/ WriteOutput \/ ExitWithError
        \/ KillTool \/ StartAgain \/ Over
        \/ Running /\ UNCHANGED <<peerVars, watchVars, toolState>> /\ SourceMoves
        \/ Running /\ UNCHANGED <<replayPart, watchVars, toolState>> /\ PeerStep
        \/ UNCHANGED <<replayPart, peerVars, toolState>>
    BY <1>15 DEF Next, SourceMoves, PeerStep
  <2> QED
    BY <2>1, <1>6, <1>7, <1>8, <1>9, <1>10, <1>11, <1>12, <1>13, <1>14
<1> QED
  BY <1>5, <1>15

(* The line of one block.                                                  *)
LEMMA BlockLine ==
    ASSUME NEW b \in Blocks, NEW size \in Nat, b \in Sized => size = SizeOf(b)
    PROVE  Good(Line(Height(b), b, b, Unspent[b], size))
<1>1. Unspent[b] \in SUBSET Leaves /\ Height(b) \in Nat
  BY OutsType, HeightType
<1> QED
  BY <1>1 DEF Good, TrueLine, Line, LinesOf

LEMMA SizeType == \A b \in Blocks : SizeOf(b) \in Nat
BY OutsType, BaseType DEF SizeOf

(* Nothing is left to fetch.                                               *)
LEMMA AllFetched ==
    ASSUME NEW F, NEW M, Fetches(F, M), steps = <<>>
    PROVE  /\ \A p \in F : Height(p[2]) = p[1] /\ filters[p[1]] = p[2]
           /\ \A p \in M : Height(p[2]) = p[1] /\ mweb[p[1]] = p[2]
<1>1. Els(steps) = {}
  BY EmptySteps, Zenon
<1> QED
  BY <1>1 DEF Fetches

LEMMA DoneAsked ==
    ASSUME PeerInv, ppc = "done"
    PROVE  Asked /\ steps = <<>>
BY DEF PeerInv, Locating

GoodLines(s) == s \in Seq(LinesOf) /\ \A i \in 1..Len(s) : Good(s[i])

LEMMA AllGood ==
    ASSUME NEW n \in Nat, NEW s, DOMAIN s = 1..n, s = [i \in 1..n |-> s[i]], \A i \in 1..n : Good(s[i])
    PROVE  GoodLines(s)
<1>1. \A i \in 1..n : s[i] \in LinesOf
  BY DEF Good
<1>2. s \in [1..n -> LinesOf]
  BY <1>1
<1>3. s \in Seq(LinesOf) /\ Len(s) = n
  BY <1>2
<1> QED
  BY <1>3 DEF GoodLines

(* The three modes that ask a peer.                                        *)
LEMMA NetworkGood ==
    ASSUME TalkInv, mode = "network", ppc = "done"
    PROVE  GoodLines(NetworkLines)
<1>1. Asked /\ steps = <<>> /\ IsFiniteSet(heights) /\ heights \subseteq 1..Len(hashes)
      /\ hashes \in Seq(Blocks)
  BY DoneAsked DEF TalkInv, Asked, PeerInv, PeerFacts, Heeded, PeerTypeOK
<1>2. Fetches(HeightPairs, HeightPairs)
  BY <1>1 DEF Asked, FilterPairs, MwebPairs
<1>3. \A p \in HeightPairs : Height(p[2]) = p[1] /\ filters[p[1]] = p[2] /\ mweb[p[1]] = p[2]
  BY <1>1, <1>2, AllFetched
<1>4. ASSUME NEW h \in heights
      PROVE  /\ hashes[h] \in Blocks /\ Height(hashes[h]) = h
             /\ filters[h] = hashes[h] /\ mweb[h] = hashes[h]
  <2>1. hashes[h] \in Blocks
    BY <1>1
  <2>2. PICK b \in Blocks : b = hashes[h]
    BY <2>1
  <2>3. <<h, b>> \in HeightPairs /\ <<h, b>>[1] = h /\ <<h, b>>[2] = b
    BY <2>2 DEF HeightPairs
  <2> QED
    BY <1>3, <2>2, <2>3
<1>5. PICK s \in Seq(heights) : s = Ascending(heights)
  <2>1. heights \in SUBSET Nat
    BY <1>1
  <2> QED
    BY <1>1, <2>1, AscendingType
<1>6. Len(s) \in Nat /\ \A i \in 1..Len(s) : s[i] \in heights
  BY <1>5
<1>7. PICK L : L = [i \in 1..Len(s) |-> Line(s[i], mweb[s[i]], filters[s[i]], Unspent[mweb[s[i]]],
                                            SizeOf(mweb[s[i]]))]
  OBVIOUS
<1>8. ASSUME NEW i \in 1..Len(s) PROVE Good(L[i])
  <2>1. PICK b \in Blocks, h \in heights :
          h = s[i] /\ b = hashes[h] /\ Height(b) = h /\ filters[h] = b /\ mweb[h] = b
    BY <1>4, <1>6
  <2>2. L[i] = Line(Height(b), b, b, Unspent[b], SizeOf(b))
    BY <1>7, <2>1
  <2> QED
    BY <2>2, BlockLine, SizeType
<1>9. GoodLines(L)
  BY <1>6, <1>7, <1>8, AllGood
<1> QED
  BY <1>5, <1>7, <1>9 DEF NetworkLines

LEMMA ExplorerGood ==
    ASSUME TalkInv, mode = "explorer", ppc = "done"
    PROVE  GoodLines(ExplorerLines)
<1>1. Asked /\ steps = <<>> /\ Snapped /\ SnapshotsTrue
  BY DoneAsked DEF TalkInv, ToolInv, IInv, Recorded
<1>2. Fetches(Pairs(snapshots), {})
  BY <1>1 DEF Asked, FilterPairs, MwebPairs
<1>3. \A p \in Pairs(snapshots) : Height(p[2]) = p[1] /\ filters[p[1]] = p[2]
  BY <1>1, <1>2, AllFetched
<1>4. Len(snapshots) \in Nat /\ \A i \in 1..Len(snapshots) : snapshots[i] \in Snapshot
  BY <1>1 DEF Snapped
<1>5. PICK L : L = [i \in 1..Len(snapshots) |->
                      Line(snapshots[i].height, snapshots[i].block, filters[snapshots[i].height],
                           snapshots[i].bits, snapshots[i].size)]
  OBVIOUS
<1>6. ASSUME NEW i \in 1..Len(snapshots) PROVE Good(L[i])
  <2>1. PICK h, b, bits, size :
          /\ h = snapshots[i].height /\ b = snapshots[i].block
          /\ bits = snapshots[i].bits /\ size = snapshots[i].size
    OBVIOUS
  <2>2. b \in Blocks /\ size \in Nat
    BY <1>4, <2>1 DEF Snapshot
  <2>3. bits = Unspent[b] /\ (b \in Sized => size = SizeOf(b))
    BY <1>1, <2>1 DEF SnapshotsTrue
  <2>4. <<h, b>> \in Pairs(snapshots) /\ <<h, b>>[1] = h /\ <<h, b>>[2] = b
    BY <2>1 DEF Pairs
  <2>5. Height(b) = h /\ filters[h] = b
    BY <1>3, <2>4
  <2>6. L[i] = Line(Height(b), b, b, Unspent[b], size)
    BY <1>5, <2>1, <2>3, <2>5
  <2> QED
    BY <2>2, <2>3, <2>6, BlockLine
<1>7. GoodLines(L)
  BY <1>4, <1>5, <1>6, AllGood
<1>8. ExplorerLines = L
  BY <1>5 DEF ExplorerLines
<1> QED
  BY <1>7, <1>8

LEMMA HybridGood ==
    ASSUME TalkInv, mode = "hybrid", ppc = "done"
    PROVE  GoodLines(HybridLines)
<1>1. Asked /\ steps = <<>> /\ InputsRead
  BY DoneAsked DEF TalkInv
<1>2. Fetches({}, Pairs(inputs))
  BY <1>1 DEF Asked, FilterPairs, MwebPairs
<1>3. \A p \in Pairs(inputs) : Height(p[2]) = p[1] /\ mweb[p[1]] = p[2]
  BY <1>1, <1>2, AllFetched
<1>4. Len(inputs) \in Nat /\ \A i \in 1..Len(inputs) : inputs[i] \in LocalInput
  BY <1>1 DEF InputsRead
<1>5. PICK L : L = [i \in 1..Len(inputs) |->
                      Line(inputs[i].height, inputs[i].block, inputs[i].filter,
                           Unspent[mweb[inputs[i].height]], SizeOf(mweb[inputs[i].height]))]
  OBVIOUS
<1>6. ASSUME NEW i \in 1..Len(inputs) PROVE Good(L[i])
  <2>1. PICK h, b : h = inputs[i].height /\ b = inputs[i].block /\ b = inputs[i].filter
    BY <1>1 DEF InputsRead
  <2>2. b \in Blocks
    BY <1>4, <2>1 DEF LocalInput
  <2>3. <<h, b>> \in Pairs(inputs) /\ <<h, b>>[1] = h /\ <<h, b>>[2] = b
    BY <2>1 DEF Pairs
  <2>4. Height(b) = h /\ mweb[h] = b
    BY <1>3, <2>3
  <2>5. L[i] = Line(Height(b), b, b, Unspent[b], SizeOf(b))
    BY <1>5, <2>1, <2>4
  <2> QED
    BY <2>2, <2>5, BlockLine, SizeType
<1>7. GoodLines(L)
  BY <1>4, <1>5, <1>6, AllGood
<1>8. HybridLines = L
  BY <1>5 DEF HybridLines
<1> QED
  BY <1>7, <1>8

Exported == mode = "export" /\ wpc = "exported" => Good(line)
OutputGood == GoodLines(output)

LEMMA ExportedStep ==
    ASSUME TalkInv, Exported, [Next]_vars
    PROVE  Exported'
<1>1. Stores /\ UNCHANGED mode
  BY DEF TalkInv, ToolInv, Next, vars, toolState, StartTool, DialForFilters, ReadInputs, WriteOutput,
         ExitWithError, KillTool, StartAgain, EndTool, Over
<1> SUFFICES ASSUME mode = "export", wpc' = "exported" PROVE Good(line)'
  BY <1>1 DEF Exported
<1>2. CASE UNCHANGED <<wpc, line>>
  BY <1>2 DEF Exported, Good, TrueLine
<1>3. ASSUME NEW h, ExportCheckpoint(h) PROVE Good(line)'
  <2>1. Exportable /\ line' = ExportLine
    BY <1>3 DEF ExportCheckpoint
  <2> QED
    BY <1>1, <2>1, ExportGood DEF Good, TrueLine
<1>4. CASE UNCHANGED watchVars
  BY <1>2, <1>4 DEF watchVars
<1>5. CASE StartTool
  BY <1>4, <1>5 DEF StartTool, StartWatch
<1>6. CASE KillTool \/ StartAgain
  BY <1>6 DEF KillTool, StartAgain
<1>7. CASE DaemonStep
  <2>1. UNCHANGED toolVars
    BY <1>7 DEF DaemonStep, ConnectHeader, DisconnectHeader, ConnectFilter, Round, CutRound, RollbackLeaves
  <2> QED
    BY <1>2, <2>1 DEF toolVars
<1>8. CASE PollLocal \/ WatchNext
  BY <1>8 DEF PollLocal, Poll, WatchNext
<1>9. CASE ExportNext
  BY <1>3, <1>9 DEF ExportNext
<1>10. CASE ReadInputs
  BY <1>10 DEF ReadInputs
<1> QED
  BY <1>4, <1>5, <1>6, <1>7, <1>8, <1>9, <1>10
     DEF Next, vars, DialForFilters, WriteOutput, ExitWithError, Over

LEMMA OutputStep ==
    ASSUME TalkInv, Exported, OutputGood, [Next]_vars
    PROVE  OutputGood'
<1>1. GoodLines(<<>>)
  BY DEF GoodLines
<1>2. CASE output' = output
  BY <1>2 DEF OutputGood, GoodLines, Good, TrueLine
<1>3. CASE output' = <<>>
  BY <1>1, <1>3 DEF OutputGood, GoodLines, Good, TrueLine
<1>4. CASE WriteOutput
  <2>1. output' = Lines
    BY <1>4 DEF WriteOutput
  <2>2. GoodLines(Lines)
    <3>1. CASE mode = "network"
      BY <1>4, <3>1, NetworkGood DEF WriteOutput, Succeeded, Lines
    <3>2. CASE mode = "explorer"
      BY <1>4, <3>2, ExplorerGood DEF WriteOutput, Succeeded, Lines
    <3>3. CASE mode = "hybrid"
      BY <1>4, <3>3, HybridGood DEF WriteOutput, Succeeded, Lines
    <3>4. CASE mode = "export"
      <4>1. Good(line)
        BY <1>4, <3>4 DEF WriteOutput, Succeeded, UsesPeer, Exported
      <4>2. line \in LinesOf
        BY <4>1 DEF Good
      <4>3. <<line>> \in Seq(LinesOf) /\ Len(<<line>>) = 1 /\ <<line>>[1] = line
        BY <4>2
      <4>4. GoodLines(<<line>>)
        BY <4>1, <4>3 DEF GoodLines
      <4> QED
        BY <3>4, <4>4 DEF Lines
    <3>5. CASE mode = "check"
      BY <1>1, <3>5 DEF Lines
    <3> QED
      BY <1>4, <3>1, <3>2, <3>3, <3>4, <3>5 DEF WriteOutput, Succeeded, UsesPeer
  <2>3. PICK L : L = output' /\ GoodLines(L)
    BY <2>1, <2>2
  <2> QED
    BY <2>3 DEF OutputGood, GoodLines, Good, TrueLine
<1> QED
  BY <1>2, <1>3, <1>4
     DEF Next, vars, toolState, StartTool, DialForFilters, ReadInputs, ExitWithError, KillTool,
         StartAgain, EndTool, Over

LineInv == TalkInv /\ Exported /\ OutputGood

LEMMA LineInit == Init => LineInv
<1> SUFFICES ASSUME Init PROVE LineInv
  OBVIOUS
<1>1. Exported /\ OutputGood
  BY DEF Init, WatchInit, Exported, OutputGood, GoodLines
<1> QED
  BY <1>1, TalkInit DEF LineInv

LEMMA LineNext == LineInv /\ [Next]_vars => LineInv'
BY TalkStep, ExportedStep, OutputStep DEF LineInv
-------------------------------------------------------------------------------
(* What the invariants above do not say of the types.                      *)
ScanRest == spc \in ScanPCs /\ stries \in 1..Attempts

WatchRest ==
    /\ leavesAt \in [Heights -> Nat]
    /\ wpc \in {"off", "waiting", "reading", "appending", "syncing", "exported", "failed"}
    /\ once \in BOOLEAN /\ line \in LinesOf /\ lastHeight \in Nat
    /\ mishaps \in 0..MaxMishaps

ToolRest == mode \in Modes /\ status \in {"off", "running", "ok", "error"}

LEMMA AttemptsType == Attempts \in Nat /\ Attempts >= 1 /\ 1 \in 1..Attempts
BY ReplayAssumption

LEMMA ScanRestStep ==
    ASSUME ScanRest, SourceStep
    PROVE  ScanRest'
<1> USE AttemptsType DEF ScanRest, ScanPCs
<1>1. CASE ScanUnanswered
  <2>1. CASE stries < Attempts /\ stries' = stries + 1 /\ UNCHANGED spc
    BY <2>1
  <2>2. CASE spc' = "failed" /\ UNCHANGED stries
    BY <2>2
  <2> QED
    BY <1>1, <2>1, <2>2 DEF ScanUnanswered
<1>2. CASE UNCHANGED scanVars
  BY <1>2 DEF scanVars
<1>3. CASE ScanStep /\ ~ScanUnanswered
  BY <1>3 DEF ScanStep, ResolveTip, ResolveHeights, ReadList, Locate, Probe, Located, LocatedIf,
              ScanPage, CreateList, WriteList, BeginReplay, Answers
<1>4. CASE BeginScan(args)
  BY <1>4 DEF BeginScan
<1>5. CASE EndSource
  BY <1>5 DEF EndSource, ScanIdle
<1> QED
  BY <1>1, <1>2, <1>3, <1>4, <1>5 DEF SourceStep, replayPart

LEMMA LeavesPut ==
    ASSUME Stores, WatchRest, NEW f, f \in [Heights -> Nat],
           \/ PutLeaves
           \/ leavesAt' = [h \in Heights |-> IF h <= Height(header) THEN f[h] ELSE 0]
    PROVE  leavesAt' \in [Heights -> Nat]
<1>1. CASE PutLeaves
  <2>1. \A h \in Heights : h <= Height(header) => Path[header][h] \in Blocks
    BY AtType, HeightType DEF Stores, Heights
  <2>2. \A h \in Heights : h <= Height(header) => SizeOf(Path[header][h]) \in Nat
    BY <2>1, SizeType
  <2> QED
    BY <1>1, <2>2 DEF PutLeaves, WatchRest
<1>2. CASE leavesAt' = [h \in Heights |-> IF h <= Height(header) THEN f[h] ELSE 0]
  BY <1>2
<1> QED
  BY <1>1, <1>2

LEMMA WatchRestStep ==
    ASSUME Stores, Archived, WatchRest, DirStep
    PROVE  WatchRest'
<1> USE DEF WatchRest
<1>1. MaxMishaps \in Nat /\ mishaps \in Nat /\ mishaps <= MaxMishaps
  BY WatchAssumption
<1>2. CASE UNCHANGED watchVars
  BY <1>2 DEF watchVars, dirVars
<1>3. CASE DaemonStep
  <2>1. UNCHANGED toolVars
    BY <1>3 DEF DaemonStep, ConnectHeader, DisconnectHeader, ConnectFilter, Round, CutRound, RollbackLeaves
  <2>2. leavesAt' \in [Heights -> Nat]
    BY <1>3, LeavesPut DEF DaemonStep, ConnectHeader, DisconnectHeader, ConnectFilter, Round,
                           CutRound, RollbackLeaves
  <2> QED
    BY <2>1, <2>2 DEF toolVars
<1>4. CASE StartWatch
  <2>1. wpc' \in {"failed", "waiting"} /\ UNCHANGED <<leavesAt, once, line, mishaps>>
        /\ (wpc' = "failed" => UNCHANGED lastHeight)
    BY <1>4 DEF StartWatch, dirVars
  <2>2. lastHeight' \in Nat
    <3>1. CASE wpc' = "waiting"
      <4>1. lastHeight' \in {0} \cup Heights
        BY <1>4, <3>1, LastHeight
      <4> QED
        BY <4>1, HeightsAreNat
    <3>2. CASE wpc' = "failed"
      BY <2>1, <3>2
    <3> QED
      BY <2>1, <3>1, <3>2
  <2> QED
    BY <2>1, <2>2
<1>5. CASE Poll \/ OpenOnce \/ ReadHeaders \/ AppendLine
  BY <1>5 DEF Poll, OpenOnce, ReadHeaders, AppendLine, dirVars
<1>6. ASSUME NEW h, ExportCheckpoint(h) PROVE WatchRest'
  <2>1. line' \in LinesOf
    BY <1>6, ExportGood DEF ExportCheckpoint, Good
  <2> QED
    BY <1>6, <2>1 DEF ExportCheckpoint, dirVars
<1>7. CASE AppendFails \/ SyncFails
  <2>1. mishaps' \in 0..MaxMishaps
    BY <1>1, <1>7 DEF AppendFails, SyncFails
  <2> QED
    BY <1>7, <2>1, NoLineType DEF AppendFails, SyncFails, dirVars
<1>8. CASE Synced
  <2>1. lastHeight' \in Nat
    BY <1>8, GoodHeight DEF Synced, Archived
  <2> QED
    BY <1>8, <2>1, NoLineType DEF Synced, dirVars
<1>9. CASE EndWatch
  BY <1>9, NoLineType DEF EndWatch, dirVars
<1> QED
  BY <1>2, <1>3, <1>4, <1>5, <1>6, <1>7, <1>8, <1>9 DEF DirStep, WatchAlone, WatchStep

LEMMA ToolRestStep == ASSUME ToolRest, [Next]_vars PROVE ToolRest'
BY DEF ToolRest, Next, vars, toolState, StartTool, DialForFilters, ReadInputs, WriteOutput,
       ExitWithError, KillTool, StartAgain, EndTool, Over

TypeInv == LineInv /\ ScanRest /\ WatchRest /\ ToolRest
-------------------------------------------------------------------------------
(* In the command, too, no block the replay waits for is lost.             *)
THEOREM NoBlockLost == Spec => []NothingLost
<1> QED
  BY ToolInvariance, PTL DEF ToolInv, IInv

(* In the command, too, a cache file has one goroutine at a time.          *)
THEOREM FilesApart == Spec => []OneWriterPerFile
<1>1. ToolInv => OneWriterPerFile
  BY OneWriter DEF ToolInv
<1> QED
  BY <1>1, ToolInvariance, PTL

(* The snapshots lines are made of are leafsets of their blocks.           *)
THEOREM LeafsetsTrue == Spec => []SnapshotsTrue
<1> QED
  BY ToolInvariance, PTL DEF ToolInv, IInv, Recorded

(* In the command, too, a leafset that does not fit is put right but at a  *)
(* checkpoint height that is not listed and at the first listed height.    *)
THEOREM ToolRecovers == Spec => []RecoversMissed
<1> QED
  BY ToolInvariance, PTL DEF ToolInv, FInv

(* A scan that no reorg, error or failed write cut off lists every block   *)
(* up to the highest target whose summary shows events.                    *)
THEOREM NothingPassedOver == Spec => []ScanComplete
<1>1. ToolInv => ScanComplete
  BY Complete DEF ToolInv
<1> QED
  BY <1>1, ToolInvariance, PTL

(* Every line of the archive that parses is a checkpoint of one block.     *)
THEOREM ArchiveLinesTrue == Spec => []ArchiveTrue
<1>1. ToolInv => ArchiveTrue
  BY AllTrue DEF ToolInv
<1> QED
  BY <1>1, ToolInvariance, PTL

(* Without a failed write the lines of the archive are MinStep apart, as   *)
(* long as the heights leave room for a step below 2^32.                   *)
THEOREM ArchiveLinesApart ==
    ASSUME NoWrap
    PROVE  Spec => []ArchiveSpaced
<1>1. ToolInv /\ Apart /\ [Next]_vars => ToolInv' /\ Apart'
  BY ToolNext
<1>2. ToolInv /\ Apart => ArchiveSpaced
  BY AllApart DEF ToolInv
<1> QED
  BY <1>1, <1>2, ToolInit, PTL DEF Spec

(* Whatever mode made it and whatever failed on the way, every line the    *)
(* command writes is the checkpoint of one block.                          *)
THEOREM LinesAreTrue == Spec => []LinesTrue
<1>1. LineInv => LinesTrue
  BY DEF LineInv, OutputGood, GoodLines, Good, LinesTrue
<1> QED
  BY <1>1, LineInit, LineNext, PTL DEF Spec

(* Every variable of the command, of its parts and of the directory keeps  *)
(* its type.                                                               *)
THEOREM ToolTyped == Spec => []ToolTypeOK
<1>1. Init => TypeInv
  <2> SUFFICES ASSUME Init PROVE TypeInv
    OBVIOUS
  <2>1. LineInv
    BY LineInit
  <2>2. ScanRest /\ ToolRest
    BY AttemptsType DEF Init, ScanInit, ScanRest, ScanPCs, ToolRest
  <2>3. WatchRest
    <3>1. 0 \in 0..MaxMishaps
      BY WatchAssumption
    <3> QED
      BY <3>1, NoLineType DEF Init, WatchInit, WatchRest, Never
  <2> QED
    BY <2>1, <2>2, <2>3 DEF TypeInv
<1>2. TypeInv /\ [Next]_vars => TypeInv'
  <2> SUFFICES ASSUME TypeInv, [Next]_vars PROVE TypeInv'
    OBVIOUS
  <2>1. LineInv' /\ ToolRest' /\ SourceStep /\ DirStep /\ Stores /\ Archived
    BY LineNext, ToolRestStep, PartSteps DEF TypeInv, LineInv, TalkInv, ToolInv
  <2> QED
    BY <2>1, ScanRestStep, WatchRestStep DEF TypeInv
<1>3. TypeInv => ToolTypeOK
  <2> SUFFICES ASSUME TypeInv PROVE ToolTypeOK
    OBVIOUS
  <2>1. ReplayTypeOK /\ PeerTypeOK /\ args \in Wanted /\ mode \in Modes
        /\ status \in {"off", "running", "ok", "error"}
    BY DEF TypeInv, LineInv, TalkInv, ToolInv, IInv, PeerInv, PeerFacts, ToolRest
  <2>2. ScanTypeOK
    BY DEF TypeInv, LineInv, TalkInv, ToolInv, ScanFacts, ScanSets, SearchType, ScanRest, ScanTypeOK
  <2>3. WatchTypeOK
    BY DEF TypeInv, LineInv, TalkInv, ToolInv, Stores, Archived, Entries, WatchRest, WatchTypeOK
  <2>4. inputs \in Seq([height : Nat, block : Blocks, filter : Blocks]) /\ output \in Seq(LinesOf)
    BY DEF TypeInv, LineInv, TalkInv, InputsRead, LocalInput, OutputGood, GoodLines
  <2> QED
    BY <2>1, <2>2, <2>3, <2>4 DEF ToolTypeOK
<1> QED
  BY <1>1, <1>2, <1>3, PTL DEF Spec
================================================================================
