---------------------------- MODULE CheckpointPeer ----------------------------
(***************************************************************************)
(* The mwebcheckpoint tool and the one peer it asks (networkClient): the   *)
(* handshake, the block headers from genesis, the filter header and the    *)
(* MWEB header and leafset of each checkpoint block.  The tool sends a     *)
(* request and drops what comes until an answer fits, an error is pending  *)
(* or the time is up.  Meanwhile the peer's chain moves.                   *)
(*                                                                         *)
(* Block None stands for the genesis block, at height 0.                   *)
(***************************************************************************)
EXTENDS CheckpointLine, FiniteSets

CONSTANTS
    Batch,          \* wire.MaxBlockHeadersPerMsg (2000)
    MaxPeerMoves    \* bound: moves of the peer's chain

ASSUME PeerAssumption == Batch \in Nat \ {0} /\ MaxPeerMoves \in Nat

VARIABLES
    peerTip, peerMoves,
    lacking,    \* the peer does not advertise the services required
    complaint,  \* an error in the errors channel
    ppc,        \* off, dialing, ready, waiting, done or failed
    asked,      \* the request has not reached the peer yet
    inbox,      \* the messages channel
    heights,    \* the checkpoint heights, {0} for the tip
    hashes,     \* the headers fetched, height |-> block
    steps,      \* what is left to fetch, in order; the first is under way
    got,        \* which of the MWEB header and leafset have come
    filters,    \* height |-> filter header, or None
    mweb        \* height |-> block whose MWEB header and leafset came, or None

remoteVars == <<peerTip, peerMoves, lacking>>
fetchVars  == <<heights, hashes, steps, got, filters, mweb>>
peerVars   == <<remoteVars, complaint, ppc, asked, inbox, fetchVars>>

Nothing == [h \in Heights |-> None]
Step(op, h, b) == [op |-> op, height |-> h, block |-> b]

Steps == [op : {"headers", "prime", "filter", "mweb"},
          height : Nat, block : Blocks \cup {None}]
Messages == [op : {"headers"}, blocks : Seq(Blocks)]
            \cup [op : {"cfheaders"}, stop : Blocks, count : Nat, block : Blocks]
            \cup [op : {"mwebheader", "mwebleafset", "notfound"}, block : Blocks]

PeerTypeOK ==
    /\ peerTip \in Blocks /\ peerMoves \in 0..MaxPeerMoves
    /\ lacking \in BOOLEAN /\ complaint \in BOOLEAN /\ asked \in BOOLEAN
    /\ ppc \in {"off", "dialing", "ready", "waiting", "done", "failed"}
    /\ inbox \in Seq(Messages) /\ steps \in Seq(Steps)
    /\ heights \subseteq Nat
    /\ hashes \in Seq(Blocks)
    /\ got \subseteq {"mwebheader", "mwebleafset"}
    /\ filters \in [Heights -> Blocks \cup {None}]
    /\ mweb \in [Heights -> Blocks \cup {None}]

PeerIdle ==
    /\ complaint' = FALSE /\ asked' = FALSE /\ inbox' = <<>>
    /\ heights' = {} /\ hashes' = <<>> /\ steps' = <<>> /\ got' = {}
    /\ filters' = Nothing /\ mweb' = Nothing

PeerInit ==
    /\ peerTip \in Blocks /\ peerMoves = 0 /\ lacking \in BOOLEAN
    /\ complaint = FALSE /\ ppc = "off" /\ asked = FALSE /\ inbox = <<>>
    /\ heights = {} /\ hashes = <<>> /\ steps = <<>> /\ got = {}
    /\ filters = Nothing /\ mweb = Nothing

-------------------------------------------------------------------------------
(* The peer.                                                               *)

PeerMoves ==
    /\ peerMoves < MaxPeerMoves
    /\ peerMoves' = peerMoves + 1
    /\ peerTip' \in Blocks \ {peerTip}
    /\ UNCHANGED <<lacking, complaint, ppc, asked, inbox, fetchVars>>

(* getheaders with one locator: what follows it, or, when the peer has     *)
(* left its branch, what follows the genesis block.                        *)
FollowingHeaders(b) ==
    LET from == IF b # None /\ On(b, peerTip) THEN Height(b) + 1 ELSE 1
        to == from + Batch - 1
    IN  SubSeq(Path[peerTip], from, IF to < Height(peerTip) THEN to ELSE Height(peerTip))

(* getcfheaders: one filter hash per block from the start height to the    *)
(* stop hash; a start above the stop is not answered.                      *)
CFHeaders(h, b) ==
    [op |-> "cfheaders", stop |-> b, count |-> Height(b) - h + 1, block |-> Path[b][h]]

Reply(msgs) ==
    /\ inbox' = inbox \o msgs
    /\ asked' = FALSE
    /\ UNCHANGED <<remoteVars, complaint, ppc, fetchVars>>

PeerAnswers ==
    /\ ppc = "waiting" /\ asked
    /\ LET s == Head(steps)
       IN  \/ /\ s.op = "headers"
              /\ Reply(<<[op |-> "headers", blocks |-> FollowingHeaders(s.block)]>>)
           \/ /\ s.op \in {"prime", "filter"} /\ s.height \in 1..Height(s.block)
              /\ Reply(<<CFHeaders(s.height, s.block)>>)
           \/ /\ s.op = "mweb" /\ On(s.block, peerTip)
              /\ Reply(<<[op |-> "mwebheader", block |-> s.block],
                         [op |-> "mwebleafset", block |-> s.block]>>)
           \/ /\ s.op = "mweb" /\ ~On(s.block, peerTip)
              /\ Reply(<<[op |-> "notfound", block |-> s.block]>>)

-------------------------------------------------------------------------------
(* The tool.                                                               *)

(* newNetworkClient: the version message comes before the connection is    *)
(* ready, and its complaint, if any, may still be lying in its channel     *)
(* when the select takes the other.                                        *)
Dial(H, S) ==
    /\ ppc = "off"
    /\ ppc' = "dialing"
    /\ complaint' = lacking
    /\ heights' = H /\ steps' = S
    /\ UNCHANGED <<remoteVars, asked, inbox, hashes, got, filters, mweb>>

Connected ==
    /\ ppc = "dialing"
    /\ ppc' = "ready"
    /\ UNCHANGED <<remoteVars, complaint, asked, inbox, fetchVars>>

(* The complaint is read, or the time is up.                               *)
GiveUp ==
    /\ ppc \in {"dialing", "waiting"}
    /\ ppc' = "failed"
    /\ UNCHANGED <<remoteVars, complaint, asked, inbox, fetchVars>>

Ask ==
    /\ ppc = "ready" /\ steps # <<>>
    /\ ppc' = "waiting" /\ asked' = TRUE
    /\ UNCHANGED <<remoteVars, complaint, inbox, fetchVars>>

Fetched ==
    /\ ppc = "ready" /\ steps = <<>>
    /\ ppc' = "done"
    /\ UNCHANGED <<remoteVars, complaint, asked, inbox, fetchVars>>

(* The heights asked for, in order.                                        *)
Ascending(H) ==
    CHOOSE s \in [1..Cardinality(H) -> H] :
        \A i, j \in 1..Cardinality(H) : i < j => s[i] < s[j]

(* What is to be fetched once the headers are known.                       *)
MwebSteps(h, b) == <<Step("prime", h, b), Step("mweb", h, b)>>
ByHash(H, hs) ==
    LET order == Ascending(H)
    IN  [i \in 1..Len(order) |-> Step("filter", order[i], hs[order[i]])]
        \o FlattenSeq([i \in 1..Len(order) |-> MwebSteps(order[i], hs[order[i]])])
TipSteps(h, b) == MwebSteps(h, b) \o <<Step("filter", h, b)>>

Taken(op) ==
    /\ ppc = "waiting" /\ inbox # <<>> /\ Head(steps).op = op
    /\ inbox' = Tail(inbox)
    /\ UNCHANGED <<remoteVars, complaint, asked>>

Came == Head(inbox)

(* fetchBlockHeaders: heights are counted from the order the headers come  *)
(* in.  -heights tip goes on until a message that is not full.             *)
TakeHeaders ==
    /\ Taken("headers") /\ Came.op = "headers"
    /\ UNCHANGED <<got, filters, mweb>>
    /\ \/ Came.blocks = <<>> /\ ppc' = "failed" /\ UNCHANGED <<heights, hashes, steps>>
       \/ /\ Came.blocks # <<>> /\ ppc' = "ready"
          /\ hashes' = hashes \o Came.blocks
          /\ \/ /\ heights = {0} /\ Len(Came.blocks) < Batch
                /\ heights' = {Len(hashes')}
                /\ steps' = TipSteps(Len(hashes'), Last(hashes'))
             \/ /\ heights # {0} /\ \A h \in heights : h <= Len(hashes')
                /\ steps' = ByHash(heights, hashes')
                /\ UNCHANGED heights
             \/ /\ \/ heights = {0} /\ Len(Came.blocks) = Batch
                   \/ \E h \in heights : h > Len(hashes')
                /\ steps' = <<Step("headers", 0, Last(hashes'))>>
                /\ UNCHANGED heights

(* primeMwebPeer only waits for the answer.                                *)
TakePrimed ==
    /\ Taken("prime") /\ Came.op = "cfheaders" /\ Came.stop = Head(steps).block
    /\ steps' = Tail(steps) /\ ppc' = "ready"
    /\ UNCHANGED <<heights, hashes, got, filters, mweb>>

KeepFilter ==
    /\ filters' = [filters EXCEPT ![Head(steps).height] = Came.block]
    /\ steps' = Tail(steps) /\ ppc' = "ready"

(* Mutant: the number of filter hashes is not looked at.                   *)
TakeAnyFilter ==
    /\ Taken("filter") /\ Came.op = "cfheaders" /\ Came.stop = Head(steps).block
    /\ KeepFilter
    /\ UNCHANGED <<heights, hashes, got, mweb>>

(* fetchFilterHeaderByHash: the one filter hash makes the filter header.   *)
TakeFilter ==
    /\ Taken("filter") /\ Came.op = "cfheaders" /\ Came.stop = Head(steps).block
    /\ \/ Came.count = 1 /\ KeepFilter
       \/ Came.count # 1 /\ ppc' = "failed" /\ UNCHANGED <<steps, filters>>
    /\ UNCHANGED <<heights, hashes, got, mweb>>

(* fetchMwebData: both messages, the header at the height wanted.          *)
TakeMweb ==
    LET s == Head(steps)
        refused == \/ Came.op = "notfound"
                   \/ Came.op = "mwebheader" /\ Height(Came.block) # s.height
        have == got \cup {Came.op}
    IN  /\ Taken("mweb")
        /\ UNCHANGED <<heights, hashes, filters>>
        /\ \/ refused /\ ppc' = "failed" /\ UNCHANGED <<steps, got, mweb>>
           \/ ~refused /\ Cardinality(have) < 2 /\ got' = have /\ UNCHANGED <<ppc, steps, mweb>>
           \/ /\ ~refused /\ Cardinality(have) = 2
              /\ mweb' = [mweb EXCEPT ![s.height] = Came.block]
              /\ got' = {} /\ steps' = Tail(steps) /\ ppc' = "ready"

ClientSteps ==
    \/ Connected \/ GiveUp \/ Ask \/ Fetched
    \/ TakeHeaders \/ TakePrimed \/ TakeFilter \/ TakeMweb

(* The lines of generateNetworkCheckpoints.                                *)
NetworkLines ==
    LET order == Ascending(heights)
        line(h) == Line(h, mweb[h], filters[h], Unspent[mweb[h]], SizeOf(mweb[h]))
    IN  [i \in 1..Len(order) |-> line(order[i])]
===============================================================================
