----------------------------- MODULE MCMwebSync ------------------------------
(***************************************************************************)
(* Instances of MwebSync.  The tree has three branches:                    *)
(*                                                                         *)
(*    g --- a2 --- a3                   o1 spent by a3, o2 by b3           *)
(*            \                         leaf 3 is ob on b, ox on a         *)
(*             b3 --- b4                ox is mined again in b4, as leaf 4 *)
(*               \                      c4 adds no leaf, so that b4 has    *)
(*                c4 --- c5             more; c5 adds leaf 4, spends ob,   *)
(*                                      and mines o2 again, as leaf 5      *)
(***************************************************************************)
EXTENDS MwebSync

MCBlocks == {"g", "a2", "a3", "b3", "b4", "c4", "c5"}
MCOutput == {"o1", "o2", "ox", "ob", "oc"}
MCPath ==
    [g  |-> <<"g">>, a2 |-> <<"g", "a2">>, a3 |-> <<"g", "a2", "a3">>,
     b3 |-> <<"g", "a2", "b3">>, b4 |-> <<"g", "a2", "b3", "b4">>,
     c4 |-> <<"g", "a2", "b3", "c4">>, c5 |-> <<"g", "a2", "b3", "c4", "c5">>]
MCWork == [b \in MCBlocks |-> Len(MCPath[b])]
MCOuts ==
    [g  |-> <<"o1">>, a2 |-> <<"o1", "o2">>, a3 |-> <<"o1", "o2", "ox">>,
     b3 |-> <<"o1", "o2", "ob">>, b4 |-> <<"o1", "o2", "ob", "ox">>,
     c4 |-> <<"o1", "o2", "ob">>, c5 |-> <<"o1", "o2", "ob", "oc", "o2">>]
MCUnspent ==
    [g  |-> {1}, a2 |-> {1, 2}, a3 |-> {2, 3},
     b3 |-> {1, 3}, b4 |-> {1, 3, 4},
     c4 |-> {1, 3}, c5 |-> {1, 4, 5}]

(* A single fork. *)
MCForkBlocks == {"g", "a2", "a3", "b3", "b4"}

Tree(f) == [b \in MCForkBlocks |-> f[b]]
MCForkPath == Tree(MCPath)
MCForkWork == Tree(MCWork)
MCForkOuts == Tree(MCOuts)
MCForkUnspent == Tree(MCUnspent)

(* Three branches that leave the root, each longer than the one before: two *)
(* reorgs to the same height, both deeper than PurgeDepth = 1 when the tip  *)
(* that the handler has read is two blocks above it.                        *)
FanBlocks == {"g", "a2", "b2", "b3", "c2", "c3", "c4"}
FanPath ==
    [g  |-> <<"g">>, a2 |-> <<"g", "a2">>, b2 |-> <<"g", "b2">>, b3 |-> <<"g", "b2", "b3">>,
     c2 |-> <<"g", "c2">>, c3 |-> <<"g", "c2", "c3">>, c4 |-> <<"g", "c2", "c3", "c4">>]
FanWork == [b \in FanBlocks |-> Len(FanPath[b])]
FanOuts ==
    [g  |-> <<"o1">>, a2 |-> <<"o1", "o2">>, b2 |-> <<"o1", "ob">>, b3 |-> <<"o1", "ob", "o2">>,
     c2 |-> <<"o1">>, c3 |-> <<"o1", "oc">>, c4 |-> <<"o1", "oc", "ox">>]
FanUnspent ==
    [g |-> {1}, a2 |-> {1, 2}, b2 |-> {1, 2}, b3 |-> {1, 2, 3}, c2 |-> {1}, c3 |-> {1, 2},
     c4 |-> {1, 2, 3}]

NoHazards      == {}
PeerHazards    == {"stale", "known"}
SilentHazards  == {"stale", "known", "silent"}
OverlapHazard  == {"overlap"}
=============================================================================
