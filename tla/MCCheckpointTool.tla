--------------------------- MODULE MCCheckpointTool ---------------------------
(***************************************************************************)
(* Instances of CheckpointTool.  a3 has events, but its summary shows      *)
(* none, nor how many outputs there are; a4 has none and the leafset of a3.*)
(*                                                                         *)
(*    g --- a2 --- a3 --- a4        o2 added by a2, spent by a3            *)
(*                   \                                                     *)
(*                    b4            spends o1, mines o2 again              *)
(***************************************************************************)
EXTENDS CheckpointTool

MCBlocks == {"g", "a2", "a3", "a4", "b4"}
MCOutput == {"o1", "o2"}
MCPath ==
    [g  |-> <<"g">>, a2 |-> <<"g", "a2">>, a3 |-> <<"g", "a2", "a3">>,
     a4 |-> <<"g", "a2", "a3", "a4">>, b4 |-> <<"g", "a2", "a3", "b4">>]
MCWork == [b \in MCBlocks |-> Len(MCPath[b])]
MCOuts ==
    [g  |-> <<"o1">>, a2 |-> <<"o1", "o2">>, a3 |-> <<"o1", "o2">>,
     a4 |-> <<"o1", "o2">>, b4 |-> <<"o1", "o2", "o2">>]
MCUnspent == [g |-> {1}, a2 |-> {1, 2}, a3 |-> {1}, a4 |-> {1}, b4 |-> {3}]

MCSized == MCBlocks \ {"a3"}
MCUnlisted == {"a3"}
MCWanted == {{0}, {2}, {0, 2}, {2, 4}}

AllModes == {"check", "network", "explorer", "hybrid", "export", "watch"}
FetcherSymmetry == Permutations(Fetchers)
===============================================================================
