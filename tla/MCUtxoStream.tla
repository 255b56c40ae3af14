---------------------------- MODULE MCUtxoStream -----------------------------
(***************************************************************************)
(* Instances of UtxoStream, on a fork of one block against two:            *)
(*                                                                         *)
(*    g --- a2           o1 is spent by a2; leaf 2 is oa on a, ob on b     *)
(*      \                oa is mined again in b3, as leaf 3                *)
(*       b2 --- b3       o1 is spent by b3                                 *)
(***************************************************************************)
EXTENDS UtxoStream

MCBlocks == {"g", "a2", "b2", "b3"}
MCOutput == {"o1", "oa", "ob"}
MCPath == [g |-> <<"g">>, a2 |-> <<"g", "a2">>, b2 |-> <<"g", "b2">>,
           b3 |-> <<"g", "b2", "b3">>]
MCWork == [b \in MCBlocks |-> Len(MCPath[b])]
MCOuts == [g |-> <<"o1">>, a2 |-> <<"o1", "oa">>, b2 |-> <<"o1", "ob">>,
           b3 |-> <<"o1", "ob", "oa">>]
MCUnspent == [g |-> {1}, a2 |-> {2}, b2 |-> {1, 2}, b3 |-> {2, 3}]

(* One client that has everything replayed, one that starts at height 2. *)
MCOneSub  == {"s"}
MCOneOwned == [s \in MCOneSub |-> MCOutput]
MCOneFrom == [s \in MCOneSub |-> 2]

(* For the liveness run, a single branch: o1 is spent by b2 and ob, which is *)
(* relayed too, mined there.  One client owns ob; the three notifiers meet it *)
(* and each other.                                                            *)
MCLineBlocks == {"g", "b2"}
MCLinePath == [b \in MCLineBlocks |-> MCPath[b]]
MCLineWork == [b \in MCLineBlocks |-> MCWork[b]]
MCLineOutput == {"o1", "ob"}
MCLineOuts == [b \in MCLineBlocks |-> MCOuts[b]]
MCLineUnspent == [g |-> {1}, b2 |-> {2}]
MCLineOwned == [s \in MCOneSub |-> {"ob"}]
MCLineFrom == [s \in MCOneSub |-> 0]

NoRelays  == {}
OneRelay  == {"oa"}
LineRelay == {"ob"}

NoHazards    == {}
PurgeFail    == {"purge", "dbfail"}
=============================================================================
