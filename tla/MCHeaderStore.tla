---------------------------- MODULE MCHeaderStore ----------------------------
(***************************************************************************)
(* Instances of HeaderStore: two checkpoints on the trunk, a fork above.   *)
(*                                                                         *)
(*    g --- p --- q --- a4          checkpoints p and q                    *)
(*                  \                                                      *)
(*                   b4 --- b5                                             *)
(***************************************************************************)
EXTENDS HeaderStore

MCBlocks == {"g", "p", "q", "a4", "b4", "b5"}
MCPath ==
    [g  |-> <<"g">>, p |-> <<"g", "p">>, q |-> <<"g", "p", "q">>,
     a4 |-> <<"g", "p", "q", "a4">>, b4 |-> <<"g", "p", "q", "b4">>,
     b5 |-> <<"g", "p", "q", "b4", "b5">>]
MCCheckpoints == {"p", "q"}

CutHazard == {"truncate"}
=============================================================================
