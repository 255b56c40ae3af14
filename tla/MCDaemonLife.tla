---------------------------- MODULE MCDaemonLife ----------------------------
(***************************************************************************)
(* Instances of DaemonLife: one checkpoint, a fork above it.               *)
(*                                                                         *)
(*    g --- q --- a3          checkpoint q                                 *)
(*            \                                                            *)
(*             b3                                                          *)
(***************************************************************************)
EXTENDS DaemonLife

MCBlocks == {"g", "q", "a3", "b3"}
MCPath == [g |-> <<"g">>, q |-> <<"g", "q">>, a3 |-> <<"g", "q", "a3">>,
           b3 |-> <<"g", "q", "b3">>]
MCCheckpoints == {"q"}
KillHazards == {"truncate", "seed"}
=============================================================================
