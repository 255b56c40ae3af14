------------------------------ MODULE BlockTree ------------------------------
(***************************************************************************)
(* The network as the light client sees it: a tree of blocks, each with    *)
(* its MWEB output MMR (a sequence of output IDs, append-only along a      *)
(* branch) and its leafset (the leaf indices still unspent).  None of it   *)
(* is this program's state: headers and leafsets reach the client verified *)
(* against the block (mweb.VerifyHeader, VerifyLeafset, VerifyUtxos), so a *)
(* block determines all the MWEB data a peer can make the client accept.   *)
(*                                                                         *)
(* The root is the first header the store holds (the MWEB activation       *)
(* block, or the restore checkpoint).  Leaf indices start at 1 where the   *)
(* code's start at 0.  None also stands for "no output".                   *)
(***************************************************************************)
EXTENDS ChainTree

CONSTANTS
    Output,     \* MWEB output IDs
    Work,       \* block |-> cumulative proof of work
    Outs,       \* block |-> the output MMR, leaf index |-> output ID
    Unspent     \* block |-> the leafset: the leaf indices still unspent

(* The MMR is append-only along a branch, a leaf that a branch has spent     *)
(* stays spent on it, and no output is unspent twice at the same time.  An   *)
(* output that was spent may be mined again, as another leaf.                *)
ASSUME MwebAssumption ==
    /\ None \notin Output
    /\ Work \in [Blocks -> Nat]
    /\ Outs \in [Blocks -> Seq(Output)]
    /\ \A b \in Blocks :
         /\ Len(Outs[b]) >= 1
         /\ Unspent[b] \subseteq 1..Len(Outs[b])
         /\ \A i, j \in Unspent[b] : Outs[b][i] = Outs[b][j] => i = j
    /\ \A b, c \in Blocks : On(b, c) =>
         /\ Len(Outs[b]) <= Len(Outs[c])
         /\ \A i \in 1..Len(Outs[b]) : Outs[c][i] = Outs[b][i]
         /\ Unspent[c] \cap (1..Len(Outs[b])) \subseteq Unspent[b]

(* The outputs that no branch mines twice.  The coin store keeps its coins by *)
(* output and removes them by leaf: when an old leaf of an output goes in the *)
(* round in which a new one comes, the coin of the new one goes with it.      *)
MinedOnce ==
    {o \in Output : \A b \in Blocks : \A i, j \in 1..Len(Outs[b]) :
                      Outs[b][i] = o /\ Outs[b][j] = o => i = j}

Leaves  == UNION {1..Len(Outs[b]) : b \in Blocks}

(* The leafset and the unspent outputs of a block, or of no block. *)
LeafsetOf(b) == IF b = None THEN {} ELSE Unspent[b]
UnspentOf(b) == IF b = None THEN {} ELSE {Outs[b][i] : i \in Unspent[b]}

(* The height whose block created leaf i of block b's MMR. *)
MinedAt(b, i) ==
    CHOOSE h \in 1..Height(b) :
        /\ Len(Outs[Path[b][h]]) >= i
        /\ h > 1 => Len(Outs[Path[b][h - 1]]) < i
=============================================================================
