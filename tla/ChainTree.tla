------------------------------ MODULE ChainTree ------------------------------
(***************************************************************************)
(* The block chain as a light client sees it: a tree of blocks.  A header  *)
(* names its parent, so a block stands for its header and for the whole    *)
(* path that leads to it.                                                  *)
(*                                                                         *)
(* Heights are positions on a path: height 1 is the root.                  *)
(***************************************************************************)
EXTENDS Integers, Sequences

CONSTANTS
    Blocks,     \* the blocks of the tree
    Base,       \* its root
    None,       \* no block
    Path        \* block |-> the sequence of blocks from Base to it

Height(b) == Len(Path[b])

(* b is c or an ancestor of c. *)
On(b, c) == Height(b) <= Height(c) /\ Path[c][Height(b)] = b

Comparable(b, c) == On(b, c) \/ On(c, b)

(* Paths are prefix-closed and start at Base. *)
ASSUME PathAssumption ==
    /\ Base \in Blocks
    /\ None \notin Blocks
    /\ Path \in [Blocks -> Seq(Blocks)]
    /\ \A b \in Blocks :
         /\ Len(Path[b]) >= 1
         /\ Path[b][1] = Base
         /\ Path[b][Len(Path[b])] = b
         /\ \A h \in 1..Len(Path[b]) : /\ Len(Path[Path[b][h]]) = h
                                       /\ \A k \in 1..h : Path[Path[b][h]][k] = Path[b][k]

Heights == UNION {1..Height(b) : b \in Blocks}
=============================================================================
