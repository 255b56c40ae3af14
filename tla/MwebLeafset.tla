----------------------------- MODULE MwebLeafset ------------------------------
(***************************************************************************)
(* mwebLeafsetReplayer: the output MMR and the leafset rebuilt from the    *)
(* inputs and outputs of the blocks, and the check of the result against   *)
(* the leaf root a block's JSON names.                                     *)
(*                                                                         *)
(* A replayer is the map output ID -> leaf (0 for an ID it does not hold), *)
(* the set bits, the MMR size, and whether an event has failed.  The bits  *)
(* are kept in whole bytes of ByteBits leaves, and the leaf root is a hash *)
(* of these bytes: it tells two bit arrays apart, but not two MMR sizes    *)
(* that need the same number of bytes.                                     *)
(***************************************************************************)
EXTENDS BlockTree, SequencesExt

CONSTANTS
    ByteBits,   \* leaves per byte of the leafset (8)
    Sized       \* the blocks whose JSON names num_txos

Bytes(size) == (size + ByteBits - 1) \div ByteBits
LeafRoot(bits, size) == <<bits, Bytes(size)>>

EmptyReplayer ==
    [leaf |-> [o \in Output |-> 0], bits |-> {}, size |-> 0, failed |-> FALSE]

(* The outputs a block spends and the outputs it adds, in MMR order. *)
Parent(b) == IF Height(b) = 1 THEN None ELSE Path[b][Height(b) - 1]
SizeOf(b) == IF b = None THEN 0 ELSE Len(Outs[b])
Inputs(b) == {Outs[b][i] : i \in LeafsetOf(Parent(b)) \ Unspent[b]}
Outputs(b) == SubSeq(Outs[b], SizeOf(Parent(b)) + 1, SizeOf(b))
HasLeafsetEvents(b) == Inputs(b) # {} \/ Outputs(b) # <<>>

(* A block's own outputs are unspent in it: its body is cut through, and   *)
(* apply takes the inputs first.                                           *)
ASSUME LeafsetAssumption ==
    /\ ByteBits \in Nat \ {0}
    /\ Sized \subseteq Blocks
    /\ \A b \in Blocks : (SizeOf(Parent(b)) + 1)..SizeOf(b) \subseteq Unspent[b]

AddOutput(r, o) ==
    IF r.failed \/ r.leaf[o] # 0
    THEN [r EXCEPT !.failed = TRUE]
    ELSE [r EXCEPT !.leaf[o] = r.size + 1, !.bits = @ \cup {r.size + 1},
                   !.size = @ + 1]

SpendOutput(r, o) ==
    IF r.failed \/ r.leaf[o] = 0
    THEN [r EXCEPT !.failed = TRUE]
    ELSE [r EXCEPT !.leaf[o] = 0, !.bits = @ \ {r.leaf[o]}]

(* apply: the inputs, then the outputs.  What was done before an event     *)
(* that fails stays done.                                                  *)
Apply(r, b) ==
    FoldLeft(AddOutput, FoldLeft(SpendOutput, r, SetToSeq(Inputs(b))), Outputs(b))

(* Mutant: num_txos is not looked at. *)
VerifyRootOnly(r, b) ==
    ~r.failed /\ LeafRoot(r.bits, r.size) = LeafRoot(Unspent[b], SizeOf(b))

VerifyBlockState(r, b) ==
    /\ ~r.failed
    /\ LeafRoot(r.bits, r.size) = LeafRoot(Unspent[b], SizeOf(b))
    /\ b \in Sized => r.size = SizeOf(b)
=============================================================================
