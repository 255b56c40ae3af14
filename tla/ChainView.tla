------------------------------ MODULE ChainView ------------------------------
(***************************************************************************)
(* What the MWEB coin store promises its readers, without any of the       *)
(* handler's steps: it shows the unspent outputs of one block (view), and  *)
(* it only ever moves that view up or down a single branch, applying       *)
(* exactly the difference between the two leafsets.  To change branch it   *)
(* must first come down to a block both branches share.  Of an output that *)
(* some branch mines twice it only promises not to show it when it is not  *)
(* unspent: the coin store may lose it.                                    *)
(***************************************************************************)
EXTENDS BlockTree

VARIABLES view,     \* the block whose unspent set is shown, or None
          utxos     \* the outputs the store can produce for it

vars == <<view, utxos>>

(* As far as the outputs mined once go. *)
Same(O, P) == O \cap MinedOnce = P \cap MinedOnce

(* A restore checkpoint knows its leafset before it has the coins. *)
Init == view \in {None, Base} /\ utxos \subseteq UnspentOf(view)

Move(b) ==
    /\ view = None \/ Comparable(view, b)
    /\ view' = b
    /\ utxos' \subseteq UnspentOf(b)
    /\ Same(utxos', (utxos \cap UnspentOf(b)) \cup (UnspentOf(b) \ UnspentOf(view)))

(* The store may also be emptied, to be filled again from nothing. *)
Forget == view' = None /\ utxos' = {}

Next == Forget \/ \E b \in Blocks : Move(b)

Spec == Init /\ [][Next]_vars
=============================================================================
