---------------------------- MODULE CheckpointLine ----------------------------
(***************************************************************************)
(* A restore checkpoint, as one line of text: a height, the block header   *)
(* there, its filter header, its leafset and the size of its output MMR    *)
(* (internal/checkpoint).  A header names a block and a filter header      *)
(* commits to the filters of a whole path, so blocks stand for both.       *)
(*                                                                         *)
(* An archive is a file of such lines.  What an append that did not end    *)
(* leaves of its line is "torn", or "open" when only the newline is        *)
(* missing; the next append is joined to it and makes it "bad".            *)
(***************************************************************************)
EXTENDS MwebLeafset

Line(h, b, f, bits, size) ==
    [height |-> h, block |-> b, filter |-> f, bits |-> bits, size |-> size]

NoLine == Line(0, None, None, {}, 0)

(* Every part of the line is of the one block.                             *)
TrueLine(l) ==
    /\ l.height = Height(l.block)
    /\ l.filter = l.block
    /\ l.bits = Unspent[l.block]
    /\ l.block \in Sized => l.size = SizeOf(l.block)

Entry(state, l) ==
    [state |-> state, line |-> IF state \in {"whole", "open"} THEN l ELSE NoLine]

(* Parse takes a whole line, with or without its newline.                  *)
Parses(e) == e.state \in {"whole", "open"}

Unterminated(file) == file # <<>> /\ file[Len(file)].state \in {"torn", "open"}

(* The file once e has been written at its end.                            *)
Appended(file, e) ==
    IF Unterminated(file)
    THEN [file EXCEPT ![Len(file)] = Entry(IF e.state = "whole" THEN "bad" ELSE "torn", NoLine)]
    ELSE Append(file, e)
===============================================================================
