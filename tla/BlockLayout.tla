----------------------------- MODULE BlockLayout -----------------------------
(***************************************************************************)
(* The contents of a memory block (block.cpp, class Block): values, each   *)
(* behind the marker AA, a marker BB behind each row, CC where the rows go *)
(* on in the next block, and DD behind the last row.                       *)
(*                                                                         *)
(* A value is one cell that names the line, or row, and the column it      *)
(* comes from; a marker may name the place at which it was written, or     *)
(* none.  Bytes are counted beside the cells.                              *)
(***************************************************************************)
EXTENDS Naturals, Sequences

CONSTANT
  Capacity (* the bytes of a block                                         *)

Mark(tag, l, c) == [tag |-> tag, line |-> l, col |-> c]
Value(l, c) == [tag |-> "AA", line |-> l, col |-> c]

Cells == [tag : {"AA", "BB", "CC", "DD"}, line : Nat, col : Nat]
Contents == [cells : Seq(Cells), used : Nat]

Empty == [cells |-> <<>>, used |-> 0]

(* A value is added only if two bytes are left for markers behind it.  The *)
(* markers themselves are written without a look at the size.              *)
HasSizeFor(content, size) == content.used + size + 2 < Capacity
HasRoomForMark(content) == content.used < Capacity

Added(content, l, c, size) ==
  [cells |-> Append(content.cells, Value(l, c)),
   used |-> content.used + 1 + size]

MarkedAt(content, tag, l, c) ==
  [cells |-> Append(content.cells, Mark(tag, l, c)),
   used |-> content.used + 1]

Marked(content, tag) == MarkedAt(content, tag, 0, 0)

(* What could go wrong, for the runs that test the properties: the value   *)
(* is not added again.                                                     *)
OpenedEmpty(l, c, size) == Empty

(* A new block with the value that did not fit into the last one.  Whether *)
(* it fits now is not looked at.                                           *)
Opened(l, c, size) ==
  IF HasSizeFor(Empty, size) THEN Added(Empty, l, c, size) ELSE Empty
=============================================================================
