-------------------------- MODULE MCNestedLoopJoin --------------------------
(***************************************************************************)
(* Inputs for the model checking of NestedLoopJoin with blocks of 11       *)
(* bytes: a value of size 8 is the largest that fits into a block.         *)
(***************************************************************************)
EXTENDS NestedLoopJoin

Input(l, rows, on, unknown) ==
  [lhs |-> l, rhs |-> rows, on |-> on, unknown |-> unknown]
Every(l, rows) == (1 .. l) \X (1 .. Len(rows))
Cross(l, rows) == Input(l, rows, Every(l, rows), {})

(* Rows that leave room, fill a block, are cut in the middle, and have a   *)
(* first or last value that fits into no block.                            *)
SomeRows == {<<1, 1>>, <<1, 8>>, <<4, 4>>, <<8, 1>>, <<1, 9>>, <<9, 1>>}
Tables == {<<>>} \cup {<<r>> : r \in SomeRows} \cup (SomeRows \X SomeRows)

ThreeRows == <<<<1, 2>>, <<3, 1>>, <<1, 1>>>>

(* Conditions that pass over rows at the start, in the middle and at the   *)
(* end, over all rows, and that are NULL for a later row.                  *)
Conditions ==
  {Input(3, ThreeRows, {<<1, 2>>, <<3, 1>>, <<3, 3>>}, {}),
   Input(2, ThreeRows, {}, {}),
   Input(2, ThreeRows, {<<1, 1>>, <<2, 3>>}, {<<2, 2>>})}

AllInputs ==
  {Cross(2, t) : t \in Tables} \cup {Cross(3, ThreeRows)} \cup Conditions
  \cup {Cross(0, ThreeRows), Cross(1, <<<<1, 9>>>>), Cross(1, <<>>)}
=============================================================================
