----------------------------- MODULE MCHashJoin -----------------------------
(***************************************************************************)
(* Inputs for the model checking of HashJoin with blocks of 11 bytes: a    *)
(* value of size 8 is the largest that fits into a block.                  *)
(***************************************************************************)
EXTENDS HashJoin

Key(t, n) == [type |-> t, n |-> n, null |-> FALSE]
Null(t) == [type |-> t, n |-> 0, null |-> TRUE]
IntKey(n) == Key("INT", n)
RealKey(n) == Key("REAL", n)
StrKey(n) == Key("STRING", n)

(* A right row with key k in block b of the right input.                   *)
Row(k, sizes, b) == [key |-> k, sizes |-> sizes, block |-> b]

(* Duplicates on both sides, NULL keys, the number 0, rows cut by the end  *)
(* of a block at every place.                                              *)
IntInputs ==
  {[lhs |-> <<IntKey(1), Null("INT"), IntKey(0), IntKey(1)>>,
    rhs |-> <<Row(IntKey(1), <<1, 1>>, 1), Row(Null("INT"), <<1, 1>>, 1),
              Row(IntKey(0), <<1, 2>>, 1), Row(IntKey(1), <<4, 1>>, 2)>>],
   [lhs |-> <<IntKey(2), IntKey(1)>>,
    rhs |-> <<Row(IntKey(1), <<1, 8>>, 1), Row(IntKey(1), <<8, 1>>, 2),
              Row(IntKey(1), <<4, 4>>, 3)>>],
   [lhs |-> <<IntKey(1)>>, rhs |-> <<Row(IntKey(1), <<4, 4>>, 1)>>]}

(* A right input without rows, a left input without rows, a value that     *)
(* fits into no block.                                                     *)
EdgeInputs ==
  {[lhs |-> <<IntKey(1), IntKey(1)>>, rhs |-> <<>>],
   [lhs |-> <<>>, rhs |-> <<Row(IntKey(1), <<1, 1>>, 1)>>],
   [lhs |-> <<IntKey(1), IntKey(2)>>,
    rhs |-> <<Row(IntKey(1), <<1, 1>>, 1), Row(IntKey(2), <<9, 1>>, 1)>>]}

(* Strings from one block, from two, and from three.                       *)
ShortStrings ==
  {[lhs |-> <<StrKey(1), StrKey(2)>>,
    rhs |-> <<Row(StrKey(2), <<3, 1>>, 1), Row(StrKey(1), <<3, 1>>, 2),
              Row(StrKey(2), <<3, 1>>, 2)>>]}
LongStrings ==
  {[lhs |-> <<StrKey(1), StrKey(2)>>,
    rhs |-> <<Row(StrKey(1), <<3, 1>>, 1), Row(StrKey(3), <<3, 1>>, 2),
              Row(StrKey(2), <<3, 1>>, 3)>>]}

(* An INT column joined with a REAL column: 0 and 0.0 have the same hash.  *)
MixedInputs ==
  {[lhs |-> <<IntKey(2), IntKey(0)>>, rhs |-> <<Row(RealKey(0), <<1>>, 1)>>],
   [lhs |-> <<IntKey(1)>>, rhs |-> <<Row(RealKey(1), <<1>>, 1)>>]}

AllInputs ==
  IntInputs \cup EdgeInputs \cup ShortStrings \cup LongStrings \cup MixedInputs
=============================================================================
