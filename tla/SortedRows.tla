----------------------------- MODULE SortedRows -----------------------------
(***************************************************************************)
(* SortOperatorNode with its SortingBlockIterator: all rows of the input   *)
(* are copied to blocks, their positions are sorted by std::sort() with a  *)
(* comparator that reads the rows from the blocks, and the rows are read   *)
(* back in that order.                                                     *)
(***************************************************************************)
EXTENDS RowOperator

VARIABLE
  positions   (* _rows: row number and position of each row                 *)

sortVars == <<copyVars, commonVars, positions>>

Sorting == statement.kind = "sort"

(* The comparator: the orders one after the other; a NULL is neither less  *)
(* nor greater than anything.                                              *)
Less(v, w) == ~ v.null /\ ~ w.null /\ v.n < w.n
InOrder(i, j, order) ==
  IF order.descending THEN Less(Cell(j, order.index), Cell(i, order.index))
  ELSE Less(Cell(i, order.index), Cell(j, order.index))

(* What could go wrong, for the runs that test the properties: any of the  *)
(* orders may decide.                                                      *)
SortOperationByAny(i, j) ==
  \E k \in DOMAIN statement.orders : InOrder(i, j, statement.orders[k])

SortOperation(i, j) ==
  \E k \in DOMAIN statement.orders :
    /\ InOrder(i, j, statement.orders[k])
    /\ \A m \in 1 .. k - 1 : ~ InOrder(j, i, statement.orders[m])
                            /\ ~ InOrder(i, j, statement.orders[m])

(* What std::sort() asks of a comparator.                                  *)
StrictWeakOrder ==
  LET S == {positions[p].row : p \in DOMAIN positions}
      Same(i, j) == ~ SortOperation(i, j) /\ ~ SortOperation(j, i)
  IN  \A i, j, k \in S :
        /\ ~ SortOperation(i, i)
        /\ SortOperation(i, j) /\ SortOperation(j, k) => SortOperation(i, k)
        /\ Same(i, j) /\ Same(j, k) => Same(i, k)

Orderings(s) ==
  {[k \in DOMAIN s |-> s[f[k]]] : f \in {g \in [DOMAIN s -> DOMAIN s] : IsInjective(g)}}
-----------------------------------------------------------------------------
(* The first call creates a block.                                         *)
SortFirstBlock ==
  /\ Sorting /\ pc = "first"
  /\ PushBlock(Empty)
  /\ GoTo("pull")
  /\ UNCHANGED <<commonVars, positions>>

SortFirstBlockThrows ==
  /\ Sorting /\ pc = "first"
  /\ BM!CreateBlockThrows
  /\ Destroy("threw")
  /\ UNCHANGED <<store, cache, statement, in, pulled, col, at, delivered, fault,
                 positions>>

SortPull ==
  /\ Sorting /\ pc = "pull"
  /\ TakeRow
  /\ positions' = Append(positions, [row |-> Pulled.row, at |-> Here])
  /\ col' = 1
  /\ GoTo("copy")
  /\ UNCHANGED <<copyVars, statement, at, delivered, outcome, fault>>

(* The values are copied one by one.  If the first one that does not fit   *)
(* is met the position of the row is assigned once more, unchanged.        *)
SortCopying == Sorting /\ pc = "copy" /\ col \in Columns
SortSize == Cell(Row, col).size
SortCopy ==
  /\ SortCopying
  /\ AddToCurrent(Row, col, SortSize) \/ AddToNext(Row, col, SortSize)
  /\ col' = col + 1
  /\ UNCHANGED <<pc, statement, in, pulled, at, delivered, outcome, fault, positions>>

SortCopyThrows ==
  /\ SortCopying
  /\ AddThrows(SortSize)
  /\ Destroy("threw")
  /\ UNCHANGED <<statement, in, pulled, col, at, delivered, fault, positions>>

SortEndRow ==
  /\ Sorting /\ pc = "copy" /\ col \notin Columns
  /\ WriteMark("BB")
  /\ GoTo("pull")
  /\ UNCHANGED <<commonVars, positions>>

SortEndOfInput ==
  /\ Sorting /\ pc = "pull"
  /\ TakeEnd
  /\ WriteMark("DD")
  /\ GoTo("sort")
  /\ UNCHANGED <<statement, col, at, delivered, outcome, fault, positions>>

(* Every row takes part in a comparison if there is more than one; one     *)
(* that lost a value is not read to its end.                               *)
Comparable ==
  Len(positions) > 1 => \A p \in DOMAIN positions : Complete(positions[p].at, Width)

Sort ==
  /\ Sorting /\ pc = "sort" /\ Comparable
  /\ positions' \in Orderings(positions)
  /\ StrictWeakOrder =>
       \A p, q \in DOMAIN positions :
         p < q => ~ SortOperation(positions'[q].row, positions'[p].row)
  /\ GoTo("next")
  /\ UNCHANGED <<copyVars, commonVars>>

(* Without a strict weak order std::sort() may leave the vector.           *)
SortUndefined ==
  /\ Sorting /\ pc = "sort" /\ Comparable /\ ~ StrictWeakOrder
  /\ Crash("order")
  /\ UNCHANGED <<copyVars, statement, in, pulled, col, at, delivered, outcome, positions>>

SortThrows ==
  /\ Sorting /\ pc = "sort" /\ ~ Comparable
  /\ Destroy("threw")
  /\ UNCHANGED <<copyVars, statement, in, pulled, col, at, delivered, fault, positions>>
-----------------------------------------------------------------------------
(* The rows are read back in the order of their positions.                 *)
NextPosition == positions[Len(delivered) + 1].at
SortedLeft == Sorting /\ pc = "next" /\ Len(delivered) < Len(positions)

SortedRow ==
  /\ SortedLeft /\ Complete(NextPosition, Width)
  /\ delivered' = Append(delivered, RowAt(NextPosition, Width))
  /\ UNCHANGED <<copyVars, pc, statement, in, pulled, col, at, outcome, fault, positions>>

SortedRowThrows ==
  /\ SortedLeft /\ ~ Complete(NextPosition, Width)
  /\ Destroy("threw")
  /\ UNCHANGED <<copyVars, statement, in, pulled, col, at, delivered, fault, positions>>

SortedEnd ==
  /\ Sorting /\ pc = "next" /\ Len(delivered) = Len(positions)
  /\ Destroy("eof")
  /\ UNCHANGED <<copyVars, statement, in, pulled, col, at, delivered, fault, positions>>

SortNext ==
  \/ SortFirstBlock \/ SortFirstBlockThrows \/ SortPull \/ SortCopy
  \/ SortCopyThrows \/ SortEndRow \/ SortEndOfInput \/ Sort \/ SortUndefined
  \/ SortThrows \/ SortedRow \/ SortedRowThrows \/ SortedEnd
=============================================================================
