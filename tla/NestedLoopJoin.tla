--------------------------- MODULE NestedLoopJoin ---------------------------
(***************************************************************************)
(* CrossJoinOperatorNode and InnerJoinOperatorNode with their              *)
(* CachingBlockIterator: while the first left row meets the rows of the    *)
(* right input they are copied into blocks; each further left row meets    *)
(* the rows read back from there.                                          *)
(*                                                                         *)
(* All code runs in the thread of the query.  The engine runs one join     *)
(* after the other with the same block manager.                            *)
(***************************************************************************)
EXTENDS RowCopies

CONSTANTS
  Inputs,   (* the inputs of the joins, see CrossProduct                    *)
  MaxJoins  (* bound: the joins that one engine runs                        *)

(* A table has at least one column, the same number in each row.           *)
ASSUME JoinAssumption ==
  /\ \A in \in Inputs :
       /\ in.lhs \in Nat /\ in.rhs \in Seq(Seq(Nat) \ {<<>>})
       /\ \A r \in DOMAIN in.rhs : Len(in.rhs[r]) = Len(in.rhs[1])
  /\ MaxJoins \in Nat

VARIABLES
  pc,         (* where getNextRow() of the join is                          *)
  joins,      (* how many joins were begun                                  *)
  input,      (* the inputs of the current one                              *)
  rpos, lpos, (* the rows pulled from the right and from the left input     *)
  col,        (* the value of the right row that is copied next             *)
  useCache,   (* _useCache of the iterator                                  *)
  at,         (* its _currentBlock and _offset, when it reads blocks        *)
  row,        (* the right row it returned, as the origins of the values    *)
  delivered, outcome,
  fault       (* the undefined behaviour reached, or "none"                 *)

vars == <<copyVars, pc, joins, input, rpos, lpos, col, useCache, at, row,
          delivered, outcome, fault>>

CP == INSTANCE CrossProduct

Start == [block |-> 1, offset |-> 0]
RightRow == input.rhs[rpos]
Width == Len(input.rhs[1])

(* getNextRow() is left with an exception, or not called any more: the     *)
(* plan is destroyed.                                                      *)
Destroy(how) ==
  /\ outcome' = how
  /\ pc' = "release"
  /\ UNCHANGED <<joins, input, rpos, lpos, col, useCache, at, row, delivered,
                 fault>>

GoTo(label) ==
  /\ pc' = label
  /\ UNCHANGED <<joins, input, outcome, fault>>
-----------------------------------------------------------------------------
Init ==
  /\ BM!Init
  /\ store = <<>> /\ cache = <<>>
  /\ pc = "closed" /\ joins = 0 /\ input \in Inputs
  /\ rpos = 0 /\ lpos = 0 /\ col = 1
  /\ useCache = FALSE /\ at = Start /\ row = <<>>
  /\ delivered = <<>> /\ outcome = "none" /\ fault = "none"

NewJoin ==
  /\ pc = "closed" /\ joins < MaxJoins
  /\ joins' = joins + 1
  /\ pc' = "left"
  /\ input' \in Inputs
  /\ rpos' = 0 /\ lpos' = 0 /\ col' = 1
  /\ useCache' = FALSE /\ at' = Start /\ row' = <<>>
  /\ cache' = <<>>
  /\ delivered' = <<>> /\ outcome' = "open"
  /\ UNCHANGED <<managerVars, store, fault>>

(* The left input returns its next row.  Unless it is the first one the    *)
(* iterator is rewound.                                                    *)
NextLeft ==
  /\ pc = "left" /\ lpos < input.lhs
  /\ lpos' = lpos + 1
  /\ useCache' = (lpos > 0) /\ at' = Start
  /\ GoTo("right")
  /\ UNCHANGED <<copyVars, rpos, col, row, delivered>>

EndOfLeft ==
  /\ pc = "left" /\ lpos = input.lhs
  /\ Destroy("eof")
  /\ UNCHANGED copyVars

(* The first getNextRow() of the iterator creates a block.                 *)
FirstBlock ==
  /\ pc = "right" /\ cache = <<>>
  /\ PushBlock(Empty)
  /\ GoTo("right")
  /\ UNCHANGED <<rpos, lpos, col, useCache, at, row, delivered>>

FirstBlockThrows ==
  /\ pc = "right" /\ cache = <<>>
  /\ BM!CreateBlockThrows
  /\ Destroy("limit")
  /\ UNCHANGED <<store, cache>>
-----------------------------------------------------------------------------
(* The rows of the right input, while they are copied.                     *)
FromInput == pc = "right" /\ cache # <<>> /\ ~ useCache

PullRight ==
  /\ FromInput /\ rpos < Len(input.rhs)
  /\ rpos' = rpos + 1
  /\ col' = 1
  /\ GoTo("copy")
  /\ UNCHANGED <<copyVars, lpos, useCache, at, row, delivered>>

Copying == pc = "copy" /\ col <= Len(RightRow)
Copy ==
  /\ Copying
  /\ col' = col + 1
  /\ GoTo("copy")
  /\ UNCHANGED <<rpos, lpos, useCache, at, row, delivered>>

CopyValue == Copy /\ AddToCurrent(rpos, col, RightRow[col])

(* The value does not fit: the block is closed and a new one is taken.     *)
CopyToNextBlock == Copy /\ AddToNext(rpos, col, RightRow[col])

CopyThrows ==
  /\ Copying
  /\ AddThrows(RightRow[col])
  /\ Destroy("limit")

(* The row is copied; the one of the input is returned.                    *)
EndRow ==
  /\ pc = "copy" /\ col > Len(RightRow)
  /\ WriteMark("BB")
  /\ row' = [c \in DOMAIN RightRow |-> <<rpos, c>>]
  /\ GoTo("pair")
  /\ UNCHANGED <<rpos, lpos, col, useCache, at, delivered>>

EndOfRight ==
  /\ FromInput /\ rpos = Len(input.rhs)
  /\ WriteMark("DD")
  /\ GoTo("left")
  /\ UNCHANGED <<rpos, lpos, col, useCache, at, row, delivered>>

(* An input throws.                                                        *)
InputThrows ==
  /\ pc = "left" \/ FromInput
  /\ Destroy("input")
  /\ UNCHANGED copyVars
-----------------------------------------------------------------------------
(* The rows read back.  Between two rows the iterator is at the marker     *)
(* behind the first, and where the next one starts may be a next-block     *)
(* marker.  What could go wrong, for the runs that test the properties:    *)
(* the marker is not skipped.                                              *)
FromBlocks == pc = "right" /\ cache # <<>> /\ useCache
RowStartHere == at
AtDelimiter == at.offset = 0 \/ TagAt(at) = "BB"
RowStart == IF at.offset = 0 THEN at ELSE After(at)
BehindRow(p) == After(ValuePositions(p, Width)[Width])

ReadRow ==
  /\ FromBlocks /\ AtDelimiter /\ TagAt(RowStart) # "DD"
  /\ Complete(RowStart, Width)
  /\ row' = RowAt(RowStart, Width)
  /\ at' = BehindRow(RowStart)
  /\ GoTo("pair")
  /\ UNCHANGED <<copyVars, rpos, lpos, col, useCache, delivered>>

(* A value was too large for any block and is missing.                     *)
ReadRowThrows ==
  /\ FromBlocks
  /\ ~ AtDelimiter \/ (TagAt(RowStart) # "DD" /\ ~ Complete(RowStart, Width))
  /\ Destroy("value")
  /\ UNCHANGED copyVars

(* What could go wrong: the end of the blocks is taken for the end of the  *)
(* join.                                                                   *)
EndOfJoin ==
  /\ FromBlocks /\ AtDelimiter /\ TagAt(RowStart) = "DD" /\ at # Start
  /\ Destroy("eof")
  /\ UNCHANGED copyVars

EndOfBlocks ==
  /\ FromBlocks /\ AtDelimiter /\ TagAt(RowStart) = "DD" /\ at # Start
  /\ GoTo("left")
  /\ UNCHANGED <<copyVars, rpos, lpos, col, useCache, at, row, delivered>>

(* The join expects a row from an iterator that it has just rewound.       *)
UseMissingRow ==
  /\ FromBlocks /\ TagAt(RowStart) = "DD" /\ at = Start
  /\ fault' = "row"
  /\ UNCHANGED <<copyVars, pc, joins, input, rpos, lpos, col, useCache, at, row,
                 delivered, outcome>>
-----------------------------------------------------------------------------
(* The condition of an inner join is a question about the values of both   *)
(* rows; a cross join returns every pair.  row[1][1] is the right row from *)
(* which the first value comes.                                            *)
Pair == <<lpos, row[1][1]>>

Deliver ==
  /\ pc = "pair" /\ Pair \in input.on
  /\ delivered' = Append(delivered, [lhs |-> lpos, rhs |-> row])
  /\ GoTo("returned")
  /\ UNCHANGED <<copyVars, rpos, lpos, col, useCache, at, row>>

SkipPair ==
  /\ pc = "pair" /\ Pair \notin input.on \cup input.unknown
  /\ GoTo("right")
  /\ UNCHANGED <<copyVars, rpos, lpos, col, useCache, at, row, delivered>>

(* asBool() of a condition that is NULL.                                   *)
ConditionThrows ==
  /\ pc = "pair" /\ Pair \in input.unknown
  /\ Destroy("condition")
  /\ UNCHANGED copyVars

(* The operator above calls again, or has all it wants.                    *)
CallAgain ==
  /\ pc = "returned"
  /\ GoTo("right")
  /\ UNCHANGED <<copyVars, rpos, lpos, col, useCache, at, row, delivered>>

Abandon ==
  /\ pc = "returned"
  /\ Destroy("abandoned")
  /\ UNCHANGED copyVars

(* What could go wrong: only the current block is given back.              *)
ReleaseCurrent ==
  /\ pc = "release" /\ ~ AllReleased
  /\ BM!Release(cache[Len(cache)])
  /\ cache' = <<>>
  /\ UNCHANGED <<store, pc, joins, input, rpos, lpos, col, useCache, at, row,
                 delivered, outcome, fault>>

(* The destructor of the iterator.                                         *)
ReleaseBlocks ==
  /\ pc = "release"
  /\ ReleaseNext
  /\ UNCHANGED <<pc, joins, input, rpos, lpos, col, useCache, at, row,
                 delivered, outcome, fault>>

Close ==
  /\ pc = "release" /\ AllReleased
  /\ GoTo("closed")
  /\ UNCHANGED <<copyVars, rpos, lpos, col, useCache, at, row, delivered>>

Join ==
  \/ NextLeft \/ EndOfLeft \/ FirstBlock \/ FirstBlockThrows
  \/ PullRight \/ CopyValue \/ CopyToNextBlock \/ CopyThrows \/ EndRow
  \/ EndOfRight
  \/ ReadRow \/ ReadRowThrows \/ EndOfBlocks \/ UseMissingRow
  \/ Deliver \/ SkipPair \/ ConditionThrows \/ CallAgain
  \/ ReleaseBlocks \/ Close

Stopped ==
  /\ (pc = "closed" /\ joins = MaxJoins) \/ fault # "none"
  /\ UNCHANGED vars

Next ==
  \/ fault = "none" /\ (Join \/ NewJoin \/ InputThrows \/ Abandon)
  \/ Stopped

(* A statement that runs goes on.                                          *)
Spec == Init /\ [][Next]_vars /\ WF_vars(fault = "none" /\ Join)
-----------------------------------------------------------------------------
Rows == Seq(Nat \X Nat)

TypeOK ==
  /\ CopiesOK
  /\ pc \in {"closed", "left", "right", "copy", "pair", "returned", "release"}
  /\ joins \in 0 .. MaxJoins /\ input \in Inputs
  /\ rpos \in 0 .. Len(input.rhs) /\ lpos \in 0 .. input.lhs
  /\ col \in Nat \ {0}
  /\ useCache \in BOOLEAN
  /\ at \in [block : Nat \ {0}, offset : Nat]
  /\ row \in Rows
  /\ delivered \in Seq([lhs : Nat, rhs : Rows])
  /\ outcome \in {"none", "open", "eof", "input", "limit", "value", "condition",
                  "abandoned"}
  /\ fault \in {"none", "row"}

(* Every join is the cross product, or the part of it that the condition   *)
(* selects: a left row that meets rows read back from blocks meets the     *)
(* same rows, in the same order, as the first one, which met those of the  *)
(* input.                                                                  *)
ImplementsCrossProduct == CP!Spec

(* Where something can go wrong that the first left row does not show: a   *)
(* right input without rows, or with a value that is too large for any     *)
(* block, and a second left row.  All variables keep their types.          *)
FailuresExplained ==
  /\ TypeOK
  /\ fault = "row" => input.rhs = <<>> /\ input.lhs > 1
  /\ outcome = "value" =>
       /\ input.lhs > 1
       /\ \E r \in DOMAIN input.rhs : \E c \in DOMAIN input.rhs[r] :
            ~ HasSizeFor(Empty, input.rhs[r][c])

(* Whether a join ends, fails while it fills its blocks or while it reads  *)
(* them, or is abandoned, it gives all of its blocks back.                 *)
BlocksGivenBack == pc = "closed" => blocks = {}

(* Every join that is begun comes to its end: no row is read twice without *)
(* an end, whichever rows the condition passes over.                       *)
JoinEnds == outcome = "open" ~> (pc = "closed" \/ fault # "none")
=============================================================================
