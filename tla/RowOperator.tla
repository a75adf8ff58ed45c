----------------------------- MODULE RowOperator -----------------------------
(***************************************************************************)
(* What the operators that compute new rows (sort, grouping, aggregation,  *)
(* extended projection) have in common: the statement, the operators below *)
(* that they pull their rows from (UnionOperatorNode, LimitOperatorNode,   *)
(* each getNextRow() of them one step), and the end of a statement.        *)
(*                                                                         *)
(* A row of the input is its values, told by number, and the block of the  *)
(* input it points into: a scan gives a block back when it has moved two   *)
(* blocks on.  All code runs in the thread of the query.                   *)
(***************************************************************************)
EXTENDS Integers, SequencesExt, RowCopies

CONSTANT
  Statements  (* what is executed: see Columns, LimitNext and the operators *)

(* The functions of a select list; those that serve a GROUP BY only are    *)
(* suppressed.                                                             *)
ResultsOf(s) ==
  SelectSeq([f \in DOMAIN s.functions |-> f], LAMBDA f : ~ s.functions[f].suppress)

(* What statements are made of: rows with a value for each column, lists   *)
(* that name columns, and at least one result for a row that is computed.  *)
(* A value passes through a group only where it is one of the GROUP BY.    *)
ValueTypes ==
  {"NONE", "BOOLEAN", "INT", "REAL", "STRING", "DATE", "TIME", "TIMESTAMP"}
CellValues == [type : ValueTypes, n : Int, null : BOOLEAN, size : Nat]
InputRows(types) ==
  Seq([values : {v \in Seq(CellValues) : Len(v) = Len(types)}, block : Nat])
ColumnsOf(s) == 1 .. Len(s.types)
FunctionNames ==
  {"COUNT", "COUNT_STAR", "SUM", "AVG", "MIN", "MAX", "ARBITRARY", "PATHTHROUGH"}
FunctionsOn(columns) ==
  [function : FunctionNames, type : ValueTypes, column : columns, suppress : BOOLEAN]

ASSUME StatementsAssumption ==
  \A s \in Statements :
    /\ s.kind \in {"sort", "group", "aggregate", "project"}
    /\ s.types \in Seq(ValueTypes) /\ s.types # <<>>
    /\ s.rows \in InputRows(s.types) /\ s.more \in InputRows(s.types)
    /\ s.union \in BOOLEAN /\ s.limit \in Int /\ s.offset \in Nat /\ s.held \in Nat
    /\ s.kind = "sort" =>
         s.orders \in Seq([index : ColumnsOf(s), descending : BOOLEAN])
    /\ s.kind = "project" => s.list \in Seq(ColumnsOf(s)) /\ s.list # <<>>
    /\ s.kind = "group" => s.keys \in Seq(ColumnsOf(s))
    /\ s.kind \in {"group", "aggregate"} =>
         /\ s.functions \in Seq(FunctionsOn(ColumnsOf(s)))
         /\ ResultsOf(s) \in Seq(DOMAIN s.functions) \ {<<>>}
         /\ \A f \in ToSet(s.functions) :
              f.function = "PATHTHROUGH" => s.kind = "group" /\ f.column \in ToSet(s.keys)

VARIABLES
  statement, pc,
  in,         (* the operators below: _limit and _offset, the rows they     *)
              (* pulled, whether the union has changed to its second input, *)
              (* and how often the end was reported                         *)
  pulled,     (* the rows pulled by the operator, as numbers                *)
  col,        (* the value that is copied next                              *)
  at,         (* BlockPosition from which a row is read back                *)
  delivered, outcome,
  fault       (* the undefined behaviour reached, or "none"                 *)

commonVars == <<statement, in, pulled, col, at, delivered, outcome, fault>>

(* The rows of both inputs of the union; the second one may be empty.      *)
Rows == statement.rows \o statement.more
Cell(r, c) == Rows[r].values[c]
Width == Len(statement.types)
Columns == 1 .. Width
Row == Last(pulled)

(* The input, at row s, has given back the block that row r is in.         *)
Released(r, s) == Rows[r].block + 2 <= Rows[s].block
-----------------------------------------------------------------------------
(* LimitOperatorNode::getNextRow().  _limit is one more than the LIMIT, or *)
(* -1 without one (which an operator that is not there stands for).  The   *)
(* result is the new state and the number of the row, or 0.                *)
Nothing(state) == [state |-> state, row |-> 0]

(* The first input of the union delivers its next row.                     *)
FirstNext(state) ==
  IF state.pos < Len(statement.rows)
  THEN [state |-> [state EXCEPT !.pos = @ + 1], row |-> state.pos + 1]
  ELSE Nothing(state)

SkippedOffset(state) == [state EXCEPT !.pos = @ + state.offset, !.offset = 0]

LimitNext(state) ==
  LET left == Len(statement.rows) - state.pos
  IN  IF state.offset > left
      THEN Nothing([state EXCEPT !.pos = Len(statement.rows), !.offset = @ - left])
      ELSE LET s == IF state.offset > 0 THEN SkippedOffset(state) ELSE state
               c == [s EXCEPT !.limit = IF @ > 0 THEN @ - 1 ELSE @]
           IN  IF s.limit = 1 THEN Nothing(c) ELSE FirstNext(c)

(* UnionOperatorNode::getNextRow(): at the end of the first input it takes *)
(* the second one for good.  Without a union there is only the first.      *)
SecondNext(state) ==
  IF state.second < Len(statement.more)
  THEN [state |-> [state EXCEPT !.second = @ + 1],
        row |-> Len(statement.rows) + state.second + 1]
  ELSE Nothing(state)

UnionNext(state) ==
  IF state.firstEnded THEN SecondNext(state)
  ELSE LET first == LimitNext(state)
       IN  IF first.row > 0 \/ ~ statement.union THEN first
           ELSE SecondNext([first.state EXCEPT !.firstEnded = TRUE])

(* getNextRow() of the input.                                              *)
Pulled == UnionNext(in)
InputHasRow == Pulled.row > 0
TakeRow ==
  /\ InputHasRow
  /\ in' = Pulled.state
  /\ pulled' = Append(pulled, Pulled.row)
TakeEnd ==
  /\ ~ InputHasRow
  /\ in' = [Pulled.state EXCEPT !.ends = @ + 1]
  /\ UNCHANGED pulled
-----------------------------------------------------------------------------
Nowhere == [block |-> 0, offset |-> 0]
Start == [block |-> 1, offset |-> 0]

(* Other operators of the plan hold the first blocks.                      *)
HeldBefore == 1 .. statement.held

CommonInit ==
  /\ statement \in Statements
  /\ blocks = HeldBefore
  /\ activeBlocks = statement.held /\ maxCountActiveBlocks = statement.held
  /\ totalBlocks = statement.held /\ sBlockNumber = statement.held
  /\ store = [b \in HeldBefore |-> Empty] /\ cache = <<>>
  /\ pc = "first"
  /\ in = [limit |-> IF statement.limit < 0 THEN -1 ELSE statement.limit + 1,
           offset |-> statement.offset, pos |-> 0, second |-> 0,
           firstEnded |-> FALSE, ends |-> 0]
  /\ pulled = <<>> /\ col = 1 /\ at = Nowhere
  /\ delivered = <<>> /\ outcome = "open" /\ fault = "none"

GoTo(next) == pc' = next

(* getNextRow() returns nullptr or throws, or is not called any more: the  *)
(* operators are destroyed.                                                *)
Destroy(how) ==
  /\ outcome = "open"
  /\ outcome' = how
  /\ GoTo("release")

Crash(what) ==
  /\ fault' = what
  /\ GoTo("crashed")

(* An operator below throws.                                               *)
InputThrows ==
  /\ pc = "pull"
  /\ Destroy("failed")
  /\ UNCHANGED <<copyVars, statement, in, pulled, col, at, delivered, fault>>

(* The rows that the first operators below deliver, by their numbers.      *)
Taken ==
  LET n == Len(statement.rows)
      from == IF statement.offset < n THEN statement.offset ELSE n
      upTo == IF statement.limit < 0 \/ from + statement.limit > n THEN n
              ELSE from + statement.limit
  IN  [k \in 1 .. upTo - from |-> from + k]
        \o (IF statement.union
            THEN [k \in 1 .. Len(statement.more) |-> n + k] ELSE <<>>)

(* The value fits into no block and is dropped without a word.             *)
Lost(size) == ~ HasSizeFor(Empty, size)
=============================================================================
