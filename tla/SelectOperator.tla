--------------------------- MODULE SelectOperator ---------------------------
(***************************************************************************)
(* SelectOperatorNode with its StackMachine and VariableStore: for each    *)
(* row of the input the columns of the condition are copied to the store,  *)
(* the code of the condition is run instruction by instruction on a stack, *)
(* and the row is passed on if the value on top is true.  InnerJoin uses   *)
(* machine and store in the same way.                                      *)
(***************************************************************************)
EXTENDS Expressions

CONSTANTS
  Conditions, (* the conditions a statement may have, see Expressions       *)
  Inputs      (* the sequences of rows, functions from columns to values    *)

VARIABLES
  condition, rows,
  pc,        (* "pull", "fill", "run", "end"                         *)
  pos,       (* the row pulled last                                         *)
  filled,    (* how many columns of it are in the store                     *)
  store,     (* [size, cells]: size() of _variables, and its whole capacity *)
  stack, ip, (* the value stack, top last; the next instruction             *)
  selected, outcome,
  fault      (* the undefined behaviour reached, or "none"                  *)

vars == <<condition, rows, pc, pos, filled, store, stack, ip, selected, outcome, fault>>

Row == rows[pos]
Program == Code(condition)
FillOrder == SetToSortSeq(Collected(condition), <)
Index(column) == Mapping(Program)[column] + 1

(* Memory of the vector behind its last element.                           *)
Raw == Value("RAW", 0)
-----------------------------------------------------------------------------
Init ==
  /\ condition \in Conditions /\ rows \in Inputs
  /\ pc = "pull" /\ pos = 0 /\ filled = 0
  /\ store = [size |-> 0, cells |-> <<>>]
  /\ stack = <<>> /\ ip = 1
  /\ selected = <<>> /\ outcome = "open" /\ fault = "none"

PullRow ==
  /\ pc = "pull" /\ pos < Len(rows)
  /\ pos' = pos + 1
  /\ filled' = 0
  /\ pc' = "fill"
  /\ UNCHANGED <<condition, rows, store, stack, ip, selected, outcome, fault>>

EndOfRows ==
  /\ pc = "pull" /\ pos = Len(rows)
  /\ outcome' = "eof"
  /\ pc' = "end"
  /\ UNCHANGED <<condition, rows, pos, filled, store, stack, ip, selected, fault>>

(* addVariable(): the vector is resized if its capacity is too small, not  *)
(* if its size is.  A vector that grows takes room for twice its size, or  *)
(* for as many elements as are asked for.  Only elements survive.          *)
Grown(s, index) ==
  LET capacity == s.size + Greatest(s.size, index - s.size)
  IN  [size  |-> index,
       cells |-> [k \in 1 .. capacity |->
                    IF k <= s.size THEN s.cells[k]
                    ELSE IF k <= index THEN NoValue ELSE Raw]]

Resized(s, index) == IF Len(s.cells) < index THEN Grown(s, index) ELSE s

NextColumn == FillOrder[filled + 1]
Filling == pc = "fill" /\ filled < Len(FillOrder)
RoomFor(index) == Resized(store, index)

(* The assignment to memory that never held a Variant may happen to work.  *)
FillColumn ==
  LET index == Index(NextColumn) IN
  /\ Filling
  /\ store' = [RoomFor(index) EXCEPT !.cells[index] = Row[NextColumn]]
  /\ filled' = filled + 1
  /\ UNCHANGED <<condition, rows, pc, pos, stack, ip, selected, outcome, fault>>

Crash(what) ==
  /\ fault' = what
  /\ pc' = "end"
  /\ UNCHANGED <<condition, rows, pos, filled, store, stack, ip, selected, outcome>>

FillRawMemory ==
  LET index == Index(NextColumn) IN
  /\ Filling
  /\ RoomFor(index).cells[index] = Raw
  /\ Crash("uninitialised")

(* What could go wrong, for the runs that test the properties: the stack   *)
(* of the last row is kept.                                                *)
StartWithoutReset ==
  /\ pc = "fill" /\ filled = Len(FillOrder)
  /\ ip' = 1
  /\ pc' = "run"
  /\ UNCHANGED <<condition, rows, pos, filled, store, stack, selected, outcome, fault>>

(* evaluate() begins with reset().                                         *)
Start ==
  /\ pc = "fill" /\ filled = Len(FillOrder)
  /\ stack' = <<>> /\ ip' = 1
  /\ pc' = "run"
  /\ UNCHANGED <<condition, rows, pos, filled, store, selected, outcome, fault>>
-----------------------------------------------------------------------------
(* The instructions.  FromTop(k) is the value that the k-th                *)
(* getNextValue() would return.                                            *)
Instruction == Program[ip]
FromTop(k) == stack[Len(stack) - k + 1]
Below(k) == SubSeq(stack, 1, Len(stack) - k)

(* BETWEEN, whose bounds may come in either order.                         *)
BetweenBounds(v, lower, upper) ==
  LET above == BinaryOperation("GE", v, lower)
  IN  IF above = Throws \/ ~ AsBool(above) THEN above
      ELSE BinaryOperation("LE", v, upper)

BetweenValue(v, from, to) ==
  LET ascending == BinaryOperation("GE", to, from) IN
  IF v.null \/ from.null \/ to.null THEN Null("BOOLEAN")
  ELSE IF ascending = Throws THEN Throws
  ELSE IF AsBool(ascending) THEN BetweenBounds(v, from, to)
  ELSE BetweenBounds(v, to, from)

(* IN: the first value that is equal ends the search; the result of a      *)
(* comparison with NULL has no asBool().                                   *)
InValue(v, list) ==
  LET equal == [k \in DOMAIN list |-> BinaryOperation("EQ", v, list[k])]
      ends(k) == AsBoolThrows(equal[k]) \/ AsBool(equal[k])
  IN  IF \A k \in DOMAIN list : ~ ends(k) THEN Bool(FALSE)
      ELSE LET first == CHOOSE k \in DOMAIN list : ends(k) /\ \A j \in 1 .. k - 1 : ~ ends(j)
           IN  IF AsBoolThrows(equal[first]) THEN Throws ELSE Bool(TRUE)

LikeValue(v, pattern) ==
  IF HasNo("STRING", v) THEN Throws ELSE Bool(v.n \in pattern)

(* POW(REAL, REAL): other types are cast, and NULL has no asDouble().      *)
Parameter(v) == IF v.type = "REAL" THEN v ELSE Cast("REAL", v)
PowValue(base, exponent) ==
  LET b == Parameter(base)
      e == Parameter(exponent)
  IN  IF HasNo("REAL", b) \/ HasNo("REAL", e) THEN Throws ELSE Value("REAL", b.n ^ e.n)

(* The stack after the instruction.  LIKE only looks at its operand.       *)
StackAfter(i) ==
  CASE i.op = "VALUE"   -> Append(stack, i.value)
    [] i.op = "COLUMN"  -> Append(stack, store.cells[Index(i.n)])
    [] i.op = "NOT"     -> Append(Below(1), Not(FromTop(1)))
    [] i.op = "MINUS"   -> Append(Below(1), Minus(FromTop(1)))
    [] i.op = "PLUS"    -> stack
    [] i.op = "CAST"    -> Append(Below(1), Cast(i.value.type, FromTop(1)))
    [] i.op = "BETWEEN" -> Append(Below(3), BetweenValue(FromTop(1), FromTop(2), FromTop(3)))
    [] i.op = "IN"      -> Append(Below(i.n + 1),
                             InValue(FromTop(1), [k \in 1 .. i.n |-> FromTop(k + 1)]))
    [] i.op = "LIKE"    -> Append(stack, LikeValue(FromTop(1), i.pattern))
    [] i.op = "POW"     -> Append(Below(2), PowValue(FromTop(1), FromTop(2)))
    [] OTHER            -> Append(Below(2), BinaryOperation(i.op, FromTop(1), FromTop(2)))

(* The column is not in the store: there is no such element, or nothing    *)
(* was ever written to its memory.                                         *)
Running == pc = "run" /\ ip <= Len(Program)
IsFilled(index) == index \in DOMAIN store.cells /\ store.cells[index] # Raw
ReadsOutside == Instruction.op = "COLUMN" /\ ~ IsFilled(Index(Instruction.n))

ReadUnfilled ==
  /\ Running /\ ReadsOutside
  /\ Crash("unfilled")

Throw ==
  /\ outcome' = "threw"
  /\ pc' = "end"
  /\ UNCHANGED <<condition, rows, pos, filled, store, stack, ip, selected, fault>>

Step ==
  /\ Running /\ ~ ReadsOutside
  /\ Last(StackAfter(Instruction)) \notin {Throws, Undefined}
  /\ stack' = StackAfter(Instruction)
  /\ ip' = ip + 1
  /\ UNCHANGED <<condition, rows, pc, pos, filled, store, selected, outcome, fault>>

StepThrows ==
  /\ Running /\ ~ ReadsOutside
  /\ Last(StackAfter(Instruction)) = Throws
  /\ Throw

(* Nothing looks at the divisor: the processor stops the program.          *)
DivideByZero ==
  /\ Running /\ ~ ReadsOutside
  /\ Last(StackAfter(Instruction)) = Undefined
  /\ Crash("division by zero")

Evaluated == pc = "run" /\ ip > Len(Program)

SelectRow ==
  /\ Evaluated /\ ~ AsBoolThrows(Last(stack))
  /\ selected' = IF AsBool(Last(stack)) THEN Append(selected, pos) ELSE selected
  /\ pc' = "pull"
  /\ UNCHANGED <<condition, rows, pos, filled, store, stack, ip, outcome, fault>>

(* asBool() of NULL.                                                       *)
TestThrows ==
  /\ Evaluated /\ AsBoolThrows(Last(stack))
  /\ Throw

Stopped ==
  /\ pc = "end"
  /\ UNCHANGED vars

Next ==
  \/ PullRow \/ EndOfRows \/ FillColumn \/ FillRawMemory \/ Start
  \/ Step \/ StepThrows \/ DivideByZero \/ ReadUnfilled \/ SelectRow \/ TestThrows
  \/ Stopped

Spec == Init /\ [][Next]_vars
-----------------------------------------------------------------------------
Values == [type : DataTypes \cup {"NONE"}, null : BOOLEAN, n : Int]
HasPart(e, op) == \E p \in Parts(e) : p.op = op
Wanted(k) == Meaning(condition, rows[k])
Judged == IF pc = "pull" \/ outcome = "eof" THEN pos ELSE pos - 1

TypeOK ==
  /\ condition \in Conditions /\ rows \in Inputs
  /\ pc \in {"pull", "fill", "run", "end"}
  /\ pos \in 0 .. Len(rows)
  /\ filled \in 0 .. Len(FillOrder)
  /\ store.size \in 0 .. Len(store.cells)
  /\ \A k \in DOMAIN store.cells : store.cells[k] \in Values \cup {Raw}
  /\ \A k \in DOMAIN stack : stack[k] \in Values
  /\ ip \in 1 .. Len(Program) + 1
  /\ selected \in Seq(1 .. pos)
  /\ outcome \in {"open", "eof", "threw"}
  /\ fault \in {"none", "unfilled", "uninitialised", "division by zero"}

(* The operand that LIKE leaves on the stack comes between the operands of *)
(* an instruction above it, unless LIKE is in the one evaluated first.     *)
LikeInTheWay ==
  \E p \in Parts(condition) : \E i \in 2 .. Len(p.args) : HasPart(Operands(p)[i], "LIKE")

(* x IS FALSE.                                                             *)
IsFalse ==
  \E p \in Parts(condition) : p.op \in {"IS", "ISNOT"} /\ p.args[2].value = Bool(FALSE)

(* A string appended to a value of another type, and a range of dates      *)
(* whose bounds are strings that are ordered otherwise than their dates.   *)
TextFirst ==
  \E p \in Parts(condition), k \in DOMAIN rows :
    p.op = "CONCAT" /\ Meaning(p.args[1], rows[k]).type # "STRING"
BoundsAsText ==
  \E p \in Parts(condition) :
    /\ p.op = "BETWEEN" /\ \A i \in {2, 3} : p.args[i].op = "VALUE" /\ p.args[i].value.type = "STRING"
    /\ \E k \in DOMAIN rows :
         LET type == Meaning(p.args[1], rows[k]).type
             from == p.args[2].value   to == p.args[3].value
         IN  type \in Temporal /\ (from.n <= to.n) # (FromText(type, from).n <= FromText(type, to).n)

(* A REAL as a truth value beside a NULL.                                  *)
RealAsTruth ==
  \E p \in Parts(condition) : p.op \in {"AND", "OR"} /\ \E i \in {1, 2} :
    p.args[i].op = "POW"  \/ (p.args[i].op = "CAST" /\ p.args[i].value.type = "REAL")

(* Each row judged so far is passed on if and only if the condition is     *)
(* true for it: precedence, order of operands, three-valued logic and the  *)
(* values of the last row, which the store still holds, included.  A LIKE  *)
(* below another operator takes an operand of that operator away.          *)
SelectsByMeaning ==
  LikeInTheWay \/ IsFalse \/ RealAsTruth \/ TextFirst \/ BoundsAsText \/
  selected = SelectSeq([k \in 1 .. Judged |-> k], LAMBDA k : Wanted(k) = Bool(TRUE))

(* Every instruction takes its operands from the stack and leaves one      *)
(* value, LIKE one more, row after row.                                    *)
StackExplained ==
  Evaluated =>
    Len(stack) = 1 + Len(SelectSeq(Program, LAMBDA i : i.op = "LIKE"))

(* A statement is given up only over a row for which the condition is      *)
(* unknown or has no meaning, or for a NULL in IN, LIKE or POW: a NULL     *)
(* below AND, OR, IS, BETWEEN or a comparison throws only if it comes up   *)
(* to the top.  (A REAL beside a NULL, a LIKE in the way and a column only *)
(* IN uses can turn the condition unknown as well.)                        *)
ThrowsExplained ==
  outcome = "threw" =>
    \/ Wanted(pos).null \/ Wanted(pos) = Throws
    \/ \E p \in Parts(condition) : /\ p.op \in {"IN", "LIKE", "POW"}
                                   /\ \E i \in DOMAIN p.args : Meaning(p.args[i], Row).null
    \/ RealAsTruth \/ LikeInTheWay \/ ColumnsOf(condition) # Collected(condition)

(* A value is read or written where no element of the store is only if a   *)
(* column appears in IN only, or there are more than three columns; the    *)
(* program stops over a division by 0 just if the row has one anywhere in  *)
(* the condition: both sides of AND and OR are computed, so that no guard  *)
(* in the condition prevents it (op_div(), typeoperations.cpp:69).         *)
DividesByZero(k) ==
  \E p \in Parts(condition) :
    p.op \in Division /\ ~ Meaning(p.args[1], rows[k]).null /\ Meaning(p.args[2], rows[k]) = Value("INT", 0)
FaultsExplained ==
  /\ fault = "division by zero" => DividesByZero(pos)
  /\ \A k \in 1 .. Judged : ~ DividesByZero(k)
  /\ fault = "unfilled" => ColumnsOf(condition) # Collected(condition)
  /\ fault = "uninitialised" => Cardinality(ColumnsOf(condition)) > 3

(* Whatever goes wrong while a condition is evaluated is one of these; all *)
(* variables keep their types.                                             *)
FailuresExplained == TypeOK /\ StackExplained /\ ThrowsExplained /\ FaultsExplained
=============================================================================
