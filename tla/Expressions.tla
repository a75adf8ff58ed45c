----------------------------- MODULE Expressions -----------------------------
(***************************************************************************)
(* Values, the operations on them, and conditions.                         *)
(***************************************************************************)
EXTENDS Integers, Sequences, FiniteSets, SequencesExt

(***************************************************************************)
(* Values (class Variant) and the typed operations on them that conditions *)
(* of WHERE and ON are made of.  A value is [type, null, n]; n is a number *)
(* that stands for the payload: 0 and 1 for the truth values, the place in *)
(* their order for strings, days for a DATE, milliseconds for a TIME and   *)
(* seconds for a TIMESTAMP, whose fractions no text has and are left out.  *)
(* Left out are also quotients of REALs, which are no such numbers.        *)
(***************************************************************************)
CONSTANTS
  Numerals,  (* the numbers that strings begin with, by their strings       *)
  Readings,  (* for each type of dates the numbers of the strings that are  *)
             (* read as one; to read another string throws                  *)
  Printed,   (* for each type but STRING the strings of its values          *)
  Joined     (* the string of two strings after each other, by their pair   *)

Temporal == {"DATE", "TIME", "TIMESTAMP"}
Numeric == {"INT", "REAL"}
BoolOrNumber == Numeric \cup {"BOOLEAN"}
Scalar == BoolOrNumber \cup {"STRING"}
DataTypes == Scalar \cup Temporal

Value(type, n) == [type |-> type, null |-> FALSE, n |-> n]
Null(type) == [type |-> type, null |-> TRUE, n |-> 0]
Bool(b) == Value("BOOLEAN", IF b THEN 1 ELSE 0)

(* A Variant that was never given a value, an operation that throws, and   *)
(* one whose behaviour is undefined: a division of an INT by 0.            *)
NoValue == Value("NONE", 0)
Throws == Value("THROWS", 0)
Undefined == Value("UNDEFINED", 0)

(* static_cast<bool>; the pointer to a string is never null.  Midnight is  *)
(* false, and so is the infinite date, which has number 0.                 *)
Truth(v) == v.type = "STRING" \/ v.n # 0

(* asDouble(), asString() and their like throw for NULL and another type.  *)
HasNo(type, v) == v.null \/ v.type # type

(* asBool() throws for NULL and NONE, which its callers below rule out.    *)
(* A REAL is compared with 0, and equal means true.                        *)
AsBool(v) == IF v.type = "REAL" THEN v.n = 0 ELSE Truth(v)
AsBoolThrows(v) == v.null \/ v.type \notin DataTypes

Comparisons == {"EQ", "NEQ", "GT", "GE", "LT", "LE"}
Division == {"DIV", "MOD"}
Arithmetic == {"ADD", "SUB", "MUL"} \cup Division

(* The pairs of types that an operation is registered for.  Dates of the   *)
(* three types are not mixed, except with strings.  AND knows dates and    *)
(* times, OR does not.                                                     *)
Alike(types) == {<<t, t>> : t \in types}
WithText(types) == (types \X {"STRING"}) \cup ({"STRING"} \X types)
WithBool(types) == (types \X {"BOOLEAN"}) \cup ({"BOOLEAN"} \X types)
Dated == Alike(Temporal \cup {"STRING"}) \cup WithText(Temporal)
ArithmeticTypes(op) ==
  IF op \in Division THEN {<<"INT", "INT">>}
  ELSE (Numeric \X Numeric) \cup (IF op = "SUB" THEN Alike(Temporal) ELSE {})
OrderedTypes == (Numeric \X Numeric) \cup Dated
EqualTypes == (BoolOrNumber \X BoolOrNumber) \cup Dated
IsTypes == DataTypes \X {"BOOLEAN"}
AndTypes == (Scalar \X Scalar) \cup Alike({"DATE", "TIME"}) \cup WithBool({"DATE", "TIME"})
OrTypes == Scalar \X Scalar
ConcatTypes == Alike({"STRING"}) \cup WithText(Numeric \cup Temporal)
TypesOf(op) ==
  CASE op \in Arithmetic       -> ArithmeticTypes(op)
    [] op \in {"EQ", "NEQ"}    -> EqualTypes
    [] op \in Comparisons \ {"EQ", "NEQ"} -> OrderedTypes
    [] op \in {"IS", "ISNOT"}  -> IsTypes
    [] op = "AND"              -> AndTypes
    [] op = "OR"               -> OrTypes
    [] op = "CONCAT"           -> ConcatTypes

(* retType(): dates leave a number of days, milliseconds or seconds.       *)
RetType(op, l, r) ==
  CASE op \in Arithmetic -> IF "REAL" \in {l.type, r.type} THEN "REAL" ELSE "INT"
    [] op = "CONCAT"     -> "STRING"
    [] OTHER             -> "BOOLEAN"

(* The casts of a string: atol() and atof(), which make 0 of what is no    *)
(* number, the conversion of a pointer, and dateFromString() and its like. *)
FromText(type, s) ==
  CASE type = "STRING"   -> s
    [] type = "BOOLEAN"  -> Bool(TRUE)
    [] type \in Numeric  -> Value(type, IF s.n \in DOMAIN Numerals THEN Numerals[s.n] ELSE 0)
    [] type \in Temporal -> IF s.n \in DOMAIN Readings[type] THEN Value(type, Readings[type][s.n])
                            ELSE Throws

(* Timestamp(Date), Timestamp(Time): the start of a day, and a time on the *)
(* day of calcJulDay(0, 0, 0).  Days are numbered from the one before it.  *)
SecondsOfDay == 86400
DayZero == 1
Stamp(v) ==
  Value("TIMESTAMP", IF v.type = "DATE" THEN SecondsOfDay * v.n
                     ELSE SecondsOfDay * DayZero + (v.n \div 1000))

(* The operands of a comparison: values of which one is a BOOLEAN are      *)
(* compared as truth values, and a string beside a date is read as one.    *)
Common(l, r) ==
  CASE "BOOLEAN" \in {l.type, r.type} -> "BOOLEAN"
    [] Temporal \cap {l.type, r.type} # {} -> CHOOSE t \in Temporal : t \in {l.type, r.type}
    [] OTHER -> l.type
Operand(v, type) ==
  CASE type = "BOOLEAN" -> Bool(Truth(v))
    [] v.type = "STRING" /\ type \in Temporal -> FromText(type, v)
    [] OTHER -> v
Left(l, r) == Operand(l, Common(l, r))
Right(l, r) == Operand(r, Common(l, r))

GreaterThen(l, r) == Left(l, r).n > Right(l, r).n
GreaterEqual(l, r) == Left(l, r).n >= Right(l, r).n
LessThen(l, r) == Left(l, r).n < Right(l, r).n
LessEqual(l, r) == Left(l, r).n <= Right(l, r).n
CompareEqual(l, r) == Left(l, r).n = Right(l, r).n
CompareNotEqual(l, r) == Left(l, r).n # Right(l, r).n

Compared(op, l, r) ==
  IF Throws \in {Left(l, r), Right(l, r)} THEN Throws
  ELSE CASE
       op = "EQ" -> Bool(CompareEqual(l, r)) [] op = "NEQ" -> Bool(CompareNotEqual(l, r))
    [] op = "GT" -> Bool(GreaterThen(l, r))  [] op = "GE"  -> Bool(GreaterEqual(l, r))
    [] op = "LT" -> Bool(LessThen(l, r))     [] op = "LE"  -> Bool(LessEqual(l, r))

(* A quotient is cut towards 0, and the remainder has the dividend's sign. *)
Amount(n) == IF n < 0 THEN - n ELSE n
Quotient(m, n) == (IF (m < 0) = (n < 0) THEN 1 ELSE -1) * (Amount(m) \div Amount(n))
Remainder(m, n) == m - n * Quotient(m, n)
Computed(op, l, r) ==
  CASE op = "ADD" -> l.n + r.n [] op = "SUB" -> l.n - r.n [] op = "MUL" -> l.n * r.n
    [] op = "DIV" -> Quotient(l.n, r.n)
    [] op = "MOD" -> Remainder(l.n, r.n)

(* op_concat(): if only the right operand is a string, it comes first.     *)
TextOf(v) == IF v.type = "STRING" THEN v.n ELSE Printed[v.type][v.n]
Concat(l, r) ==
  Value("STRING", Joined[IF l.type = "STRING" THEN <<TextOf(l), TextOf(r)>> ELSE <<TextOf(r), TextOf(l)>>])

(* doExecute(): both operands have a value.                                *)
Execute(op, l, r) ==
  CASE op = "AND"         -> Bool(Truth(l) /\ Truth(r))
    [] op = "OR"          -> Bool(Truth(l) \/ Truth(r))
    [] op = "IS"          -> Bool(Truth(l) /\ Truth(r))
    [] op = "ISNOT"       -> Bool(~ (Truth(l) /\ Truth(r)))
    [] op = "CONCAT"      -> Concat(l, r)
    [] op \in Comparisons -> Compared(op, l, r)
    [] op \in Division /\ r.n = 0 -> Undefined
    [] op \in Arithmetic /\ ~ (op \in Division /\ r.n = 0) ->
         Value(RetType(op, l, r), Computed(op, l, r))

(* doHandleNull(): at least one operand is NULL.                           *)
HandleNull(op, l, r) ==
  LET given == {v \in {l, r} : ~ v.null} IN
  CASE op = "AND" /\ \E v \in given : ~ AsBool(v) -> Bool(FALSE)
    [] op = "OR" /\ \E v \in given : AsBool(v)    -> Bool(TRUE)
    [] op = "IS"                                  -> Bool(l.null /\ r.null)
    [] op = "ISNOT"                               -> Bool(l.null # r.null)
    [] OTHER                                      -> Null(RetType(op, l, r))

BinaryOperation(op, l, r) ==
  IF <<l.type, r.type>> \notin TypesOf(op) THEN Throws
  ELSE IF l.null \/ r.null THEN HandleNull(op, l, r)
  ELSE Execute(op, l, r)

(* An operation on one value, registered for types: a NULL stays one.      *)
UnaryOperation(types, type, v, result) ==
  IF v.type \notin types THEN Throws ELSE IF v.null THEN Null(type) ELSE result

Not(v) == UnaryOperation(BoolOrNumber, "BOOLEAN", v, Bool(~ Truth(v)))

Minus(v) == UnaryOperation(Numeric, v.type, v, Value(v.type, - v.n))

(* The types that are cast to a type: none makes a BOOLEAN of a REAL.  All *)
(* are made of the NULL that has no type.                                  *)
CastTypes(type) ==
  {"STRING", "NONE"} \cup
  CASE type = "BOOLEAN"   -> {"BOOLEAN", "INT"}
    [] type = "INT"       -> BoolOrNumber
    [] type = "REAL"      -> Numeric
    [] type = "TIMESTAMP" -> {"DATE", "TIME"}
    [] OTHER              -> {}

CastValue(type, v) ==
  CASE v.type = "STRING"   -> FromText(type, v)
    [] v.type = "NONE"     -> Throws
    [] v.type \in Temporal -> Stamp(v)
    [] v.type \in BoolOrNumber -> IF type = "BOOLEAN" THEN Bool(Truth(v)) ELSE Value(type, v.n)

Cast(type, v) == UnaryOperation(CastTypes(type), type, v, CastValue(type, v))
-----------------------------------------------------------------------------
(***************************************************************************)
(* Conditions as trees, the code that the visitors of visitor.h make of    *)
(* them, and what a condition means in SQL.                                *)
(*                                                                         *)
(* Columns are numbers, in the order of their names.  A LIKE pattern is    *)
(* the set of the strings that match it.                                   *)
(***************************************************************************)
Node(op, args) == [op |-> op, value |-> NoValue, n |-> 0, pattern |-> {}, args |-> args]
Const(v) == [Node("VALUE", <<>>) EXCEPT !.value = v]
Col(c) == [Node("COLUMN", <<>>) EXCEPT !.n = c]
Binary(op, l, r) == Node(op, <<l, r>>)
Unary(op, e) == Node(op, <<e>>)
CastTo(type, e) == [Node("CAST", <<e>>) EXCEPT !.value = Null(type)]
Like(e, pattern) == [Node("LIKE", <<e>>) EXCEPT !.pattern = pattern]
Between(e, from, to) == Node("BETWEEN", <<e, from, to>>)
In(e, list) == [Node("IN", <<e>> \o list) EXCEPT !.n = Len(list)]
Pow(base, exponent) == Node("POW", <<base, exponent>>)

RECURSIVE Parts(_)
Parts(e) == {e} \cup UNION {Parts(e.args[i]) : i \in DOMAIN e.args}
ColumnsOf(e) == {p.n : p \in {q \in Parts(e) : q.op = "COLUMN"}}
-----------------------------------------------------------------------------
(* ASTInstructionStackVisitor: the operands from the last to the first,    *)
(* those of AND and OR from the first to the last, then the instruction.   *)
(* What could go wrong, for the runs that test the properties: the order   *)
(* of AND and OR is taken for all.                                         *)
OperandsAsWritten(e) == e.args
Operands(e) == IF e.op \in {"AND", "OR"} THEN e.args ELSE Reverse(e.args)

RECURSIVE Code(_)
Code(e) ==
  FlattenSeq([i \in DOMAIN Operands(e) |-> Code(Operands(e)[i])])
    \o <<[op |-> e.op, value |-> e.value, n |-> e.n, pattern |-> e.pattern]>>

(* getMapping(): a column gets the next index when it is first met.        *)
Mapping(code) ==
  LET met == SelectSeq(code, LAMBDA i : i.op = "COLUMN")
      before(c) == {met[k].n : k \in {j \in DOMAIN met : \A m \in 1 .. j : met[m].n # c}}
  IN  [c \in {met[k].n : k \in DOMAIN met} |-> Cardinality(before(c))]

(* ASTExpressionVariableVisitor: the columns that get a value for each     *)
(* row.  It does not look into IN.                                         *)
RECURSIVE Collected(_)
Collected(e) ==
  CASE e.op = "COLUMN" -> {e.n}
    [] e.op = "IN"     -> {}
    [] OTHER           -> UNION {Collected(e.args[i]) : i \in DOMAIN e.args}
-----------------------------------------------------------------------------
(* What a condition means.  Truth values are the degrees 0, 1 (unknown)    *)
(* and 2: AND is the least, OR the greatest of two, NOT turns the scale.   *)
(* An operation on types it does not exist for has no meaning: Throws.     *)
Degree(v) == IF v.null THEN 1 ELSE IF Truth(v) THEN 2 ELSE 0
OfDegree(d) == CASE d = 0 -> Bool(FALSE) [] d = 1 -> Null("BOOLEAN") [] d = 2 -> Bool(TRUE)
Least(d, e) == IF d < e THEN d ELSE e
Greatest(d, e) == IF d > e THEN d ELSE e

Relates(op, l, r) ==
  IF <<l.type, r.type>> \notin TypesOf(op) THEN Throws
  ELSE IF l.null \/ r.null THEN Null("BOOLEAN")
  ELSE Compared(op, l, r)

(* The text of a value is appended, whichever of the two is a string.      *)
Concatenated(l, r) ==
  IF <<l.type, r.type>> \notin TypesOf("CONCAT") THEN Throws
  ELSE IF l.null \/ r.null THEN Null("STRING")
  ELSE Value("STRING", Joined[<<TextOf(l), TextOf(r)>>])

RaisedTo(base, exponent) ==
  IF Throws \in {base, exponent} THEN Throws
  ELSE IF base.null \/ exponent.null THEN Null("REAL")
  ELSE Value("REAL", base.n ^ exponent.n)

Is(v, truthValue) ==
  IF v.type \notin DataTypes THEN Throws ELSE Bool(Degree(v) = Degree(truthValue))

BothOf(a, b) ==
  IF <<a.type, b.type>> \notin TypesOf("AND") THEN Throws ELSE OfDegree(Least(Degree(a), Degree(b)))
EitherOf(a, b) ==
  IF <<a.type, b.type>> \notin TypesOf("OR") THEN Throws ELSE OfDegree(Greatest(Degree(a), Degree(b)))
NotOf(a) == IF a.type \notin BoolOrNumber THEN Throws ELSE OfDegree(2 - Degree(a))

RECURSIVE Meaning(_, _)
Meaning(e, row) ==
  LET m == [i \in DOMAIN e.args |-> Meaning(e.args[i], row)]
  IN
  CASE e.op = "VALUE"   -> e.value
    [] e.op = "COLUMN"  -> row[e.n]
    [] e.op = "AND"     -> BothOf(m[1], m[2])
    [] e.op = "OR"      -> EitherOf(m[1], m[2])
    [] e.op = "NOT"     -> NotOf(m[1])
    [] e.op = "IS"      -> Is(m[1], m[2])
    [] e.op = "ISNOT"   -> NotOf(Is(m[1], m[2]))
    [] e.op = "BETWEEN" -> EitherOf(
         BothOf(Relates("GE", m[1], m[2]), Relates("LE", m[1], m[3])),
         BothOf(Relates("GE", m[1], m[3]), Relates("LE", m[1], m[2])))
    [] e.op = "IN"      -> FoldSeq(EitherOf, Bool(FALSE),
                             [k \in 1 .. e.n |-> Relates("EQ", m[1], m[k + 1])])
    [] e.op = "LIKE"    -> IF m[1].type # "STRING" THEN Throws
                           ELSE IF m[1].null THEN Null("BOOLEAN")
                           ELSE Bool(m[1].n \in e.pattern)
    [] e.op = "POW"     -> RaisedTo(Cast("REAL", m[1]), Cast("REAL", m[2]))
    [] e.op = "CONCAT"  -> Concatenated(m[1], m[2])
    [] e.op = "MINUS"   -> Minus(m[1])
    [] e.op = "PLUS"    -> m[1]
    [] e.op = "CAST"    -> Cast(e.value.type, m[1])
    [] e.op \in Comparisons -> Relates(e.op, m[1], m[2])
    [] OTHER            -> BinaryOperation(e.op, m[1], m[2])
=============================================================================
