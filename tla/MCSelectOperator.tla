-------------------------- MODULE MCSelectOperator --------------------------
(***************************************************************************)
(* Conditions and rows for the model checking of SelectOperator.  Columns: *)
(* 1 a BOOLEAN, 2 and 3 INT, 4 and 5 STRING, 6 a DATE, 7 a TIME, 8 a       *)
(* TIMESTAMP.                                                              *)
(***************************************************************************)
EXTENDS SelectOperator

IntConst(n) == Value("INT", n)
StrConst(n) == Value("STRING", n)
B == Col(1)   I == Col(2)   J == Col(3)   S == Col(4)   T == Col(5)
D == Col(6)   E == Col(7)   Z == Col(8)

(* The strings, in the order of strcoll(): five that begin like a date, of *)
(* which the last is out of its order, a time, a number, and the results   *)
(* of the concatenations below.  The first six can be read as a time.      *)
Strings ==
  <<"0000-02-01", "0000-02-01T00:00:05", "0000-02-02", "0000-02-03", "0000.02.02", "00:00:05",
    "5", "55", "5x", "x", "x0000-02-01", "x0000-02-02", "x0000-02-03", "x00:00:05", "x5">>
Str(text) == CHOOSE n \in DOMAIN Strings : Strings[n] = text

FebFirst == 64
SecondsToFive == SecondsOfDay * FebFirst + 5
StringsToNumbers == Str("5") :> 5 @@ Str("55") :> 55 @@ Str("5x") :> 5
StringsToDates ==
  [DATE |-> <<FebFirst, FebFirst, FebFirst + 1, FebFirst + 2, FebFirst + 1>>,
   TIME |-> <<2000, 2000, 2000, 2000, 2000, 5000>>,
   TIMESTAMP |-> Str("0000-02-01T00:00:05") :> SecondsToFive]
ValuesToStrings ==
  [INT |-> 5 :> Str("5"), TIME |-> 5000 :> Str("00:00:05"),
   DATE |-> FebFirst :> Str("0000-02-01") @@ FebFirst + 1 :> Str("0000-02-02") @@ FebFirst + 2 :> Str("0000-02-03"),
   TIMESTAMP |-> SecondsToFive :> Str("0000-02-01T00:00:05")]
StringsJoined ==
  [p \in {q \in (DOMAIN Strings) \X (DOMAIN Strings) : Strings[q[1]] \o Strings[q[2]] \in ToSet(Strings)} |->
     Str(Strings[p[1]] \o Strings[p[2]])]

RowOf(b, i, j, s, d, e, z) ==
  <<b, i, j, s, StrConst(Str("5")), d, e, Value("TIMESTAMP", SecondsToFive + z)>>
SomeRows ==
  {RowOf(Bool(TRUE), IntConst(2), IntConst(1), StrConst(Str("5")),
         Value("DATE", FebFirst), Value("TIME", 5000), 0),
   RowOf(Bool(FALSE), IntConst(1), IntConst(2), StrConst(Str("x")),
         Value("DATE", FebFirst + 1), Value("TIME", 0), 1),
   RowOf(Null("BOOLEAN"), IntConst(0), IntConst(2), StrConst(Str("5")),
         Null("DATE"), Value("TIME", 2000), SecondsOfDay),
   RowOf(Bool(TRUE), Null("INT"), IntConst(0), Null("STRING"),
         Value("DATE", FebFirst + 2), Null("TIME"), 0)}
TwoRows == {<<r, q>> : r \in SomeRows, q \in SomeRows}

Text(text) == Const(StrConst(Str(text)))

(* Atoms that are NULL in some of the rows only.                           *)
Likes == {Like(S, {Str("5")})}
Atoms ==
  {B, Binary("GE", I, Const(IntConst(1))), Binary("LT", J, I),
   Between(I, J, Const(IntConst(1))), Binary("IS", B, Const(Bool(TRUE))),
   Binary("ISNOT", I, Const(Null("BOOLEAN")))} \cup Likes

Combined == {Binary(op, a, b) : op \in {"AND", "OR"}, a \in Atoms, b \in Atoms}
Nested == {Unary("NOT", Binary("AND", a, b)) : a \in Atoms \ Likes, b \in {B}}
            \cup {Binary("OR", Binary("AND", B, a), Unary("NOT", a)) : a \in Atoms}

Arithmetics ==
  {Binary("EQ", Binary("SUB", I, J), Const(IntConst(1))),
   Binary("GT", Unary("MINUS", Binary("ADD", I, Unary("PLUS", J))), Binary("MUL", I, Const(IntConst(-2)))),
   Binary("EQ", Pow(I, J), Const(IntConst(2))), Binary("NEQ", B, I),
   Binary("EQ", S, T), Binary("LE", S, I), CastTo("BOOLEAN", I),
   Binary("OR", B, CastTo("REAL", I)), Binary("IS", B, Const(Bool(FALSE)))}

(* Divisions, of which some row has one by 0, with a guard and without.    *)
Divisions ==
  {Binary("EQ", Binary("DIV", I, Const(IntConst(-2))), Const(IntConst(-1))),
   Binary("EQ", Binary("MOD", Unary("MINUS", I), J), Const(IntConst(0))),
   Binary("EQ", Binary("DIV", J, I), Const(IntConst(2))),
   Binary("AND", Binary("NEQ", I, Const(IntConst(0))), Binary("EQ", Binary("DIV", J, I), Const(IntConst(2)))),
   Binary("OR", Binary("EQ", I, Const(IntConst(0))), Binary("LT", Binary("MOD", J, I), Const(IntConst(1))))}

(* Dates beside dates, strings and truth values; operations on them that   *)
(* do not exist.                                                           *)
Dates ==
  {Binary(op, D, Text("0000-02-01")) : op \in Comparisons}
    \cup {Binary(op, Text("0000.02.02"), D) : op \in {"GT", "EQ"}}
    \cup {Binary(op, E, Text("00:00:05")) : op \in Comparisons}
    \cup {Binary(op, Z, Text("0000-02-01T00:00:05")) : op \in Comparisons}
    \cup {Binary("LT", D, Text("x")), Binary("GT", D, E), Binary("EQ", Z, D), Unary("NOT", D),
          Unary("MINUS", E), Binary("ADD", D, Const(IntConst(1))),
          Between(D, Text("0000-02-01"), Text("0000.02.02")), Between(D, Text("0000-02-03"), Text("0000.02.02")),
          Between(D, CastTo("DATE", Text("0000-02-03")), Text("0000.02.02")),
          In(D, <<Text("0000-02-01"), Text("0000-02-03")>>), In(D, <<Text("x"), Text("0000-02-01")>>)}
    \cup {Binary(op, a, b) : op \in {"AND", "OR"}, a \in {B, D, E}, b \in {B, D, E, Z}}
    \cup {Binary(op, a, Const(v)) : op \in {"IS", "ISNOT"}, a \in {D, E, Z}, v \in {Bool(TRUE), Null("BOOLEAN")}}
    \cup {Binary("GE", Binary("SUB", a, CastTo(type, Text("0000-02-01T00:00:05"))), Const(IntConst(1))) :
            a \in {D, E, Z}, type \in Temporal}

Casts ==
  {Binary("GT", Z, CastTo("TIMESTAMP", a)) : a \in {D, E, Z, Text("0000-02-01T00:00:05"), Text("5")}}
    \cup {Binary("EQ", CastTo(type, S), Const(IntConst(5))) : type \in DataTypes}
    \cup {Binary("EQ", CastTo("INT", Text(t)), Const(IntConst(5))) : t \in {"5x", "x5"}}
    \cup {Binary("IS", CastTo(type, Const(Null("NONE"))), Const(Null("BOOLEAN"))) : type \in DataTypes}
    \cup {Binary("EQ", Pow(S, Const(IntConst(1))), Const(IntConst(5)))}

Concatenations ==
  {Binary("EQ", Binary("CONCAT", S, T), Text("55")),
   Binary("EQ", Binary("CONCAT", Text("x"), D), Text("x0000-02-01")),
   Binary("IS", Binary("CONCAT", S, Const(Null("INT"))), Const(Null("BOOLEAN"))),
   Binary("NEQ", Binary("CONCAT", Text("x"), CastTo("TIME", Text("00:00:05"))), S),
   Binary("EQ", Binary("CONCAT", Const(IntConst(5)), Text("x")), Text("5x")),
   Binary("EQ", Binary("CONCAT", CastTo("TIME", Text("00:00:05")), Text("x")), Text("x00:00:05")),
   Binary("CONCAT", B, S), Binary("CONCAT", I, J)}

(* IN with columns that are also used elsewhere, and without columns.      *)
Lists ==
  {In(Const(IntConst(1)), <<Const(IntConst(2)), Const(IntConst(1)), Const(IntConst(3))>>),
   Binary("AND", Binary("GE", I, J), In(I, <<J, Const(IntConst(2))>>)),
   Binary("OR", B, In(Const(Bool(TRUE)), <<B, Like(S, {Str("5")})>>))}
HiddenColumns == {In(I, <<Const(IntConst(1)), Const(IntConst(2))>>), Binary("AND", In(I, <<Const(IntConst(1))>>), B)}

(* The columns of the first are met in the order of their names.           *)
FourColumns ==
  {Binary("AND", B, Binary("AND", Binary("GT", J, I), Binary("EQ", Text("5"), S))),
   Binary("AND", Binary("LT", I, J), Binary("OR", B, Binary("EQ", S, Text("5"))))}

AllConditions ==
  Atoms \cup Combined \cup Nested \cup Arithmetics \cup Divisions \cup Lists \cup HiddenColumns
    \cup FourColumns \cup Dates \cup Casts \cup Concatenations

LikeConditions == {Binary("AND", Binary("GE", I, Const(IntConst(2))), Like(S, {Str("5")}))}
=============================================================================
