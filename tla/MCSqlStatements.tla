---------------------------- MODULE MCSqlStatements ----------------------------
(***************************************************************************)
(* Statements like those of test/sql_parser_test.cpp, and around them what *)
(* the tests leave out; conditions of two operators, one of each level and *)
(* both that change places when they are written; and any three words      *)
(* behind SELECT and behind FROM.                                          *)
(***************************************************************************)
EXTENDS SqlStatements

MCFunctions == {"CURRENT_DATE", "EXTRACT", "POW", "UPPER"}
MCDatabase ==
  [T |-> <<[name |-> "A", type |-> "INT"], [name |-> "B", type |-> "STRING"]>>,
   U |-> <<[name |-> "A", type |-> "INT"], [name |-> "C", type |-> "BOOLEAN"]>>,
   SYSTEM_TABLES |-> <<[name |-> "NAME", type |-> "STRING"]>>]

Infixes == {"OR", "AND", "=", "<", "<=", "+", "*"}
Signed == {<<"A">>, <<"-", "A">>, <<"NOT", "A">>}
Flat(a, o1, b, o2) == a \o <<o1>> \o b \o <<o2, "2">>
InParens(w) == <<"(">> \o w \o <<")">>
MCConditions ==
  {Flat(a, o1, b, o2) : a \in Signed, b \in {<<"B">>, <<"-", "B">>}, o1, o2 \in Infixes}
  \cup {InParens(a \o <<o1, "B">>) \o <<o2, "2">> : a \in Signed, o1, o2 \in Infixes}
  \cup {<<"A", o1>> \o InParens(b \o <<o2, "2">>) : b \in {<<"B">>, <<"-", "B">>}, o1, o2 \in Infixes}

(* Select lists of queries of T.                                           *)
Items ==
  {<<"*">>, <<"T", ".", "*">>, <<"A">>, <<"A", "AS", "X">>, <<"A", "X">>, <<"\"q\"">>,
   <<"A", "+", "1", "AS", "X">>, <<"A", "+", "1">>, <<"COUNT", "(", "*", ")">>,
   <<"COUNT", "(", "DISTINCT", "A", ")", "AS", "N">>,
   <<"SUM", "(", "A", ")", ",", "AVG", "(", "ALL", "A", ")", ",", "MAX", "(", "A", ")", ",", "MIN", "(", "A", ")", "AS", "M", ",", "ARBITRARY", "(", "B", ")">>,
   <<"SUM", "(", "A", ")", ",", "A">>, <<"CAST", "(", "A", "AS", "REAL", ")", "AS", "R">>,
   <<"CAST", "(", "B", "AS", "VARCHAR", "(", "10", ")", ")">>,
   <<"CAST", "(", "A", "AS", "CHAR", ")">>, <<"CAST", "(", "B", "AS", "TIME", ")">>,
   <<"CAST", "(", "B", "AS", "KEY", ")">>, <<"UPPER", "(", "B", ")">>,
   <<"POW", "(", "A", ",", "2", ")", "AS", "P">>, <<"POW", "(", "A", "2", ")">>,
   <<"CURRENT_DATE">>, <<"CURRENT_TIME", "(", ")">>,
   <<"EXTRACT", "(", "YEAR", "FROM", "CURRENT_DATE", ")">>,
   <<"EXTRACT", "(", "KEY", "FROM", "A", ")">>, <<"DATE", "'2016-02-01'">>, <<"TIME", "'xy'">>,
   <<"A", "IS", "NULL">>, <<"A", "IS", "NOT", "TRUE">>, <<"A", "IS", "1">>,
   <<"B", "LIKE", "'x%'">>, <<"B", "LIKE", "'x'">>, <<"A", "BETWEEN", "1", "AND", "2">>,
   <<"A", "IN", "(", "1", ",", "2", ")">>, <<"A", "IN", "(", "1", "2", ")">>,
   <<"A", "IN", "(", "1", ",", ")">>, <<"-", "A", "AS", "X">>, <<"A", ",", "*">>, <<"T">>,
   <<"A", ",", "A", "AS", "X">>, <<"A", "+", "1", ",", "A", "AS", "X">>,
   <<"B", "AS", "A", ",", "A">>, <<"TRUE", ",", "1.5", ",", "'xy'", ",", "NULL">>,
   <<"DISTINCT", "A", ",", "B">>, <<"ALL", "A">>,
   <<"T", ".", "A", ",", "T", ".", "B", "AS", "X">>, <<"U", ".", "A">>, <<"KEY">>,
   <<"A", "AS", "\"q\"">>, <<"A", "AS", "KEY">>,
   <<"A", "AS", "X", ",", "B", "AS", "X", ",", "X">>, <<"A", "+", "B">>, <<"A", "||", "B">>,
   <<"NOT", "A">>, <<"'x'", "LIKE", "'xy'", "AND", "A", "BETWEEN", "1", "AND", "2">>,
   <<"\"Q R\"", ".", "\"q\"">>, <<"\"q\"", ".", "*">>}

(* What may follow SELECT A FROM T.                                         *)
Tails ==
  {<<"WHERE", "A", ">", "1">>, <<"WHERE", "A">>, <<"WHERE", "B", "=", "1">>,
   <<"WHERE", "T", ".", "A", "<", "1", "AND", "C", "=", "1">>,
   <<"WHERE", "NOT", "(", "A", "=", "1", ")", "OR", "A", "<=", "2">>, <<"WHERE", "X", "=", "1">>,
   <<"GROUP", "BY", "A">>, <<"GROUP", "BY", "DISTINCT", "A", ",", "T", ".", "B">>,
   <<"GROUP", "BY", "A", "HAVING", "COUNT", "(", "*", ")", ">", "1">>, <<"HAVING", "A">>,
   <<"ORDER", "BY", "A">>, <<"ORDER", "BY", "A", "DESC", ",", "B", "ASC">>, <<"LIMIT", "1">>,
   <<"LIMIT", "1", "OFFSET", "2">>,
   <<"WHERE", "A", ">", "1", "GROUP", "BY", "A", "ORDER", "BY", "A", "LIMIT", "1">>, <<"X">>,
   <<"AS", "X", "WHERE", "X", ".", "A", "=", "1">>, <<"\"q\"">>,
   <<"AS", "\"q\"", "WHERE", "\"q\"", ".", "A", "=", "1">>, <<",", "U">>, <<"U">>,
   <<"JOIN", "U", "ON", "T", ".", "A", "=", "U", ".", "A">>, <<"INNER", "JOIN", "U", "ON", "A">>,
   <<"X", "JOIN", "U", "Y", "ON", "X", ".", "A", "+", "Y", ".", "A">>, <<"CROSS", "JOIN", "U">>,
   <<"CROSS", "JOIN", "T">>, <<"X", "CROSS", "JOIN", "T", "Y">>,
   <<"X", "JOIN", "T", "Y", "ON", "X", ".", "A", "=", "Y", ".", "A", "CROSS", "JOIN", "U">>,
   <<"NATURAL", "JOIN", "U">>, <<"NATURAL", "LEFT", "OUTER", "JOIN", "U">>,
   <<"NATURAL", "RIGHT", "JOIN", "U">>, <<"NATURAL", "FULL", "JOIN", "U">>,
   <<"NATURAL", "INNER", "JOIN", "U">>,
   <<"LEFT", "JOIN", "U", "ON", "T", ".", "A", "=", "U", ".", "A">>,
   <<"RIGHT", "OUTER", "JOIN", "U", "ON", "T", ".", "A", "=", "U", ".", "A">>,
   <<"FULL", "JOIN", "U", "ON", "T", ".", "A", "=", "U", ".", "A">>, <<"CROSS", "U">>,
   <<"JOIN", "(", "SELECT", "C", "FROM", "U", ")", "AS", "S", "ON", "C">>,
   <<"UNION", "(", "SELECT", "A", "FROM", "U", ")">>,
   <<"UNION", "DISTINCT", "(", "SELECT", "A", "FROM", "U", ")", "UNION", "ALL", "(", "SELECT", "A", "FROM", "T", ")">>,
   <<"UNION", "(", "SELECT", "B", "FROM", "T", ")">>,
   <<"UNION", "(", "SELECT", "C", "AS", "A", "FROM", "U", ")">>,
   <<"UNION", "(", "SELECT", "A", ",", "A", "+", "1", "FROM", "U", ")">>,
   <<"UNION", "(", "SELECT", "A", "AS", "X", "FROM", "U", ")">>,
   <<"UNION", "(", "SELECT", "C", "FROM", "T", ")">>, <<"UNION", "SELECT", "A", "FROM", "U">>,
   <<"UNION", "(", "SELECT", "A", "FROM", "U", "NATURAL", "JOIN", "T", ")">>,
   <<"UNION", "(", "SELECT", "A", "FROM", "U", "WHERE", "A", ")">>, <<";">>, <<";", "FROM">>,
   <<"KEY">>}

(* Conditions with what the generated ones do not have.                   *)
OtherChecks ==
  {<<"A", "LIKE", "'x%'">>, <<"NOT", "B", "LIKE", "'x%'">>,
   <<"B", "LIKE", "'x%'", "AND", "A", "=", "1">>, <<"A", "=", "1", "AND", "B", "LIKE", "'x%'">>,
   <<"POW", "(", "A", ",", "2", ")", "=", "1">>, <<"CURRENT_DATE">>,
   <<"EXTRACT", "(", "DAY", "FROM", "CURRENT_DATE", ")", "=", "1">>, <<"A", "IS", "NULL">>,
   <<"A", "IS", "NOT", "TRUE">>, <<"A", "IS", "FALSE", "OR", "B", "IS", "TRUE">>,
   <<"\"q\"", "=", "1">>, <<"\"SELECT\"", "=", "1">>, <<"\"Q R\"", ".", "\"q\"", "=", "1">>,
   <<"A", "BETWEEN", "1", "AND", "2">>, <<"A", "BETWEEN", "1", "AND", "2", "AND", "B", "=", "1">>,
   <<"(", "A", "BETWEEN", "1", "AND", "2", ")", "=", "B">>,
   <<"B", "=", "(", "A", "BETWEEN", "1", "AND", "2", ")">>,
   <<"(", "-", "A", ")", "BETWEEN", "1", "AND", "2">>,
   <<"NOT", "A", "IN", "(", "1", ",", "2", ")">>,
   <<"A", "IN", "(", "-", "1", ",", "B", "+", "2", ")", "OR", "A", "IN", "(", "3", ")">>,
   <<"COUNT", "(", "*", ")", ">", "1">>,
   <<"SUM", "(", "DISTINCT", "A", ")", ">", "1", "OR", "COUNT", "(", "A", ")", "=", "2">>,
   <<"CAST", "(", "A", "AS", "REAL", ")", "<", "1.5">>,
   <<"CAST", "(", "B", "AS", "DATE", ")", "=", "DATE", "'2016-02-01'">>,
   <<"B", "||", "'xy'", "=", "'x'">>, <<"A", "=", "1", "B">>, <<"T", ".", "A", "=", "1">>,
   <<"NULL">>}

(* Statements of every kind.                                                *)
Others ==
  {<<"SELECT", "COUNT", "(", "*", ")", ",", "SUM", "(", "A", ")", "FROM", "T", "GROUP", "BY", "B", ",", "A">>,
   <<"SELECT", "A", ",", "B", "FROM", "T", "GROUP", "BY", "A">>,
   <<"SELECT", "A", "+", "1", "AS", "X", "FROM", "T", "WHERE", "X", "=", "2">>,
   <<"SELECT", "A", "+", "1", "AS", "X", "FROM", "T", "ORDER", "BY", "X">>,
   <<"SELECT", "A", ",", "-", "A", "FROM", "T", "WHERE", "-", "A", "+", "1", "=", "2">>,
   <<"SELECT", "A", "FROM", "T", "X", "CROSS", "JOIN", "U", "Y">>,
   <<"SELECT", "Y", ".", "A", "FROM", "T", "X", "CROSS", "JOIN", "U", "Y">>,
   <<"SELECT", "C", "FROM", "T", "CROSS", "JOIN", "U">>,
   <<"SELECT", "S", ".", "A", "FROM", "(", "SELECT", "A", "FROM", "T", ")", "AS", "S">>,
   <<"SELECT", "A", "FROM", "(", "SELECT", "A", "FROM", "T", "WHERE", "A", ")">>,
   <<"SELECT", "A", "AS", "X", "FROM", "(", "SELECT", "A", "FROM", "T", ")", "AS", "S">>,
   <<"SELECT", "B", "FROM", "(", "SELECT", "A", "FROM", "T", ")", "AS", "S">>,
   <<"SELECT", "A", "FROM", "(", "SELECT", "A", "FROM", "T", ")", "AS", "S", "CROSS", "JOIN", "(", "SELECT", "A", "FROM", "U", ")", "AS", "R">>,
   <<"SELECT", "A", "FROM", "(", "SELECT", "A", "FROM", "T", ")", "CROSS", "JOIN", "(", "SELECT", "C", "FROM", "U", ")">>,
   <<"SELECT", "C", "FROM", "(", "SELECT", "A", "FROM", "T", ")", "CROSS", "JOIN", "(", "SELECT", "C", "FROM", "U", ")">>,
   <<"SELECT", "A", "FROM", "(", "SELECT", "A", "FROM", "T", ")", "T">>,
   <<"SELECT", "A", "FROM", "(", "SELECT", "A", "FROM", "T", "UNION", "(", "SELECT", "C", "FROM", "U", ")", ")", "AS", "S">>,
   <<"SELECT", "A", "FROM", "(", "SELECT", "A", "+", "1", "AS", "A", "FROM", "T", ")", "AS", "S">>,
   <<"SELECT", "*", "FROM", "(", "SELECT", "A", "FROM", "T", ")", "UNION", "(", "SELECT", "A", "FROM", "U", ")">>,
   <<"SELECT", "*", "FROM", "T", "UNION", "(", "SELECT", "*", "FROM", "T", ")">>,
   <<"SELECT", "*", "FROM", "T", "UNION", "(", "SELECT", "A", ",", "B", "FROM", "T", ")">>,
   <<"(", "SELECT", "A", "FROM", "T", ")", "UNION", "(", "(", "SELECT", "A", "FROM", "U", ")", ")">>,
   <<"SELECT", "A", "FROM", "T", "NATURAL", "JOIN", "U", "UNION", "(", "SELECT", "A", "FROM", "U", ")">>,
   <<"SELECT", "*", "FROM", "SYSTEM_TABLES">>, <<"SELECT", "A", "FROM", "NOWHERE">>,
   <<"SELECT", "T", ".", "A", "FROM", "U", "AS", "T">>, <<"SELECT", "U", ".", "C", "FROM", "T">>,
   <<"SELECT", "UPPER", "(", "B", ")", "AS", "X", ",", "UPPER", "(", "B", ")", "FROM", "T">>,
   <<"SELECT", "\"POW\"", "(", "A", ",", "2", ")", "FROM", "T">>, <<"SELECT", "A", "FROM">>,
   <<"SELECT", "FROM", "T">>, <<"SELECT", "A", "(", "FROM", "T">>,
   <<"EXPLAIN", "AST", "SELECT", "DISTINCT", "T", ".", "*", ",", "A", "+", "1", "AS", "X", ",", "-", "A", ",", "CAST", "(", "B", "AS", "INT", ")", ",", "B", "LIKE", "'x%'", ",", "A", "IN", "(", "1", ",", "2", ")", "FROM", "T", "WHERE", "A", "BETWEEN", "1", "AND", "2">>,
   <<"EXPLAIN", "AST", "SELECT", "COUNT", "(", "*", ")", ",", "SUM", "(", "DISTINCT", "A", ")", ",", "POW", "(", "A", ",", "2", ")", "FROM", "T", "X", "GROUP", "BY", "DISTINCT", "A", ",", "B", "HAVING", "A", ">", "1", "ORDER", "BY", "A", "DESC", "LIMIT", "1", "OFFSET", "2">>,
   <<"EXPLAIN", "AST", "SELECT", "A", "FROM", "T", "JOIN", "U", "ON", "A", "=", "C", "UNION", "DISTINCT", "(", "SELECT", "C", "FROM", "(", "SELECT", "C", "FROM", "U", ")", "AS", "S", "NATURAL", "JOIN", "T", ")">>,
   <<"EXPLAIN", "AST", "SELECT", "A", "IS", "NULL", "FROM", "T">>,
   <<"EXPLAIN", "EXEC", "SELECT", "A", "FROM", "T", "WHERE", "A", "=", "1">>,
   <<"EXPLAIN", "EXEC", "SELECT", "A", "FROM", "T", "WHERE", "A">>,
   <<"EXPLAIN", "SELECT", "A", "FROM", "T">>, <<"EXPLAIN", "AST", "DROP", "TABLE", "T">>,
   <<"DROP", "TABLE", "T">>, <<"DROP", "TABLE">>, <<"DROP", "MAPPING", "T">>,
   <<"DROP", "KEY", "T">>, <<"CREATE", "KEY", "T">>,
   <<"CREATE", "MAPPING", "T", "(", "'f.csv'", ")">>,
   <<"CREATE", "MAPPING", "\"q\"", "(", "'f.csv'", ",", "';'", ",", "TRUE", ")", ";">>,
   <<"CREATE", "MAPPING", "T", "(", "\"q\"", ",", "';'", ",", "UNKNOWN", ")">>,
   <<"CREATE", "MAPPING", "T", "(", "'f.csv'", ",", "'xy'", ")">>,
   <<"ALTER", "TABLE", "T", "ADD", "COLUMN", "C", "INT">>,
   <<"ALTER", "TABLE", "T", "ADD", "C", "INT", "DEFAULT", "1">>,
   <<"ALTER", "TABLE", "T", "DROP", "COLUMN", "A">>, <<"ALTER", "TABLE", "T", "KEY">>,
   <<"CREATE", "TABLE", "IF", "NOT", "EXISTS", "T", "(", "A", "INT", ",", "B", "BOOLEAN", ",", "C", "REAL", ",", "D", "VARCHAR", "(", "10", ")", ",", "E", "CHAR", ",", "F", "CHARACTER", "VARYING", "(", "10", ")", ",", "G", "CHAR", "(", "5", ")", ",", "H", "DATE", ",", "I", "TIME", ",", "J", "TIMESTAMP", ")">>,
   <<"CREATE", "TABLE", "T", "(", "A", "KEY", ")">>,
   <<"CREATE", "TABLE", "T", "(", "A", "INT", "DEFAULT", "1", ")">>,
   <<"CREATE", "TABLE", "T", "(", "A", "VARCHAR", "(", "10", ")", "DEFAULT", "'xy'", "CHECK", "(", "A", "=", "'xy'", ")", ")">>,
   <<"CREATE", "TABLE", "T", "(", "A", "INT", "DEFAULT", "NULL", ")">>,
   <<"CREATE", "TABLE", "T", "(", "A", "INT", "CONSTRAINT", "C", "NOT", "NULL", ",", "B", "INT", "PRIMARY", "KEY", ",", "D", "INT", "UNIQUE", ")">>,
   <<"CREATE", "TABLE", "T", "(", "A", "INT", ",", "CONSTRAINT", "K", "PRIMARY", "KEY", "(", "A", ",", "B", ")", ",", "UNIQUE", "(", "A", ")", ",", "CHECK", "(", "A", ">", "1", ")", ")">>,
   <<"CREATE", "TABLE", "T", "(", "A", "INT", ",", "PRIMARY", "KEY", "(", "A", ")", ")">>,
   <<"CREATE", "TABLE", "T", "(", "A", "INT", ",", ")">>,
   <<"CREATE", "TABLE", "\"q\"", "(", "A", "INT">>, <<"CREATE", "TABLE", "T", "(", ")">>,
   <<"KEY">>}

Vocabulary == {"A", "*", ",", "FROM", "T", "(", ")", "AS"}
AnyWords == {<<a, b, c>> : a, b, c \in Vocabulary}

MCStatements ==
  {<<"SELECT">> \o i \o <<"FROM", "T">> : i \in Items}
  \cup {<<"SELECT", "A", "FROM", "T">> \o t : t \in Tails}
  \cup {InCheck(c) : c \in OtherChecks}
  \cup Others \cup {<<>>}
  \cup {<<"SELECT">> \o w : w \in AnyWords} \cup {<<"SELECT", "A", "FROM">> \o w : w \in AnyWords}
===============================================================================
