------------------------------ MODULE SqlPrint -------------------------------
(***************************************************************************)
(* The visitors that write a tree down: ASTExpressionVisitor the CHECKs    *)
(* that a table keeps, ASTNodeSQLPrintVisitor a query as SQL again, and    *)
(* ASTNodeDumpVisitor what EXPLAIN AST shows.  A text is the words that    *)
(* the lexer will find in it.                                              *)
(***************************************************************************)
EXTENDS SymbolTable

typeToString == [BOOLEAN |-> "BOOLEAN", INT |-> "INTEGER", REAL |-> "REAL", STRING |-> "VARCHAR",
                 DATE |-> "DATE", TIME |-> "TIME", TIMESTAMP |-> "TIMESTAMP", NONE |-> "none"]

(* What could go wrong, for the runs that test the properties: IS NOT      *)
(* loses its second word.                                                  *)
firstWordOfOperator(op) ==
  CASE op = "<=" -> <<"<">> [] op = "<" -> <<"<=">> [] op = "IS NOT" -> <<"IS">> [] OTHER -> <<op>>

(* The names of < and <= are mixed up; IS NOT is two words.                *)
operationTypeToString(op) ==
  CASE op = "<="     -> <<"<">>
    [] op = "<"      -> <<"<=">>
    [] op = "IS NOT" -> <<"IS", "NOT">>
    [] OTHER         -> <<op>>

aggregateFunctionToString(f) == IF f = "COUNT_STAR" THEN "COUNT" ELSE f

naturalJoinToString(type) ==
  IF type = "NATURAL" THEN <<"NATURAL">> ELSE <<"NATURAL", type, "OUTER">>

InQuotes(value) == "'" \o value \o "'"
printType(type, value) ==
  CASE type = "NONE"   -> <<"NULL">>
    [] type \in {"DATE", "TIME", "TIMESTAMP"} -> <<type, InQuotes(value)>>
    [] type = "REAL"   -> <<"1.500000">>
    [] OTHER           -> <<value>>

(* A value within a text has its quotes from the visitor.                  *)
ValueText(type, value) ==
  IF type = "STRING" THEN <<InQuotes(value)>> ELSE printType(type, value)

(* The value of UNKNOWN is empty, and printing it throws.                  *)
Unprintable(tree) ==
  \E n \in Nodes(tree) :
    n.class = "ASTValueNode" /\ n.members[1].text = "BOOLEAN" /\ n.members[2].text = "UNKNOWN"

Separated(words) == FoldLeft(LAMBDA list, w : IF list = <<>> THEN w ELSE list \o <<",">> \o w, <<>>, words)
InParentheses(words) == <<"(">> \o words \o <<")">>
Distinct(quantifier) == IF quantifier = "DISTINCT" THEN <<"DISTINCT">> ELSE <<>>
Dotted(prefix, name) == IF prefix = "" THEN <<name>> ELSE <<prefix, ".", name>>
-----------------------------------------------------------------------------
(* Expressions, as a table keeps its CHECKs.                               *)
RECURSIVE ExpressionText(_)
ExpressionText(e) ==
  LET m    == e.members
      T(n) == ExpressionText(m[n])
      All(list) == Separated([n \in DOMAIN list.members |-> ExpressionText(list.members[n])])
  IN  CASE e.class = "ASTBinaryNode" ->
             InParentheses(T(1) \o operationTypeToString(m[2].text) \o T(3))
        [] e.class = "ASTUnaryNode" ->
             IF m[1].text = "CAST"
             THEN <<"CAST">> \o InParentheses(T(2) \o <<"AS", typeToString[m[3].text]>>)
             ELSE operationTypeToString(m[1].text) \o T(2)
        [] e.class = "ASTValueNode" -> ValueText(m[1].text, m[2].text)
        [] e.class = "ASTLikeNode" -> T(1) \o <<InQuotes(m[2].text)>>
        [] e.class = "ASTBetweenNode" -> T(1) \o <<"BETWEEN">> \o T(2) \o <<"AND">> \o T(3)
        [] e.class = "ASTInNode" -> T(1) \o <<"IN">> \o InParentheses(All(m[2]))
        [] e.class = "ASTFunctionNode" -> <<m[1].text>> \o InParentheses(All(m[2]))
        [] e.class = "ASTAggregateFunctionNode" ->
             <<aggregateFunctionToString(m[1].text)>>
             \o InParentheses((IF m[1].text = "COUNT_STAR" THEN <<"*">> ELSE <<>>)
                              \o Distinct(m[2].text) \o All(m[3]))
        [] e.class = "ASTIdentifier" -> Dotted(Prefix(e), Identifier(e))
        [] OTHER -> <<>>
-----------------------------------------------------------------------------
(* A query as SQL.  Some items show the alias they have, as far as there   *)
(* is a symbol of their name.                                              *)
AliasOf(h, e) == h.infos[findSymbol(h, e.scope, e.symbol)].alias
AsAlias(h, e) ==
  IF e.symbol = "" \/ AliasOf(h, e) = "" THEN <<>> ELSE <<"AS", AliasOf(h, e)>>

Quoted(name) == "\"" \o name \o "\""
getQualifiedQuotedIdentifier(e) ==
  IF e.members[3].text = "TRUE"
  THEN Dotted(IF Prefix(e) = "" THEN "" ELSE Quoted(Prefix(e)), Quoted(Identifier(e)))
  ELSE Dotted(Prefix(e), Identifier(e))
IdentifierText(h, e) ==
  LET alias == IF e.info = 0 THEN "" ELSE h.infos[e.info].alias
      own   == getQualifiedQuotedIdentifier(e)
  IN  own \o (IF alias = "" \/ own = <<alias>> THEN <<>> ELSE <<"AS", alias>>)
AsteriskText(e) ==
  LET prefix == IF e.members[2].text = "TRUE" THEN Quoted(e.members[1].text) ELSE e.members[1].text
  IN  Dotted(prefix, "*")

RECURSIVE ItemText(_, _)
ItemText(h, e) ==
  LET m    == e.members
      T(n) == ItemText(h, m[n])
      All(list) == Separated([n \in DOMAIN list.members |-> ItemText(h, list.members[n])])
  IN  CASE e.class = "ASTBinaryNode" ->
             InParentheses(T(1) \o operationTypeToString(m[2].text) \o T(3)) \o AsAlias(h, e)
        [] e.class = "ASTUnaryNode" ->
             IF m[1].text = "CAST"
             THEN <<"CAST">> \o InParentheses(T(2) \o <<"AS", typeToString[m[3].text]>>) \o AsAlias(h, e)
             ELSE operationTypeToString(m[1].text) \o T(2)
        [] e.class = "ASTValueNode" -> ValueText(m[1].text, m[2].text)
        [] e.class = "ASTLikeNode" -> T(1) \o <<InQuotes(m[2].text)>>
        [] e.class = "ASTBetweenNode" -> T(1) \o <<"BETWEEN">> \o T(2) \o <<"AND">> \o T(3)
        [] e.class = "ASTInNode" -> T(1) \o <<"IN">> \o InParentheses(All(m[2]))
        [] e.class = "ASTFunctionNode" -> <<m[1].text>> \o InParentheses(All(m[2]))
        [] e.class = "ASTAggregateFunctionNode" ->
             <<aggregateFunctionToString(m[1].text)>>
             \o InParentheses((IF m[1].text = "COUNT_STAR" THEN <<"*">> ELSE <<>>)
                              \o Distinct(m[2].text) \o All(m[3]))
             \o AsAlias(h, e)
        [] e.class = "ASTIdentifier" -> IdentifierText(h, e)
        [] e.class = "ASTQualifiedAsterisk" -> AsteriskText(e)

(* What could go wrong, for the runs that test the properties: OFFSET is   *)
(* not written.                                                            *)
LimitAlone(h, limit) == <<"LIMIT">> \o ItemText(h, limit.members[1])

(* Clauses; HAVING, the quantifier of GROUP BY and the alias of a subquery *)
(* are not written.                                                        *)
LimitText(h, limit) ==
  <<"LIMIT">> \o ItemText(h, limit.members[1])
  \o (IF limit.members[2] = None THEN <<>> ELSE <<"OFFSET">> \o ItemText(h, limit.members[2]))
OrderText(h, order) ==
  LET orders == order.members[1].members
  IN  <<"ORDER", "BY">>
      \o Separated([n \in DOMAIN orders |->
                      ItemText(h, orders[n].members[1]) \o <<orders[n].members[2].text>>])
GroupText(h, group) ==
  LET keys == group.members[2].members
  IN  <<"GROUP", "BY">> \o Separated([n \in DOMAIN keys |-> ItemText(h, keys[n])])
ClauseText(h, clause) ==
  CASE clause.class = "ASTWhereNode"   -> <<"WHERE">> \o ItemText(h, clause.members[1])
    [] clause.class = "ASTGroupByNode" -> GroupText(h, clause)
    [] clause.class = "ASTOrderByNode" -> OrderText(h, clause)
    [] clause.class = "ASTLimitNode"   -> LimitText(h, clause)
    [] OTHER                           -> <<>>

JoinWords(join) ==
  CASE join.class = "ASTCrossJoinNode"   -> <<"CROSS", "JOIN">>
    [] join.class = "ASTNaturalJoinNode" -> naturalJoinToString(join.members[2].text) \o <<"JOIN">>
    [] join.class = "ASTInnerJoinNode"   -> <<"INNER", "JOIN">>
    [] join.class = "ASTLeftJoinNode"    -> <<"LEFT", "OUTER", "JOIN">>
    [] join.class = "ASTRightJoinNode"   -> <<"RIGHT", "OUTER", "JOIN">>
    [] join.class = "ASTFullJoinNode"    -> <<"FULL", "OUTER", "JOIN">>
Factor(join) == IF join.class = "ASTNaturalJoinNode" THEN join.members[3] ELSE join.members[2]

RECURSIVE QueryText(_, _), TableText(_, _)
TableText(h, t) ==
  CASE t.class = "ASTTableIdentifierNode" -> ItemText(h, t.members[1])
    [] t.class = "ASTTableSubqueryNode" -> InParentheses(QueryText(h, t.members[1]))
    [] OTHER ->
         TableText(h, t.members[1]) \o JoinWords(t) \o TableText(h, Factor(t))
         \o (IF t.class \in DOMAIN ASTJoinWithCondition
             THEN <<"ON">> \o ItemText(h, t.members[3]) ELSE <<>>)

QueryText(h, q) ==
  LET m == q.members IN
  IF q.class = "ASTUnionNode"
  THEN QueryText(h, m[1]) \o <<"UNION">> \o Distinct(m[2].text) \o InParentheses(QueryText(h, m[3]))
  ELSE LET items   == m[2].members
           clauses == m[3].members
           tables  == clauses[1].members[1].members
       IN  <<"SELECT">> \o Distinct(m[1].text)
           \o Separated([n \in DOMAIN items |-> ItemText(h, items[n])])
           \o <<"FROM">> \o Separated([n \in DOMAIN tables |-> TableText(h, tables[n])])
           \o FlattenSeq([n \in 1..5 |-> ClauseText(h, clauses[n + 1])])

StatementText(h, s) ==
  CASE s.class = "ASTQueryNode"   -> QueryText(h, s.members[1])
    [] s.class = "ASTExplainNode" -> <<"EXPLAIN", "AST">> \o QueryText(h, s.members[2].members[1])
    [] OTHER                      -> <<>>
-----------------------------------------------------------------------------
(***************************************************************************)
(* ASTNodeDumpVisitor: the tree of a statement as indented lines, which is *)
(* what EXPLAIN AST shows.  A line is <<depth, words>>.                    *)
(***************************************************************************)
Line(d, words) == <<<<d, words>>>>
AliasNote(h, i) == IF h.infos[i].alias = "" THEN <<>> ELSE <<"alias:", h.infos[i].alias>>

(* The name of a select item, below its lines.                             *)
SymbolNote(h, d, e) ==
  IF e.symbol = "" THEN <<>>
  ELSE Line(d, <<"->", e.symbol>> \o AliasNote(h, findSymbol(h, e.scope, e.symbol)))
DistinctNote(d, quantifier) == IF quantifier = "DISTINCT" THEN Line(d, <<"DISTINCT">>) ELSE <<>>

RECURSIVE DumpExpression(_, _, _)
DumpExpression(h, d, e) ==
  LET m           == e.members
      D(n, depth) == DumpExpression(h, depth, m[n])
      All(list, depth) ==
        FlattenSeq([n \in DOMAIN list.members |-> DumpExpression(h, depth, list.members[n])])
  IN  CASE e.class = "ASTBinaryNode" ->
             Line(d, <<e.class>>) \o Line(d + 1, operationTypeToString(m[2].text))
             \o D(1, d + 2) \o D(3, d + 2) \o SymbolNote(h, d + 1, e)
        [] e.class = "ASTUnaryNode" ->
             Line(d, <<e.class>>) \o Line(d + 1, operationTypeToString(m[1].text)) \o D(2, d + 2)
             \o (IF m[1].text = "CAST" THEN Line(d + 2, <<"AS", typeToString[m[3].text]>>) ELSE <<>>)
        [] e.class = "ASTValueNode" ->
             Line(d, <<e.class, typeToString[m[1].text]>> \o printType(m[1].text, m[2].text))
        [] e.class = "ASTLikeNode" ->
             Line(d, <<e.class>>) \o D(1, d + 1) \o Line(d + 1, <<InQuotes(m[2].text)>>)
        [] e.class = "ASTBetweenNode" ->
             Line(d, <<e.class>>) \o D(1, d + 1) \o Line(d + 1, <<"between">>) \o D(2, d + 2)
             \o Line(d + 1, <<"and">>) \o D(3, d + 2)
        [] e.class = "ASTInNode" ->
             Line(d, <<e.class>>) \o D(1, d + 1) \o Line(d + 1, <<"in">>) \o All(m[2], d + 2)
        [] e.class = "ASTFunctionNode" ->
             Line(d, <<e.class>>) \o Line(d + 1, <<m[1].text, "(">>) \o All(m[2], d + 2)
             \o Line(d + 1, <<")">>)
        [] e.class = "ASTAggregateFunctionNode" ->
             Line(d, <<e.class>>) \o Line(d + 1, <<aggregateFunctionToString(m[1].text), "(">>)
             \o (IF m[1].text = "COUNT_STAR" THEN Line(d + 2, <<"*">>) ELSE <<>>)
             \o DistinctNote(d + 2, m[2].text) \o All(m[3], d + 2) \o Line(d + 1, <<")">>)
        [] e.class = "ASTIdentifier" ->
             Line(d, <<e.class, getQualifiedIdentifier(e)>> \o AliasNote(h, e.info))
        [] e.class = "ASTQualifiedAsterisk" ->
             Line(d, <<e.class, Qualified(m[1].text, "*")>>)

DumpJoined(h, d, reference, factor, condition) ==
  reference \o Line(d, <<"JOIN">>) \o factor
  \o (IF condition = None THEN <<>> ELSE Line(d, <<"ON">>) \o DumpExpression(h, d + 1, condition))

DumpGroup(h, d, group) ==
  LET keys == group.members[2].members
  IN  Line(d, <<group.class>>) \o DistinctNote(d + 1, group.members[1].text)
      \o FlattenSeq([n \in DOMAIN keys |-> DumpExpression(h, d + 1, keys[n])])
DumpOrder(h, d, order) ==
  LET orders == order.members[1].members
  IN  Line(d, <<order.class>>)
      \o FlattenSeq([n \in DOMAIN orders |->
                       Line(d + 1, <<orders[n].members[2].text>>)
                       \o DumpExpression(h, d + 1, orders[n].members[1])])

(* The clauses of a query; HAVING is left out.                             *)
DumpClause(h, d, clause) ==
  CASE clause.class = "ASTWhereNode" ->
         Line(d, <<clause.class>>) \o DumpExpression(h, d + 1, clause.members[1])
    [] clause.class = "ASTGroupByNode" -> DumpGroup(h, d, clause)
    [] clause.class = "ASTOrderByNode" -> DumpOrder(h, d, clause)
    [] clause.class = "ASTLimitNode" ->
         Line(d, <<clause.class>>) \o DumpExpression(h, d + 1, clause.members[1])
         \o (IF clause.members[2] = None THEN <<>> ELSE DumpExpression(h, d + 1, clause.members[2]))
    [] OTHER -> <<>>

RECURSIVE DumpQuery(_, _, _), DumpTable(_, _, _)
DumpTable(h, d, t) ==
  CASE t.class = "ASTTableIdentifierNode" ->
         Line(d, <<t.class>>)
         \o Line(d + 1, <<getQualifiedIdentifier(t.members[1])>> \o AliasNote(h, t.members[1].info))
    [] t.class = "ASTTableSubqueryNode" -> Line(d, <<t.class>>) \o DumpQuery(h, d + 1, t.members[1])
    [] OTHER ->
         Line(d, <<t.class>>)
         \o DumpJoined(h, d + 1, DumpTable(h, d + 1, t.members[1]), DumpTable(h, d + 1, Factor(t)),
                       IF t.class \in DOMAIN ASTJoinWithCondition THEN t.members[3] ELSE None)

DumpQuery(h, d, q) ==
  LET m == q.members IN
  IF q.class = "ASTUnionNode"
  THEN Line(d, <<q.class>>) \o DistinctNote(d + 1, m[2].text)
       \o DumpQuery(h, d + 1, m[1]) \o DumpQuery(h, d + 1, m[3])
  ELSE LET items   == m[2].members
           clauses == m[3].members
           tables  == clauses[1].members[1].members
       IN  Line(d, <<q.class>>) \o DistinctNote(d + 1, m[1].text)
           \o FlattenSeq([n \in DOMAIN items |-> DumpExpression(h, d + 2, items[n])])
           \o Line(d + 1, <<m[3].class>>)
           \o Line(d + 2, <<clauses[1].class>>)
           \o FlattenSeq([n \in DOMAIN tables |-> DumpTable(h, d + 3, tables[n])])
           \o FlattenSeq([n \in 1..5 |-> DumpClause(h, d + 2, clauses[n + 1])])
=============================================================================
