------------------------------ MODULE SqlParser ------------------------------
(***************************************************************************)
(* SQLParser (sql_parser.cpp): the functions of the parser as sequences of *)
(* steps, and the parser that takes them, word by word.                    *)
(***************************************************************************)
EXTENDS SqlSyntax, SymbolTable

(***************************************************************************)
(* What the functions of SQLParser do, each as the sequence of its steps   *)
(* for the token t it is called with: words it expects, functions it       *)
(* calls, values it makes.  Steps push what they make to a stack of nodes, *)
(* and Build takes the members of a node from there.  A loop is a step     *)
(* that comes back to itself.  The parser below takes the steps.           *)
(***************************************************************************)
Expect(token) == <<"expect", token>>
Take(token) == <<"take", token>>         \* the value of the word is pushed
canExpect(token) == <<"canExpect", token>>
Push(node) == <<"push", node>>
Build(class, size) == <<"build", class, size>>
Do(effect) == <<"do", effect>>
Call(function) == <<"call", function>>
More(element) == <<"more", element>>      \* , element, element ...
Throw == <<"throw">>
Collect == <<"collect">>                     \* the last node goes to the list before it

(* f, f, ... into a vector                                                 *)
Listed(class, f) == <<Push(List(class)), Call(f), Collect, More(f)>>
more(t, f) == IF t = "," THEN <<Expect(","), Call(f), Collect, More(f)>> ELSE <<>>

Word(t, text) == <<Expect(t), Push(Text(text))>>
-----------------------------------------------------------------------------
(* Statements.                                                             *)
parse(t) ==
  CASE t = "EOI" -> <<>>
    [] t \in {"SELECT", "("} -> <<Call("parseQuery"), Call("endOfStatement")>>
    [] t = "CREATE" -> <<Expect("CREATE"), Call("parseCreate"), Call("endOfStatement")>>
    [] t = "ALTER" -> <<Call("parseAlterTable"), Call("endOfStatement")>>
    [] t = "DROP" -> <<Expect("DROP"), Call("parseDrop"), Call("endOfStatement")>>
    [] t = "EXPLAIN" -> <<Call("parseExplain"), Call("endOfStatement")>>
    [] OTHER -> <<Throw>>

parseCreate(t) ==
  CASE t = "TABLE" -> <<Call("parseCreateTable")>>
    [] t = "MAPPING" -> <<Call("parseCreateMapping")>>
    [] OTHER -> <<Throw>>

parseDrop(t) ==
  CASE t = "TABLE" -> <<Expect("TABLE"), Take("IDENTIFIER"), Build("ASTDropTableNode", 1)>>
    [] t = "MAPPING" -> <<Call("parseDropMapping")>>
    [] OTHER -> <<Throw>>

endOfStatement(t) == IF t = "EOI" THEN <<>> ELSE <<Expect(";")>>

parseExplain == <<Expect("EXPLAIN"), Call("explained"), Call("parseQuery"), Build("ASTExplainNode", 2)>>
explained(t) == IF t \in {"AST", "EXEC"} THEN Word(t, t) ELSE <<Throw>>

parseCreateMapping ==
  <<Expect("MAPPING"), Call("parseQuotedIdentifier"), Expect("("), Call("mapped"),
    Call("delimiter"), Expect(")"), Build("ASTMappingNode", 4)>>
mapped(t) == IF t = "CONST_STRING" THEN <<Take("CONST_STRING")>> ELSE <<Take("QUOTED_IDENTIFIER")>>
delimiter(t) ==
  IF t = "," THEN <<Expect(","), Take("CONST_CHAR"), Call("skipFirstLine")>>
  ELSE <<Push(Text(",")), Push(Text("FALSE"))>>
skipFirstLine(t) ==
  IF t = "," THEN <<Expect(","), Take("CONST_BOOLEAN"), Do("stringToBool")>> ELSE <<Push(Text("FALSE"))>>

parseDropMapping == <<Expect("MAPPING"), Call("parseQuotedIdentifier"), Build("ASTDropMappingNode", 1)>>

parseCreateTable ==
  <<Expect("TABLE"), Call("createIfNotExists"), Call("parseQuotedIdentifier"), Expect("("),
    Push(List("ColumnDefinitions")), Push(List("TableConstraints")), Call("tableElement"),
    Expect(")"), Build("ASTCreateTableNode", 4)>>
createIfNotExists(t) ==
  IF t = "IF" THEN <<Expect("IF"), Expect("NOT"), Expect("EXISTS"), Push(Text("TRUE"))>>
  ELSE <<Push(Text("FALSE"))>>
TableElement == {"IDENTIFIER", "CONSTRAINT", "UNIQUE", "PRIMARY", "CHECK"}
tableElement(t) ==
  CASE t = "IDENTIFIER" -> <<Call("parseColumnDefinition"), Do("addColumn"), Call("nextElement")>>
    [] t \in TableElement \ {"IDENTIFIER"} ->
         <<Call("parseTableConstraint"), Collect, Call("nextElement")>>
    [] OTHER -> <<>>
nextElement(t) == IF t = "," THEN <<Expect(","), Call("elementAfterComma")>> ELSE <<>>
elementAfterComma(t) == IF t \in TableElement THEN <<Call("tableElement")>> ELSE <<Throw>>

(* The types of CAST and the types of columns.                             *)
TypeOf(t) ==
  CASE t = "BOOL" -> "BOOLEAN" [] t \in {"STRING", "CHAR"} -> "STRING" [] OTHER -> t

parseType(t) ==
  CASE t \in {"BOOL", "INT", "REAL", "CHAR"} -> Word(t, TypeOf(t))
    [] t = "STRING" -> <<Expect("STRING"), Call("ignoredLength"), Push(Text("STRING"))>>
    [] t \in {"DATE", "TIME", "TIMESTAMP"} -> Word("DATE", "DATE")
    [] OTHER -> <<Throw>>
ignoredLength(t) == IF t = "(" THEN <<Expect("("), Expect("CONST_INTEGER"), Expect(")")>> ELSE <<>>

Length == <<Expect("("), Take("CONST_INTEGER"), Expect(")")>>
parseColumnDefinition ==
  <<Take("IDENTIFIER"), Call("columnType"), Call("defaultValue"), Call("constraintName"),
    Call("parseConstraint"), Call("check"), Build("ColumnDefinition", 7), Do("renameDefinition")>>
columnType(t) ==
  CASE t \in {"BOOL", "INT", "REAL", "DATE", "TIME", "TIMESTAMP"} ->
         Word(t, TypeOf(t)) \o <<Push(None)>>
    [] t = "STRING" -> Word(t, "STRING") \o Length
    [] t = "CHAR" -> Word(t, "STRING") \o <<Call("varying")>>
    [] OTHER -> <<Throw>>
varying(t) ==
  CASE t = "(" -> Length
    [] t = "VARYING" -> <<Expect("VARYING")>> \o Length
    [] OTHER -> <<Push(None)>>
defaultValue(t) == IF t = "DEFAULT" THEN <<Expect("DEFAULT"), Call("defaultConstant")>> ELSE <<Push(None)>>
defaultConstant(t) ==
  IF t \in {"CONST_STRING", "CONST_INTEGER", "CONST_BOOLEAN", "CONST_DATE", "CONST_REAL", "CONST_CHAR"}
  THEN <<Take(t)>> ELSE <<Throw>>
constraintName(t) ==
  IF t = "CONSTRAINT" THEN <<Expect("CONSTRAINT"), Take("IDENTIFIER")>> ELSE <<Push(None)>>

parseColumnList == Listed("StringVector", "columnName")
columnName == <<Take("IDENTIFIER")>>

parseTableConstraint ==
  <<Call("constraintName"), Call("keys"), Call("check"), Build("TableConstraint", 4)>>
keys(t) ==
  CASE t = "PRIMARY" ->
         Word(t, "PRIMARY") \o <<Expect("KEY"), Expect("("), Call("parseColumnList"), Expect(")")>>
    [] t = "UNIQUE" -> Word(t, "UNIQUE") \o <<Expect("("), Call("parseColumnList"), Expect(")")>>
    [] OTHER -> <<Push(None), Push(List("StringVector"))>>

parseConstraint(t) ==
  CASE t = "PRIMARY" -> Word(t, "PRIMARY") \o <<Expect("KEY")>>
    [] t = "NOT" -> Word(t, "NOT NULL") \o <<Expect("NULL")>>
    [] t = "UNIQUE" -> Word(t, "UNIQUE")
    [] OTHER -> <<Push(None)>>
check(t) ==
  IF t = "CHECK"
  THEN <<Expect("CHECK"), Expect("("), Do("createSymbolTable"), Call("parseExpression"),
         Do("leaveSymbolTable"), Expect(")")>>
  ELSE <<Push(None)>>

parseAlterTable == <<Expect("ALTER"), Expect("TABLE"), Expect("IDENTIFIER"), Call("alteration")>>
alteration(t) ==
  CASE t = "ADD" -> <<Expect("ADD"), canExpect("COLUMN"), Call("parseColumnDefinition"),
                      Build("ASTAlterTableAddNode", 1)>>
    [] t = "DROP" -> <<Expect("DROP"), canExpect("COLUMN"), Take("IDENTIFIER"),
                       Build("ASTAlterTableDropNode", 1)>>
    [] OTHER -> <<Throw>>
-----------------------------------------------------------------------------
(* A kept CHECK is parsed for itself; nobody asks what follows it.         *)
parseExpressionText == <<Do("createSymbolTable"), Call("parseExpression")>>

(* Queries.                                                                *)
parseQuery == <<Call("parseQueryExpression"), Build("ASTQueryNode", 1)>>

parseQueryExpression == <<Do("createNestedSymbolTable"), Call("firstQuery"), Call("moreUnion"),
                          Do("leaveSymbolTable")>>
firstQuery(t) ==
  LET query == <<Expect("SELECT"), Call("quantifier"), Call("parseSelectList"),
                 Call("parseTableExpression")>>
      made  == <<Build("ASTQuerySpecificationNode", 3)>>
  IN  IF t = "(" THEN <<Expect("(")>> \o query \o <<Expect(")")>> \o made ELSE query \o made
moreUnion(t) ==
  IF t = "UNION"
  THEN <<Expect("UNION"), Call("quantifier"), Expect("("), Call("parseQueryExpression"),
         Expect(")"), Build("ASTUnionNode", 3), Call("moreUnion")>>
  ELSE <<>>
quantifier(t) == IF t \in {"DISTINCT", "ALL"} THEN Word(t, t) ELSE <<Push(Text("ALL"))>>

parseTableExpression ==
  <<Call("parseFrom"), Call("parseWhere"), Call("parseGroupBy"), Call("parseHaving"),
    Call("parseOrderBy"), Call("parseLimit"), Build("ASTTableExpressionNode", 6)>>

parseFrom ==
  <<Expect("FROM")>> \o Listed("TableReferences", "parseTableReference") \o <<Build("ASTFromNode", 1)>>

isJoin(t) == t \in {"INNER", "LEFT", "RIGHT", "FULL", "NATURAL", "JOIN", "CROSS"}
parseTableReference == <<Call("parseTableFactor"), Call("moreJoins")>>
moreJoins(t) == IF isJoin(t) THEN <<Call("parseJoinType"), Call("moreJoins")>> ELSE <<>>

parseTableFactor(t) ==
  IF t = "("
  THEN <<Expect("("), Call("parseQueryExpression"), Expect(")"), Call("subqueryAlias"),
         Build("ASTTableSubqueryNode", 2), Do("addSubquery")>>
  ELSE <<Call("parseAliasedIdentifier"), Build("ASTTableIdentifierNode", 1)>>
subqueryAlias(t) == IF t = "AS" THEN <<Expect("AS"), Take("IDENTIFIER")>> ELSE <<Push(Text(""))>>

parseAliasedIdentifier == <<Call("parseQuotedIdentifier"), Call("tableAlias"), Do("addTable")>>
tableAlias(t) ==
  IF t \in {"AS", "IDENTIFIER", "QUOTED_IDENTIFIER"}
  THEN <<canExpect("AS"), Call("parseQuotedIdentifier"), Do("quotedNext")>> ELSE <<Push(Text(""))>>

(* A join of type is made of the reference before it, a factor, and for    *)
(* most a condition.                                                       *)
WithCondition(class) ==
  <<Call("parseTableFactor"), Expect("ON"), Call("parseExpression"), Build(class, 3)>>
Natural(type) ==
  <<Expect("JOIN"), Push(Text(type)), Call("parseTableFactor"), Build("ASTNaturalJoinNode", 3)>>
Outer(t, class) == <<Expect(t), canExpect("OUTER"), Expect("JOIN")>> \o WithCondition(class)

parseJoinType(t) ==
  CASE t = "CROSS" ->
         <<Expect("CROSS"), Expect("JOIN"), Call("parseTableFactor"), Build("ASTCrossJoinNode", 2)>>
    [] t = "INNER" -> <<Expect("INNER"), Expect("JOIN")>> \o WithCondition("ASTInnerJoinNode")
    [] t = "NATURAL" -> <<Expect("NATURAL"), Call("naturalJoinType")>>
    [] t = "LEFT" -> Outer(t, "ASTLeftJoinNode")
    [] t = "RIGHT" -> Outer(t, "ASTRightJoinNode")
    [] t = "FULL" -> Outer(t, "ASTFullJoinNode")
    [] OTHER -> <<Expect("JOIN")>> \o WithCondition("ASTInnerJoinNode")
naturalJoinType(t) ==
  IF t \in {"LEFT", "RIGHT", "FULL"}
  THEN <<Expect(t), canExpect("OUTER")>> \o Natural(t)
  ELSE <<canExpect("INNER")>> \o Natural("NATURAL")

parseWhere(t) ==
  IF t = "WHERE" THEN <<Expect("WHERE"), Call("parseExpression"), Build("ASTWhereNode", 1)>>
  ELSE <<Push(None)>>

parseGroupBy(t) ==
  IF t = "GROUP"
  THEN <<Expect("GROUP"), Expect("BY"), Call("quantifier"), Call("parseIdentifierList"),
         Build("ASTGroupByNode", 2)>>
  ELSE <<Push(None)>>

parseHaving(t) ==
  IF t = "HAVING" THEN <<Expect("HAVING"), Call("parseExpression"), Build("ASTHavingNode", 1)>>
  ELSE <<Push(None)>>

parseOrderBy(t) ==
  IF t = "ORDER"
  THEN <<Expect("ORDER"), Expect("BY")>> \o Listed("OrderExpressions", "orderExpression")
       \o <<Build("ASTOrderByNode", 1)>>
  ELSE <<Push(None)>>
orderExpression == <<Call("parseExpression"), Call("order"), Build("OrderExpression", 2)>>
order(t) == IF t \in {"ASC", "DESC"} THEN Word(t, t) ELSE <<Push(Text("ASC"))>>

parseLimit(t) ==
  IF t = "LIMIT"
  THEN <<Expect("LIMIT"), Call("parseExpression"), Call("offset"), Build("ASTLimitNode", 2)>>
  ELSE <<Push(None)>>
offset(t) == IF t = "OFFSET" THEN <<Expect("OFFSET"), Call("parseExpression")>> ELSE <<Push(None)>>
-----------------------------------------------------------------------------
(* Expressions: operators of one level bind to the left.                   *)
Level(t, operators, operand, rest) ==
  IF t \in operators
  THEN Word(t, t) \o <<Call(operand), Build("ASTBinaryNode", 3), Call(rest)>> ELSE <<>>

parseExpression == <<Call("parseJoin"), Call("moreOr")>>
moreOr(t) == Level(t, {"OR"}, "parseJoin", "moreOr")

parseJoin == <<Call("parseEquality"), Call("moreAnd")>>
moreAnd(t) == Level(t, {"AND"}, "parseEquality", "moreAnd")

parseEquality == <<Call("parseRelation"), Call("moreEquality")>>
moreEquality(t) ==
  CASE t \in {"=", "<>"} -> Level(t, {"=", "<>"}, "parseRelation", "moreEquality")
    [] t = "LIKE" ->
         <<Expect("LIKE"), Take("CONST_STRING"), Do("toRegexp"), Build("ASTLikeNode", 2),
           Call("moreEquality")>>
    [] t = "BETWEEN" ->
         <<Expect("BETWEEN"), Call("parseFactor"), Expect("AND"), Call("parseFactor"),
           Build("ASTBetweenNode", 3), Call("moreEquality")>>
    [] t = "IN" ->
         <<Expect("IN"), Expect("("), Push(List("Expressions")), Call("inList"), Expect(")"),
           Build("ASTInNode", 2), Call("moreEquality")>>
    [] t = "IS" ->
         <<Expect("IS"), Call("isNot"), Call("isValue"), Build("ASTBinaryNode", 3),
           Call("moreEquality")>>
    [] OTHER -> <<>>
inList(t) ==
  IF t = ")" THEN <<>> ELSE <<Call("parseFactor"), Collect, Call("inListComma"), Call("inList")>>
inListComma(t) == IF t = "," THEN <<Expect(","), Call("inListElement")>> ELSE <<>>
inListElement(t) == IF t = ")" THEN <<Throw>> ELSE <<>>
isNot(t) == IF t = "NOT" THEN Word("NOT", "IS NOT") ELSE <<Push(Text("IS"))>>
isValue(t) ==
  CASE t = "CONST_BOOLEAN" -> <<Push(Text("BOOLEAN")), Take(t), Do("createValue")>>
    [] t = "NULL" ->
         <<Expect("NULL"), Push(Text("BOOLEAN")), Push(Text("UNKNOWN")), Do("createValue")>>
    [] OTHER -> <<Throw>>

Relations == {">", ">=", "<", "<="}
parseRelation == <<Call("parseAdd"), Call("moreRelation")>>
moreRelation(t) == Level(t, Relations, "parseAdd", "moreRelation")

(* What could go wrong, for the runs that test the properties: what is on  *)
(* the right of an operator of this level takes the next one, too.         *)
rightToLeft(t) == Level(t, {"+", "-", "||"}, "parseAdd", "moreAdd")

parseAdd == <<Call("parseMul"), Call("moreAdd")>>
moreAdd(t) == Level(t, {"+", "-", "||"}, "parseMul", "moreAdd")

parseMul == <<Call("parseFactor"), Call("moreMul")>>
moreMul(t) == Level(t, {"*", "/", "%"}, "parseFactor", "moreMul")

Identifiers == {"IDENTIFIER", "QUOTED_IDENTIFIER"}
Aggregates == {"SUM", "COUNT", "AVG", "MIN", "MAX", "ARBITRARY"}
ConstantTokens ==
  {"CONST_STRING", "CONST_CHAR", "CONST_BOOLEAN", "CONST_DATE", "CONST_INTEGER", "CONST_REAL", "NULL"}

ConstantType(t) ==
  CASE t = "CONST_INTEGER" -> "INT"
    [] t = "CONST_BOOLEAN" -> "BOOLEAN"
    [] t = "CONST_DATE" -> "DATE"
    [] t = "CONST_REAL" -> "REAL"
    [] t = "NULL" -> "NONE"
    [] OTHER -> "STRING"
constant(t) == <<Push(Text(ConstantType(t))), Take(t), Do("createValue")>>

parseFactor(t, isFunction) ==
  CASE t = "(" -> <<Expect("("), Call("parseExpression"), Expect(")")>>
    [] t \in Identifiers ->
         IF isFunction
         THEN <<Take("IDENTIFIER"), Call("parseParameterList"), Do("addFunction"),
                Build("ASTFunctionNode", 2), Do("getFunction")>>
         ELSE <<Call("parseQualifiedIdentifierOrAsterisk"), Do("bindIdentifier")>>
    [] t = "COUNT" -> <<Expect("COUNT"), Expect("("), Call("countStar")>>
    [] t \in Aggregates -> Word(t, t) \o <<Expect("("), Call("aggregated")>>
    [] t \in ConstantTokens -> constant(t)
    [] t \in {"NOT", "-", "+", "CAST"} -> <<Call("parseUnary")>>
    [] t \in {"DATE", "TIME", "TIMESTAMP"} ->
         Word(t, t) \o <<Take("CONST_STRING"), Do("createValue")>>
    [] t \in {"CURRENT_DATE", "CURRENT_TIME", "CURRENT_TIMESTAMP"} ->
         Word(t, t) \o <<Call("noParameters"), Push(List("Parameters")),
                         Build("ASTFunctionNode", 2), Do("getFunction")>>
    [] t = "EXTRACT" ->
         Word(t, t) \o <<Expect("("), Push(List("Parameters")), Call("extracted"), Collect,
                         Expect("FROM"), Call("parseExpression"), Collect, Expect(")"),
                         Build("ASTFunctionNode", 2), Do("getFunction")>>
    [] OTHER -> <<Throw>>

countStar(t) ==
  IF t = "*"
  THEN Word("*", "COUNT_STAR")
       \o <<Push(Text("ALL")), Push(List("Parameters")), Expect(")"),
            Build("ASTAggregateFunctionNode", 3)>>
  ELSE <<Push(Text("COUNT")), Call("aggregated")>>
aggregated ==
  <<Call("quantifier"), Push(List("Parameters")), Call("parseExpression"), Collect, Expect(")"),
    Build("ASTAggregateFunctionNode", 3)>>

noParameters(t) == IF t = "(" THEN <<Expect("("), Expect(")")>> ELSE <<>>
DatePart ==
  [SECOND |-> "1", MINUTE |-> "2", HOUR |-> "3", DAY |-> "4", MONTH |-> "5", YEAR |-> "6"]
extracted(t) ==
  IF t \in DOMAIN DatePart
  THEN <<Expect(t), Push(Text("INT")), Push(Text(DatePart[t])), Do("createValue")>>
  ELSE <<Throw>>

(* The operand of a sign or of NOT is all that follows.                    *)
parseUnary(t) ==
  IF t = "CAST"
  THEN Word(t, t) \o <<Expect("("), Call("parseExpression"), Expect("AS"), Call("parseType"),
                       Expect(")"), Build("ASTUnaryNode", 3)>>
  ELSE Word(t, t) \o <<Call("parseExpression"), Push(None), Build("ASTUnaryNode", 3)>>

parseQuotedIdentifier(t) ==
  IF t = "QUOTED_IDENTIFIER" THEN <<Take(t), Do("toupper"), Do("quoted")>>
  ELSE <<Take("IDENTIFIER"), Do("unquoted")>>

(* name or prefix.name: what was parsed first is the prefix.               *)
parseQualifiedIdentifierOrAsterisk == <<Call("parseQuotedIdentifier"), Call("qualifiedOrAsterisk")>>
qualifiedOrAsterisk(t) ==
  IF t = "." THEN <<Expect("."), Call("elementOrAsterisk")>>
  ELSE <<Do("noPrefix"), Do("pushQuoted"), Build("ASTIdentifier", 3)>>
elementOrAsterisk(t) ==
  IF t = "*" THEN <<Expect("*"), Do("pushQuoted"), Build("ASTQualifiedAsterisk", 2)>>
  ELSE <<Call("parseQuotedIdentifier"), Do("pushQuoted"), Build("ASTIdentifier", 3)>>

parseQualifiedIdentifier == <<Call("parseQuotedIdentifier"), Call("qualified")>>
qualified(t) ==
  IF t = "."
  THEN <<Expect("."), Call("parseQuotedIdentifier"), Do("pushQuoted"), Build("ASTIdentifier", 3)>>
  ELSE <<Do("noPrefix"), Do("pushQuoted"), Build("ASTIdentifier", 3)>>

parseParameterList ==
  <<Expect("("), Push(List("Parameters")), Call("moreParameters"), Expect(")")>>
moreParameters(t) ==
  IF t = ")" THEN <<>>
  ELSE <<Call("parseExpression"), canExpect(","), Collect, Call("moreParameters")>>

parseIdentifierList == Listed("Identifiers", "listedIdentifier")
listedIdentifier == <<Call("parseQualifiedIdentifier"), Do("bindIdentifier")>>

(* Only the first item may be an asterisk; a later one is skipped.         *)
parseSelectList ==
  <<Push(List("Expressions")), Call("firstItem"), Collect, Call("moreItems")>>
firstItem(t) ==
  IF t = "*" THEN <<Expect("*"), Push(Text("")), Push(Text("FALSE")), Build("ASTQualifiedAsterisk", 2)>>
  ELSE <<Call("parseDerivedColumn")>>
moreItems(t) ==
  IF t = ","
  THEN <<Expect(","), canExpect("*"), Call("parseDerivedColumn"), Collect, Call("moreItems")>>
  ELSE <<>>

parseDerivedColumn == <<Call("parseExpression"), Do("nameColumn"), Call("columnAlias")>>
columnAlias(t) ==
  IF t \in {"AS", "IDENTIFIER"} THEN <<canExpect("AS"), Call("aliasName"), Do("renameColumn")>> ELSE <<>>
aliasName(t) == <<Take(IF t = "QUOTED_IDENTIFIER" THEN t ELSE "IDENTIFIER"), Do("toupper")>>
-----------------------------------------------------------------------------
Steps(f, t, isFunction) ==
  CASE f = "parse" -> parse(t)
    [] f = "parseCreate" -> parseCreate(t)
    [] f = "parseDrop" -> parseDrop(t)
    [] f = "endOfStatement" -> endOfStatement(t)
    [] f = "parseExplain" -> parseExplain
    [] f = "explained" -> explained(t)
    [] f = "parseCreateMapping" -> parseCreateMapping
    [] f = "mapped" -> mapped(t)
    [] f = "delimiter" -> delimiter(t)
    [] f = "skipFirstLine" -> skipFirstLine(t)
    [] f = "parseDropMapping" -> parseDropMapping
    [] f = "parseCreateTable" -> parseCreateTable
    [] f = "createIfNotExists" -> createIfNotExists(t)
    [] f = "tableElement" -> tableElement(t)
    [] f = "nextElement" -> nextElement(t)
    [] f = "elementAfterComma" -> elementAfterComma(t)
    [] f = "parseType" -> parseType(t)
    [] f = "ignoredLength" -> ignoredLength(t)
    [] f = "parseColumnDefinition" -> parseColumnDefinition
    [] f = "columnType" -> columnType(t)
    [] f = "varying" -> varying(t)
    [] f = "defaultValue" -> defaultValue(t)
    [] f = "defaultConstant" -> defaultConstant(t)
    [] f = "constraintName" -> constraintName(t)
    [] f = "parseColumnList" -> parseColumnList
    [] f = "columnName" -> columnName
    [] f = "parseTableConstraint" -> parseTableConstraint
    [] f = "keys" -> keys(t)
    [] f = "parseConstraint" -> parseConstraint(t)
    [] f = "check" -> check(t)
    [] f = "parseAlterTable" -> parseAlterTable
    [] f = "alteration" -> alteration(t)
    [] f = "parseQuery" -> parseQuery
    [] f = "parseQueryExpression" -> parseQueryExpression
    [] f = "firstQuery" -> firstQuery(t)
    [] f = "moreUnion" -> moreUnion(t)
    [] f = "quantifier" -> quantifier(t)
    [] f = "parseTableExpression" -> parseTableExpression
    [] f = "parseFrom" -> parseFrom
    [] f = "parseTableReference" -> parseTableReference
    [] f = "moreJoins" -> moreJoins(t)
    [] f = "parseTableFactor" -> parseTableFactor(t)
    [] f = "subqueryAlias" -> subqueryAlias(t)
    [] f = "parseAliasedIdentifier" -> parseAliasedIdentifier
    [] f = "tableAlias" -> tableAlias(t)
    [] f = "parseJoinType" -> parseJoinType(t)
    [] f = "naturalJoinType" -> naturalJoinType(t)
    [] f = "parseWhere" -> parseWhere(t)
    [] f = "parseGroupBy" -> parseGroupBy(t)
    [] f = "parseHaving" -> parseHaving(t)
    [] f = "parseOrderBy" -> parseOrderBy(t)
    [] f = "orderExpression" -> orderExpression
    [] f = "order" -> order(t)
    [] f = "parseLimit" -> parseLimit(t)
    [] f = "offset" -> offset(t)
    [] f = "parseExpression" -> parseExpression
    [] f = "moreOr" -> moreOr(t)
    [] f = "parseJoin" -> parseJoin
    [] f = "moreAnd" -> moreAnd(t)
    [] f = "parseEquality" -> parseEquality
    [] f = "moreEquality" -> moreEquality(t)
    [] f = "inList" -> inList(t)
    [] f = "inListComma" -> inListComma(t)
    [] f = "inListElement" -> inListElement(t)
    [] f = "isNot" -> isNot(t)
    [] f = "isValue" -> isValue(t)
    [] f = "parseRelation" -> parseRelation
    [] f = "moreRelation" -> moreRelation(t)
    [] f = "parseAdd" -> parseAdd
    [] f = "moreAdd" -> moreAdd(t)
    [] f = "parseMul" -> parseMul
    [] f = "moreMul" -> moreMul(t)
    [] f = "parseFactor" -> parseFactor(t, isFunction)
    [] f = "countStar" -> countStar(t)
    [] f = "aggregated" -> aggregated
    [] f = "constant" -> constant(t)
    [] f = "noParameters" -> noParameters(t)
    [] f = "extracted" -> extracted(t)
    [] f = "parseUnary" -> parseUnary(t)
    [] f = "parseQuotedIdentifier" -> parseQuotedIdentifier(t)
    [] f = "parseQualifiedIdentifierOrAsterisk" -> parseQualifiedIdentifierOrAsterisk
    [] f = "qualifiedOrAsterisk" -> qualifiedOrAsterisk(t)
    [] f = "elementOrAsterisk" -> elementOrAsterisk(t)
    [] f = "parseQualifiedIdentifier" -> parseQualifiedIdentifier
    [] f = "qualified" -> qualified(t)
    [] f = "parseParameterList" -> parseParameterList
    [] f = "moreParameters" -> moreParameters(t)
    [] f = "parseIdentifierList" -> parseIdentifierList
    [] f = "listedIdentifier" -> listedIdentifier
    [] f = "parseSelectList" -> parseSelectList
    [] f = "firstItem" -> firstItem(t)
    [] f = "moreItems" -> moreItems(t)
    [] f = "parseDerivedColumn" -> parseDerivedColumn
    [] f = "columnAlias" -> columnAlias(t)
    [] f = "aliasName" -> aliasName(t)
-----------------------------------------------------------------------------
(***************************************************************************)
(* SQLParser at work: a recursive descent, whose stack of calls is todo,   *)
(* the steps that are still to be taken.  What the functions make is on    *)
(* the stack nodes, the symbol tables of the queries that are open are on  *)
(* scopes, and quoted is what parseQuotedIdentifier said last.             *)
(***************************************************************************)
CONSTANT Functions   (* the names in the function registry                 *)

VARIABLES text, at, registry, todo, nodes, scopes, quoted, heap, outcome

parserVars == <<text, at, registry, todo, nodes, scopes, quoted, heap, outcome>>

currentToken == IF at > Len(text) THEN Lexeme("EOI", "") ELSE SQLLexer(text[at])

Doing(step) == outcome = "parsing" /\ todo # <<>> /\ Head(todo)[1] = step
Argument == Head(todo)[2]
Effect(effect) == Doing("do") /\ Argument = effect

Top == Last(nodes)
Below(n) == SubSeq(nodes, 1, Len(nodes) - n)
Replaced(n, node) == Append(Below(n), node)      \* the top n become node
Pick(n) == nodes[Len(nodes) - n]                 \* the n-th below the top
Scope == IF scopes = <<>> THEN 0 ELSE Last(scopes)

Advance == todo' = Tail(todo)
Consume == at' = at + 1
Leave(message) ==
  /\ outcome' = message
  /\ todo' = <<>>
  /\ UNCHANGED <<text, at, registry, nodes, scopes, quoted, heap>>

(* What a step that only makes nodes leaves alone, and the others.         *)
SameText == UNCHANGED <<text, at, registry, outcome>>
SameNames == UNCHANGED <<scopes, quoted, heap>>

Start(words, functions, steps) ==
  /\ text' = words
  /\ at' = 1
  /\ registry' = functions
  /\ todo' = steps
  /\ nodes' = <<>>
  /\ scopes' = <<>>
  /\ quoted' = FALSE
  /\ heap' = NoSymbols
  /\ outcome' = "parsing"
-----------------------------------------------------------------------------
(* Words.                                                                  *)
Wanted == Doing("expect") \/ Doing("take")

expect ==
  /\ Wanted
  /\ currentToken.token = Argument
  /\ Consume /\ Advance
  /\ nodes' = IF Doing("take") THEN Append(nodes, Text(currentToken.value)) ELSE nodes
  /\ UNCHANGED <<text, registry, outcome>> /\ SameNames

UnexpectedToken ==
  /\ \/ Wanted /\ currentToken.token # Argument
     \/ Doing("throw")
  /\ Leave("unexpected token")

CanExpect ==
  /\ Doing("canExpect")
  /\ at' = IF currentToken.token = Argument THEN at + 1 ELSE at
  /\ Advance
  /\ UNCHANGED <<text, registry, nodes, outcome>> /\ SameNames

(* Calls of functions; a name that is in the registry is called.           *)
CallFunction ==
  /\ Doing("call")
  /\ todo' = Steps(Argument, currentToken.token, currentToken.value \in registry) \o Tail(todo)
  /\ SameText /\ SameNames /\ UNCHANGED nodes

NextOfList ==
  /\ Doing("more")
  /\ todo' = more(currentToken.token, Argument) \o Tail(todo)
  /\ SameText /\ SameNames /\ UNCHANGED nodes
-----------------------------------------------------------------------------
(* Nodes.                                                                  *)
PushNode ==
  /\ Doing("push")
  /\ Advance
  /\ nodes' = Append(nodes, Argument)
  /\ SameText /\ SameNames

Collected(list, node) == [list EXCEPT !.members = Append(@, node)]
CollectNode ==
  /\ Doing("collect")
  /\ Advance
  /\ nodes' = Replaced(2, Collected(Pick(1), Top))
  /\ SameText /\ SameNames

(* The symbol table of a node is that of the query it is in.               *)
ScopeOf(class, members) ==
  CASE class = "ASTQueryNode"   -> members[1].scope
    [] class = "ASTExplainNode" -> members[2].scope
    [] OTHER                    -> Scope
BuildNode ==
  /\ Doing("build")
  /\ Advance
  /\ LET size    == Head(todo)[3]
         members == SubSeq(nodes, Len(nodes) - size + 1, Len(nodes))
     IN  nodes' = Replaced(size, [Node(Argument, members) EXCEPT !.scope = ScopeOf(Argument, members)])
  /\ SameText /\ SameNames

toupperName ==
  /\ Effect("toupper")
  /\ Advance
  /\ nodes' = Replaced(1, [Top EXCEPT !.text = toupper(@)])
  /\ SameText /\ SameNames

likeToRegExp ==
  /\ Effect("toRegexp")
  /\ Advance
  /\ nodes' = Replaced(1, [Top EXCEPT !.text = Regexp(@)])
  /\ SameText /\ SameNames

(* An identifier without prefix: the empty one goes below its name.        *)
NoPrefix ==
  /\ Effect("noPrefix")
  /\ Advance
  /\ nodes' = Below(1) \o <<Text(""), Top>>
  /\ SameText /\ SameNames

RememberQuoted ==
  /\ \/ Effect("quoted") /\ quoted' = TRUE
     \/ Effect("unquoted") /\ quoted' = FALSE
     \/ Effect("quotedNext") /\ quoted' = (currentToken.token = "QUOTED_IDENTIFIER")
  /\ Advance
  /\ SameText /\ UNCHANGED <<nodes, scopes, heap>>

PushQuoted ==
  /\ Effect("pushQuoted")
  /\ Advance
  /\ nodes' = Append(nodes, Text(IF quoted THEN "TRUE" ELSE "FALSE"))
  /\ SameText /\ SameNames
-----------------------------------------------------------------------------
(* Constants are converted at once, and an impossible one throws.          *)
Convertible(type, value) ==
  CASE type = "DATE"      -> value = "2016-02-01"
    [] type = "TIME"      -> value = "12:30:00"
    [] type = "TIMESTAMP" -> value = "2016-02-01T12:30:00"
    [] OTHER              -> TRUE

createValue ==
  /\ Effect("createValue")
  /\ IF Convertible(Pick(1).text, Top.text)
     THEN /\ Advance
          /\ nodes' = Replaced(2, [Node("ASTValueNode", <<Pick(1), Top>>) EXCEPT !.scope = Scope])
          /\ SameText /\ SameNames
     ELSE Leave("wrong value")

stringToBool ==
  /\ Effect("stringToBool")
  /\ IF Top.text \in {"TRUE", "FALSE"}
     THEN Advance /\ SameText /\ SameNames /\ UNCHANGED nodes
     ELSE Leave("wrong value")

(* A constraint that has a name gives it to its column.                    *)
RenameDefinition ==
  /\ Effect("renameDefinition")
  /\ Advance
  /\ LET name == Top.members[5]
     IN  nodes' = IF name = None THEN nodes ELSE Replaced(1, [Top EXCEPT !.members[1] = name])
  /\ SameText /\ SameNames

AddColumn ==
  /\ Effect("addColumn")
  /\ Advance
  /\ nodes' = Below(3) \o <<Collected(Pick(2), Top), Pick(1)>>
  /\ SameText /\ SameNames
-----------------------------------------------------------------------------
(* Names.                                                                  *)
OpenSymbolTable ==
  /\ \/ Effect("createSymbolTable") /\ heap' = createSymbolTable(heap, 0)
     \/ Effect("createNestedSymbolTable") /\ heap' = createSymbolTable(heap, Scope)
  /\ Advance
  /\ scopes' = Append(scopes, Len(heap.tables) + 1)
  /\ SameText /\ UNCHANGED <<nodes, quoted>>

LeaveSymbolTable ==
  /\ Effect("leaveSymbolTable")
  /\ Advance
  /\ scopes' = Front(scopes)
  /\ SameText /\ UNCHANGED <<nodes, quoted, heap>>

SameScopes == SameText /\ UNCHANGED <<scopes, quoted>>

AddSubquery ==
  /\ Effect("addSubquery")
  /\ Advance
  /\ LET query == Top.members[1].scope
         info  == [SymbolInfo EXCEPT !.name = Top.members[2].text, !.symbolType = "SUBQUERY",
                                     !.subquery = query]
     IN  heap' = addSymbol(heap, heap.tables[query].parent, info)
  /\ SameScopes /\ UNCHANGED nodes

(* identifier [AS] alias                                                   *)
AddTable ==
  /\ Effect("addTable")
  /\ Advance
  /\ LET identifier == Pick(1).text
         alias == Top.text
         name  == IF alias = "" THEN identifier ELSE alias
         info  == [SymbolInfo EXCEPT !.name = name, !.identifier = identifier, !.alias = alias,
                                     !.symbolType = "TABLE"]
         added == addSymbol(heap, Scope, info)
         parts == <<Text(""), Text(identifier), Text(IF quoted THEN "TRUE" ELSE "FALSE")>>
     IN  /\ heap' = added
         /\ nodes' = Replaced(2, [Node("ASTIdentifier", parts) EXCEPT
                                    !.scope = Scope, !.info = findSymbol(added, Scope, name)])
  /\ SameScopes

(* Names of one spelling share a symbol, whatever they will mean.          *)
PlainInfo(identifier) ==
  [SymbolInfo EXCEPT !.name = getQualifiedIdentifier(identifier), !.symbolType = "PLAIN",
                     !.prefix = Prefix(identifier), !.identifier = Identifier(identifier)]
BindIdentifier ==
  /\ Effect("bindIdentifier")
  /\ Advance
  /\ IF Top.class = "ASTIdentifier"
     THEN LET added == addSymbol(heap, Scope, PlainInfo(Top))
          IN  /\ heap' = added
              /\ nodes' = Replaced(1, [Top EXCEPT
                            !.info = findSymbol(added, Scope, getQualifiedIdentifier(Top))])
     ELSE UNCHANGED <<heap, nodes>>
  /\ SameScopes

AddFunction ==
  /\ Effect("addFunction")
  /\ Advance
  /\ heap' = addSymbol(heap, Scope, [SymbolInfo EXCEPT !.name = Pick(1).text, !.symbolType = "FUNCTION"])
  /\ SameScopes /\ UNCHANGED nodes

GetFunction ==
  /\ Effect("getFunction")
  /\ IF Top.members[1].text \in registry
     THEN Advance /\ SameText /\ SameNames /\ UNCHANGED nodes
     ELSE Leave("function not found")

(* An item of the select list goes by its name, or by one that is made up. *)
NameColumn ==
  /\ Effect("nameColumn")
  /\ Advance
  /\ IF Top.class = "ASTIdentifier"
     THEN LET name == getQualifiedIdentifier(Top)
          IN  /\ nodes' = Replaced(1, [Top EXCEPT !.symbol = name, !.info = findSymbol(heap, Scope, name)])
              /\ UNCHANGED heap
     ELSE LET name == NextAlias(heap, Scope)
              info == [SymbolInfo EXCEPT !.name = name, !.symbolType = "CALC", !.expression = Top]
              next == [heap EXCEPT !.tables[Scope].aliasCount = @ + 1]
          IN  /\ nodes' = Replaced(1, [Top EXCEPT !.symbol = name])
              /\ heap' = addSymbol(next, Scope, info)
  /\ SameScopes

(* item AS alias: the symbol is renamed, for all who share it.             *)
RenameColumn ==
  /\ Effect("renameColumn")
  /\ Advance
  /\ LET item == Pick(1)
         name == Top.text
         i    == findSymbol(heap, Scope, item.symbol)
         renamed == [heap EXCEPT !.infos[i].name = name, !.infos[i].alias = name]
     IN  /\ nodes' = Replaced(2, [item EXCEPT !.symbol = name])
         /\ heap' = replaceSymbol(renamed, Scope, item.symbol, i)
  /\ SameScopes
-----------------------------------------------------------------------------
Parsed ==
  /\ outcome = "parsing"
  /\ todo = <<>>
  /\ outcome' = "parsed"
  /\ UNCHANGED <<text, at, registry, todo, nodes>> /\ SameNames

ParseStep ==
  \/ expect \/ UnexpectedToken \/ CanExpect \/ CallFunction \/ NextOfList
  \/ PushNode \/ CollectNode \/ BuildNode \/ toupperName \/ likeToRegExp
  \/ NoPrefix \/ RememberQuoted \/ PushQuoted \/ createValue \/ stringToBool
  \/ RenameDefinition \/ AddColumn \/ OpenSymbolTable \/ LeaveSymbolTable
  \/ AddSubquery \/ AddTable \/ BindIdentifier \/ AddFunction \/ GetFunction
  \/ NameColumn \/ RenameColumn \/ Parsed
=============================================================================
