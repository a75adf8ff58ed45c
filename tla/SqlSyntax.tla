------------------------------ MODULE SqlSyntax ------------------------------
(***************************************************************************)
(* The words of SQL and the abstract syntax tree.  A text is a sequence of *)
(* words; the lexer gives each word its token and its value.  A tree is    *)
(* made of nodes of the classes of sql_ast.h: its members are the children *)
(* of the node, in the order in which the parser comes to know them.       *)
(***************************************************************************)
EXTENDS Integers, Sequences, SequencesExt, FiniteSets

(* The token of a word that stands for itself.                             *)
KeywordTokens ==
  {"UNION", "SELECT", "FROM", "WHERE", "USING", "INTERSECT", "EXCEPT", "AS", "ALL", "CAST",
   "DISTINCT", "ON", "NATURAL", "LEFT", "RIGHT", "INNER", "OUTER", "CROSS", "FULL", "JOIN",
   "LIKE", "AND", "OR", "NOT", "IS", "NULL", "BETWEEN", "IN", "EXISTS", "GROUP", "ORDER", "BY",
   "COLLATE", "ASC", "DESC", "HAVING", "LIMIT", "OFFSET", "CREATE", "TABLE", "IF", "DATE",
   "TIME", "TIMESTAMP", "CONSTRAINT", "PRIMARY", "KEY", "UNIQUE", "DEFAULT", "CHECK", "ALTER",
   "COLUMN", "DROP", "ADD", "SUM", "COUNT", "AVG", "MAX", "MIN", "CURRENT_DATE",
   "CURRENT_TIME", "CURRENT_TIMESTAMP", "VARYING", "DESCRIBE", "AST", "EXTRACT", "SECOND",
   "MINUTE", "HOUR", "YEAR", "MONTH", "DAY", "EXPLAIN", "SHOW", "MAPPING", "EXEC", "ARBITRARY"}

(* Words of several spellings: the token is the type that they name.       *)
Synonyms ==
  [BOOLEAN |-> "BOOL", BOOL |-> "BOOL", INT |-> "INT", INTEGER |-> "INT", REAL |-> "REAL",
   FLOAT |-> "REAL", DOUBLE |-> "REAL", VARCHAR |-> "STRING", CHAR |-> "CHAR",
   CHARACTER |-> "CHAR"]

Signs ==
  {"||", "+", "-", ".", "=", ">=", "<=", "<>", "<", ">", ",", ";", "*", "(", ")", "/", "%"}

(* The other tokens: names, constants, and the two that no word gives.     *)
OtherTokens ==
  {"IDENTIFIER", "QUOTED_IDENTIFIER", "CONST_BOOLEAN", "CONST_CHAR", "CONST_DATE",
   "CONST_INTEGER", "CONST_REAL", "CONST_STRING", "NONE", "EOI"}

eToken == KeywordTokens \cup {Synonyms[w] : w \in DOMAIN Synonyms} \cup Signs \cup OtherTokens

Lexeme(token, value) == [token |-> token, value |-> value]

(* The constants and quoted names that the texts of the model hold.  A     *)
(* string of one character is a char, whatever it is used for, and TRUE    *)
(* needs no space behind it.                                               *)
Constants ==
  [w \in {"TRUE", "FALSE", "UNKNOWN"} |-> Lexeme("CONST_BOOLEAN", w)]
  @@ [w \in {"0", "1", "2", "3", "4", "5", "6", "10"} |-> Lexeme("CONST_INTEGER", w)]
  @@ [w \in {"1.5", "1.500000"} |-> Lexeme("CONST_REAL", w)]
  @@ "'x'" :> Lexeme("CONST_CHAR", "x")
  @@ "';'" :> Lexeme("CONST_CHAR", ";")
  @@ "'xy'" :> Lexeme("CONST_STRING", "xy")
  @@ "'x%'" :> Lexeme("CONST_STRING", "x%")
  @@ "'x.*'" :> Lexeme("CONST_STRING", "x.*")
  @@ "'x\\..*'" :> Lexeme("CONST_STRING", "x\\..*")
  @@ "'x.%'" :> Lexeme("CONST_STRING", "x.%")
  @@ "'x\\.\\*'" :> Lexeme("CONST_STRING", "x\\.\\*")
  @@ "'2016-02-01'" :> Lexeme("CONST_STRING", "2016-02-01")
  @@ "'f.csv'" :> Lexeme("CONST_STRING", "f.csv")
  @@ "\"q\"" :> Lexeme("QUOTED_IDENTIFIER", "q")
  @@ "\"Q\"" :> Lexeme("QUOTED_IDENTIFIER", "Q")
  @@ "'12:30:00'" :> Lexeme("CONST_STRING", "12:30:00")
  @@ "\"Q R\"" :> Lexeme("QUOTED_IDENTIFIER", "Q R")
  @@ "\"SELECT\"" :> Lexeme("QUOTED_IDENTIFIER", "SELECT")

SQLLexer(word) ==
  IF word \in KeywordTokens \cup Signs THEN Lexeme(word, word)
  ELSE IF word \in DOMAIN Synonyms THEN Lexeme(Synonyms[word], word)
  ELSE IF word \in DOMAIN Constants THEN Constants[word]
  ELSE Lexeme("IDENTIFIER", word)

toupper(value) == IF value = "q" THEN "Q" ELSE value

(* How a LIKE pattern is turned into a regular expression, for the patterns *)
(* of the model.                                                            *)
Regexp(pattern) ==
  CASE pattern = "x%"   -> "x.*"
    [] pattern = "x.%"  -> "x\\..*"
    [] pattern = "x.*"  -> "x\\.\\*"
    [] OTHER            -> pattern
-----------------------------------------------------------------------------
(* scope is the symbol table of the node, info the SymbolInfo an identifier *)
(* is bound to, and symbol the name an item of a select list goes by.       *)
Node(class, members) ==
  [class |-> class, text |-> "", members |-> members, scope |-> 0, info |-> 0, symbol |-> ""]

Text(string) == [Node("Text", <<>>) EXCEPT !.text = string]
None == Node("None", <<>>)
List(class) == Node(class, <<>>)

ASTExprNode ==
  {"ASTBinaryNode", "ASTUnaryNode", "ASTValueNode", "ASTLikeNode", "ASTBetweenNode",
   "ASTInNode", "ASTFunctionNode", "ASTAggregateFunctionNode", "ASTIdentifier",
   "ASTQualifiedAsterisk"}
ASTQueryExpressionNode == {"ASTUnionNode", "ASTQuerySpecificationNode"}
ASTTableFactorNode == {"ASTTableIdentifierNode", "ASTTableSubqueryNode"}
ASTJoinNode ==
  {"ASTCrossJoinNode", "ASTNaturalJoinNode", "ASTInnerJoinNode", "ASTLeftJoinNode",
   "ASTRightJoinNode", "ASTFullJoinNode"}
ASTTableReferenceNode == ASTTableFactorNode \cup ASTJoinNode
Statement ==
  {"ASTQueryNode", "ASTExplainNode", "ASTCreateTableNode", "ASTDropTableNode",
   "ASTAlterTableAddNode", "ASTAlterTableDropNode", "ASTMappingNode", "ASTDropMappingNode"}

Optional(classes) == classes \cup {"None"}
Strings == {"Text"}

(* The vectors, and what they are vectors of.                              *)
Elements ==
  [Expressions |-> ASTExprNode, Parameters |-> ASTExprNode, Identifiers |-> {"ASTIdentifier"},
   TableReferences |-> ASTTableReferenceNode, OrderExpressions |-> {"OrderExpression"},
   ColumnDefinitions |-> {"ColumnDefinition"}, TableConstraints |-> {"TableConstraint"},
   StringVector |-> Strings]

(* Name, type, length, default, the name of a constraint, flag, check; and *)
(* for a table: name, kind, columns, check.                                *)
DefinitionParts ==
  [ColumnDefinition |->
     <<Strings, Strings, Optional(Strings), Optional(Strings), Optional(Strings),
       Optional(Strings), Optional(ASTExprNode)>>,
   TableConstraint |->
     <<Optional(Strings), Optional(Strings), {"StringVector"}, Optional(ASTExprNode)>>]

(* Members that are kept in symbol, info or scope are not repeated.        *)
StatementNodes ==
  [ASTQualifiedAsterisk |-> <<Strings, Strings>>,
   ASTExplainNode |-> <<Strings, {"ASTQueryNode"}>>,
   ASTMappingNode |-> <<Strings, Strings, Optional(Strings), Optional(Strings)>>,
   ASTDropMappingNode |-> <<Strings>>,
   ASTQueryNode |-> <<ASTQueryExpressionNode>>]

QueryNodes ==
  [ASTUnionNode |-> <<ASTQueryExpressionNode, Strings, ASTQueryExpressionNode>>,
   ASTQuerySpecificationNode |-> <<Strings, {"Expressions"}, {"ASTTableExpressionNode"}>>,
   ASTTableExpressionNode |->
     <<{"ASTFromNode"}, Optional({"ASTWhereNode"}), Optional({"ASTGroupByNode"}),
       Optional({"ASTHavingNode"}), Optional({"ASTOrderByNode"}), Optional({"ASTLimitNode"})>>]

TableNodes ==
  [ASTTableIdentifierNode |-> <<{"ASTIdentifier"}>>,
   ASTTableSubqueryNode |-> <<ASTQueryExpressionNode, Strings>>,
   ASTCrossJoinNode |-> <<ASTTableReferenceNode, ASTTableFactorNode>>,
   ASTNaturalJoinNode |-> <<ASTTableReferenceNode, Strings, ASTTableFactorNode>>]

ASTJoinWithCondition ==
  [c \in {"ASTInnerJoinNode", "ASTLeftJoinNode", "ASTRightJoinNode", "ASTFullJoinNode"} |->
     <<ASTTableReferenceNode, ASTTableFactorNode, ASTExprNode>>]

ExpressionNodes ==
  [ASTBinaryNode |-> <<ASTExprNode, Strings, ASTExprNode>>,
   ASTUnaryNode |-> <<Strings, ASTExprNode, Optional(Strings)>>,
   ASTValueNode |-> <<Strings, Strings>>,
   ASTLikeNode |-> <<ASTExprNode, Strings>>,
   ASTBetweenNode |-> <<ASTExprNode, ASTExprNode, ASTExprNode>>,
   ASTInNode |-> <<ASTExprNode, {"Expressions"}>>]

CallNodes ==
  [ASTFunctionNode |-> <<Strings, {"Parameters"}>>,
   ASTAggregateFunctionNode |-> <<Strings, Strings, {"Parameters"}>>,
   ASTIdentifier |-> <<Strings, Strings, Strings>>]

ClauseNodes ==
  [ASTFromNode |-> <<{"TableReferences"}>>,
   ASTWhereNode |-> <<ASTExprNode>>,
   ASTGroupByNode |-> <<Strings, {"Identifiers"}>>,
   ASTHavingNode |-> <<ASTExprNode>>,
   ASTOrderByNode |-> <<{"OrderExpressions"}>>,
   OrderExpression |-> <<ASTExprNode, Strings>>,
   ASTLimitNode |-> <<ASTExprNode, Optional(ASTExprNode)>>]

DefinitionNodes ==
  [ASTCreateTableNode |-> <<Strings, Strings, {"ColumnDefinitions"}, {"TableConstraints"}>>,
   ASTAlterTableAddNode |-> <<{"ColumnDefinition"}>>,
   ASTAlterTableDropNode |-> <<Strings>>,
   ASTDropTableNode |-> <<Strings>>]

Members ==
  DefinitionParts @@ StatementNodes @@ QueryNodes @@ TableNodes @@ ASTJoinWithCondition
  @@ ExpressionNodes @@ CallNodes @@ ClauseNodes @@ DefinitionNodes

RECURSIVE WellFormed(_)
WellFormed(node) ==
  LET members == node.members IN
  /\ CASE node.class \in {"Text", "None"} -> members = <<>>
       [] node.class \in DOMAIN Elements ->
            \A i \in DOMAIN members : members[i].class \in Elements[node.class]
       [] OTHER ->
            /\ Len(members) = Len(Members[node.class])
            /\ \A i \in DOMAIN members : members[i].class \in Members[node.class][i]
  /\ \A i \in DOMAIN members : WellFormed(members[i])

(* Names of a node, as its members have them.                              *)
Qualified(prefix, identifier) == IF prefix = "" THEN identifier ELSE prefix \o "." \o identifier
Prefix(identifier) == identifier.members[1].text
Identifier(identifier) == identifier.members[2].text
getQualifiedIdentifier(identifier) == Qualified(Prefix(identifier), Identifier(identifier))
Operator(node) == IF node.class = "ASTUnaryNode" THEN node.members[1].text ELSE node.members[2].text

(* All nodes of a tree, parents first; and the tree without what its names *)
(* were resolved to.                                                       *)
RECURSIVE NodeSeq(_)
NodeSeq(node) ==
  <<node>> \o FlattenSeq([i \in DOMAIN node.members |-> NodeSeq(node.members[i])])
Nodes(node) == ToSet(NodeSeq(node))

RECURSIVE Bare(_)
Bare(node) ==
  [Node(node.class, [i \in DOMAIN node.members |-> Bare(node.members[i])])
     EXCEPT !.text = node.text]
=============================================================================
