---------------------------- MODULE SqlStatements ----------------------------
(***************************************************************************)
(* What becomes of the text of a statement: it is parsed, a query gets its *)
(* names resolved and its plan made, and what is written down of it - the  *)
(* CHECK of a table in the catalog, a query as SQL - is parsed again.      *)
(* ExecutionEngine::execute(), ExplainExecutionNode::execute(), and the    *)
(* way of a CHECK through TableData::asJson() and fromJson().              *)
(***************************************************************************)
EXTENDS SqlParser, SqlPrint, SymbolTable

CONSTANTS Statements,   (* texts of statements                            *)
          Conditions    (* expressions for the CHECK of a table           *)

CheckPrefix == <<"CREATE", "TABLE", "T", "(", "A", "INT", "CHECK", "(">>
InCheck(condition) == CheckPrefix \o condition \o <<")", ")">>
Texts == Statements \cup {InCheck(c) : c \in Conditions}

(* stage is what comes next; tree and typed are the tree and its symbols   *)
(* after validation, plan its operators, shown the lines of EXPLAIN AST,   *)
(* printed what was written down, and end how it ended.                    *)
VARIABLES statement, stage, tree, typed, plan, shown, printed, end

vars == <<parserVars, statement, stage, tree, typed, plan, shown, printed, end>>
results == <<statement, tree, typed, plan, shown, printed, end>>

Init ==
  /\ statement \in Texts
  /\ stage = "parse"
  /\ tree = None /\ typed = NoSymbols /\ plan = NoOperator
  /\ shown = <<>> /\ printed = <<>> /\ end = ""
  /\ text = statement /\ at = 1 /\ registry = Functions
  /\ todo = <<Call("parse")>>
  /\ nodes = <<>> /\ scopes = <<>> /\ quoted = FALSE /\ heap = NoSymbols /\ outcome = "parsing"

Parse == stage \in {"parse", "reread"} /\ ParseStep /\ UNCHANGED <<stage, results>>

Finish(how) ==
  /\ stage' = "done"
  /\ end' = how
  /\ UNCHANGED <<parserVars, statement>>

Refuse ==
  /\ stage \in {"parse", "reread"}
  /\ outcome \notin {"parsing", "parsed"}
  /\ Finish(IF stage = "parse" THEN "refused" ELSE "unreadable")
  /\ UNCHANGED <<tree, typed, plan, shown, printed>>

StatementParsed == stage = "parse" /\ outcome = "parsed"
Result == IF nodes = <<>> THEN None ELSE nodes[1]

(* Nothing to run, or an effect on the catalog that Catalog has.           *)
NothingToPlan ==
  {"None", "ASTDropTableNode", "ASTMappingNode", "ASTDropMappingNode", "ASTAlterTableAddNode",
   "ASTAlterTableDropNode"}
Define ==
  /\ StatementParsed
  /\ Result.class \in NothingToPlan
  /\ tree' = Result
  /\ Finish("executed")
  /\ UNCHANGED <<typed, plan, shown, printed>>

(* The CHECKs of a table: they are written to the file of the table, and   *)
(* read again when the database is started.                                *)
Checks(table) ==
  SelectSeq([n \in DOMAIN table.members[3].members |-> table.members[3].members[n].members[7]]
            \o [n \in DOMAIN table.members[4].members |-> table.members[4].members[n].members[4]],
            LAMBDA c : c # None)
(* A DEFAULT is kept as a string, and written as a value of its type.      *)
DefaultsPrintable(table) ==
  \A n \in DOMAIN table.members[3].members :
    LET column == table.members[3].members[n].members
    IN  column[4] = None \/ column[2].text = "STRING"

KeepTable ==
  /\ StatementParsed
  /\ Result.class = "ASTCreateTableNode"
  /\ tree' = Result
  /\ CASE Checks(Result) = <<>> \/ ~ DefaultsPrintable(Result) ->
            /\ Finish(IF DefaultsPrintable(Result) THEN "executed" ELSE "bad cast")
            /\ UNCHANGED <<typed, plan, shown, printed>>
       [] Checks(Result) # <<>> /\ DefaultsPrintable(Result) /\ Unprintable(Checks(Result)[1]) ->
            /\ Finish("bad cast")
            /\ UNCHANGED <<typed, plan, shown, printed>>
       [] OTHER ->
            /\ printed' = ExpressionText(Checks(Result)[1])
            /\ stage' = "reread"
            /\ Start(printed', {}, parseExpressionText)
            /\ UNCHANGED <<statement, typed, plan, shown, end>>

(* A query, or the query that is explained.                                *)
Query(s) == IF s.class = "ASTExplainNode" THEN s.members[2] ELSE s
PrintsPlan(s) == s.class = "ASTQueryNode" \/ s.members[1].text = "EXEC"

Preprocess ==
  /\ StatementParsed
  /\ Result.class \in {"ASTQueryNode", "ASTExplainNode"}
  /\ PrintsPlan(Result)
  /\ tree' = Result
  /\ typed' = ValidQuery(heap, Query(Result))
  /\ IF typed'.error # "" THEN Finish(typed'.error) /\ UNCHANGED plan
     ELSE /\ plan' = PlanOf(Query(Result))
          /\ IF Failed \in ToSet(Operators(plan')) THEN Finish("no aggregation")
             ELSE stage' = "print" /\ UNCHANGED <<parserVars, statement, end>>
  /\ UNCHANGED <<shown, printed>>

ExplainTree ==
  /\ StatementParsed
  /\ Result.class = "ASTExplainNode" /\ ~ PrintsPlan(Result)
  /\ tree' = Result
  /\ typed' = heap
  /\ UNCHANGED <<plan, printed>>
  /\ IF Unprintable(Result) THEN Finish("bad cast") /\ UNCHANGED shown
     ELSE /\ shown' = DumpQuery(heap, 0, Query(Result).members[1])
          /\ stage' = "print"
          /\ UNCHANGED <<parserVars, statement, end>>

(* The SQL of a query is parsed again.                                     *)
WriteSql ==
  /\ stage = "print"
  /\ IF Unprintable(tree)
     THEN Finish("bad cast") /\ UNCHANGED printed
     ELSE /\ printed' = StatementText(heap, tree)
          /\ stage' = "reread"
          /\ Start(printed', Functions, <<Call("parse")>>)
          /\ UNCHANGED <<statement, end>>
  /\ UNCHANGED <<tree, typed, plan, shown>>

Reread ==
  /\ stage = "reread"
  /\ outcome = "parsed"
  /\ Finish("read again")
  /\ UNCHANGED <<tree, typed, plan, shown, printed>>

Done == stage = "done" /\ UNCHANGED vars

Next ==
  \/ Done \/ Parse \/ Refuse \/ Define \/ KeepTable \/ Preprocess \/ ExplainTree \/ WriteSql \/ Reread

Spec == Init /\ [][Next]_vars
-----------------------------------------------------------------------------
(***************************************************************************)
(* What the statements of SqlStatements should be: how an expression is to *)
(* be read, what a text that was written down says, which columns the      *)
(* names mean and which operators a query needs.                           *)
(***************************************************************************)
(* An expression by the precedence of its operators: the one that binds    *)
(* least, and of these the last, is the root.  A sign or NOT has all that  *)
(* follows as its operand, so it binds least of all to its right.          *)
LevelOf == [OR |-> 1, AND |-> 2] @@ [op \in {"=", "<>"} |-> 3] @@ [op \in Relations |-> 4]
           @@ [op \in {"+", "-", "||"} |-> 5] @@ [op \in {"*", "/", "%"} |-> 6]
SignsOrNot == {"NOT", "-", "+"}

Depth(w, i) == Cardinality({j \in 1..i-1 : w[j] = "("}) - Cardinality({j \in 1..i-1 : w[j] = ")"})
OperandAt(w, i) == i = 1 \/ w[i-1] \in DOMAIN LevelOf \cup SignsOrNot \cup {"("}
PrefixesIn(w) == {i \in DOMAIN w : w[i] \in SignsOrNot /\ OperandAt(w, i) /\ Depth(w, i) = 0}
FirstPrefix(w) == Min(PrefixesIn(w) \cup {Len(w) + 1})
InfixesIn(w) ==
  {i \in 1..FirstPrefix(w)-1 : w[i] \in DOMAIN LevelOf /\ ~ OperandAt(w, i) /\ Depth(w, i) = 0}
Root(w) ==
  LET lowest == Min({LevelOf[w[i]] : i \in InfixesIn(w)})
  IN  Max({i \in InfixesIn(w) : LevelOf[w[i]] = lowest})

Atom(word) ==
  IF SQLLexer(word).token = "CONST_INTEGER" THEN Node("ASTValueNode", <<Text("INT"), Text(word)>>)
  ELSE Node("ASTIdentifier", <<Text(""), Text(word), Text("FALSE")>>)

RECURSIVE TreeOf(_)
TreeOf(w) ==
  CASE InfixesIn(w) # {} ->
         Node("ASTBinaryNode", <<TreeOf(SubSeq(w, 1, Root(w) - 1)), Text(w[Root(w)]),
                                 TreeOf(SubSeq(w, Root(w) + 1, Len(w)))>>)
    [] InfixesIn(w) = {} /\ FirstPrefix(w) = 1 ->
         Node("ASTUnaryNode", <<Text(w[1]), TreeOf(Tail(w)), None>>)
    [] InfixesIn(w) = {} /\ w[1] = "(" -> TreeOf(SubSeq(w, 2, Len(w) - 1))
    [] OTHER -> Atom(w[1])

IsCondition == statement \notin Statements
Condition == SubSeq(statement, Len(CheckPrefix) + 1, Len(statement) - 2)
KeptCheck == Checks(tree)[1]

(* No member of a node is missing and none is of a wrong class.            *)
TypeOK ==
  /\ stage \in {"parse", "print", "reread", "done"}
  /\ at \in 1..Len(text) + 1
  /\ \A n \in ToSet(nodes) : WellFormed(n)
  /\ WellFormed(tree)
  /\ \A s \in ToSet(scopes) : s \in DOMAIN heap.tables

(* The tree of an expression is the one that the precedence of its         *)
(* operators gives (parseExpression() and the levels below it), and what   *)
(* the parser makes is at every step what the classes of the tree allow.   *)
TreeByPrecedence ==
  /\ TypeOK
  /\ stage = "done" /\ tree # None /\ IsCondition => Bare(KeptCheck) = TreeOf(Condition)
-----------------------------------------------------------------------------
(* What is read again is what was written, but for what the visitors are   *)
(* known to lose: < and <= change places, HAVING, the quantifier of GROUP  *)
(* BY and the alias of a subquery are not written, EXPLAIN is EXPLAIN AST. *)
Exchanged(op) == CASE op = "<" -> "<=" [] op = "<=" -> "<" [] OTHER -> op
RECURSIVE Known(_)
Known(node) ==
  LET m == [n \in DOMAIN node.members |-> Known(node.members[n])]
      lost == CASE node.class = "ASTBinaryNode" -> [m EXCEPT ![2].text = Exchanged(@)]
                [] node.class = "ASTValueNode" /\ m[1].text = "REAL" -> [m EXCEPT ![2].text = "1.500000"]
                [] node.class = "ASTTableExpressionNode" -> [m EXCEPT ![4] = None]
                [] node.class = "ASTGroupByNode" -> [m EXCEPT ![1].text = "ALL"]
                [] node.class = "ASTTableSubqueryNode" -> [m EXCEPT ![2].text = ""]
                [] node.class = "ASTExplainNode" -> [m EXCEPT ![1].text = "AST"]
                [] OTHER -> m
  IN  [Node(node.class, lost) EXCEPT !.text = node.text]

(* A CHECK loses the quotes of its names, too.                             *)
RECURSIVE Unquoted(_)
Unquoted(node) ==
  LET m == [n \in DOMAIN node.members |-> Unquoted(node.members[n])]
  IN  [Node(node.class, IF node.class = "ASTIdentifier" THEN [m EXCEPT ![3].text = "FALSE"] ELSE m)
         EXCEPT !.text = node.text]

(* Nodes that are written without parentheses, and where that is harmless. *)
Unparenthesised(e) ==
  \/ e.class \in {"ASTBetweenNode", "ASTInNode", "ASTLikeNode"}
  \/ e.class = "ASTUnaryNode" /\ Operator(e) # "CAST"
Operands(e) ==
  CASE e.class = "ASTBinaryNode" ->
         IF Unparenthesised(e.members[3]) /\ e.members[3].class = "ASTUnaryNode"
         THEN {e.members[1]} ELSE {e.members[1], e.members[3]}
    [] e.class = "ASTBetweenNode" -> ToSet(e.members)
    [] e.class = "ASTInNode" -> {e.members[1]} \cup ToSet(e.members[2].members)
    [] OTHER -> {}
Regrouped(e) == \E n \in Nodes(e) : \E o \in Operands(n) : Unparenthesised(o)

HasClass(e, classes) == \E n \in Nodes(e) : n.class \in classes
Reserved == {Identifier(n) : n \in {i \in Nodes(KeptCheck) : i.class = "ASTIdentifier"}}
            \cap {"SELECT", "Q R"}

(* A CHECK that is kept says after a restart what it said before, but for  *)
(* what the visitor is known to lose; it may be lost altogether if it has  *)
(* LIKE, a function, or a sign, BETWEEN or IN below another operator, or a *)
(* quoted name that is no name without quotes (tabledata.cpp:143).         *)
ReadBackExplained ==
  stage = "done" /\ tree.class = "ASTCreateTableNode" /\ end \in {"read again", "unreadable"} =>
    \/ end = "read again" /\ Bare(nodes[1]) = Known(Unquoted(KeptCheck))
    \/ HasClass(KeptCheck, {"ASTLikeNode", "ASTFunctionNode"})
    \/ Regrouped(KeptCheck)
    \/ Reserved # {}

HasExtract(e) ==
  \E n \in Nodes(e) : n.class = "ASTFunctionNode" /\ n.members[1].text = "EXTRACT"

(* The alias of an item is written wherever its symbol is used, which may  *)
(* be inside of another item, where no alias may be.                       *)
AliasedWithin(query) ==
  \E e \in Nodes(query) :
    /\ e.class \in ASTExprNode \ {"ASTIdentifier"}
    /\ \E n \in Nodes(e) : n.class = "ASTIdentifier" /\ "AS" \in ToSet(IdentifierText(typed, n))

(* EXPLAIN AST shows the nodes of a query, parents first, and leaves out   *)
(* HAVING alone.                                                           *)
RECURSIVE Visible(_)
Visible(node) ==
  IF node.class = "ASTHavingNode" THEN <<>>
  ELSE (IF node.class \in DOMAIN Members \ {"ASTQueryNode", "OrderExpression"} THEN <<node.class>> ELSE <<>>)
       \o (IF node.class = "ASTTableIdentifierNode" THEN <<>>
           ELSE FlattenSeq([i \in DOMAIN node.members |-> Visible(node.members[i])]))
ExplainShowsTree ==
  shown # <<>> =>
    LET first == [n \in DOMAIN shown |-> shown[n][2][1]]
    IN  SelectSeq(first, LAMBDA w : w \in DOMAIN Members) = Visible(Query(tree))

(* A query that is written as SQL is read again as the query that it was,  *)
(* but for what the visitor is known to lose; it is lost if it has LIKE,   *)
(* EXTRACT, a sign, BETWEEN or IN below another operator, or the alias of  *)
(* one item within another (ASTNodeSQLPrintVisitor).  EXPLAIN AST shows    *)
(* all its nodes but HAVING.                                               *)
PrintedQueryExplained ==
  /\ ExplainShowsTree
  /\ stage = "done" /\ tree.class \in {"ASTQueryNode", "ASTExplainNode"} =>
       end \in {"read again", "unreadable", "bad cast", "no aggregation"} \cup {typed.error}
  /\ stage = "done" /\ tree.class \in {"ASTQueryNode", "ASTExplainNode"}
     /\ end \in {"read again", "unreadable"} =>
       \/ end = "read again" /\ Bare(nodes[1]) = Known(tree)
       \/ HasClass(tree, {"ASTLikeNode"}) \/ HasExtract(tree)
       \/ Regrouped(tree)
       \/ AliasedWithin(tree)
-----------------------------------------------------------------------------
(* What FROM has for a name: the tables of a query by the names they go    *)
(* by there, without those of its subqueries.                              *)
Planned == plan # NoOperator /\ Failed \notin ToSet(Operators(plan))
Specifications == {n \in Nodes(tree) : n.class = "ASTQuerySpecificationNode"}

RECURSIVE Factors(_)
Factors(t) ==
  IF t.class \in ASTTableFactorNode THEN {t} ELSE Factors(t.members[1]) \cup {Factor(t)}
FactorsOf(q) == UNION {Factors(t) : t \in ToSet(From(q))}
TablesOf(q) ==
  {[goes |-> typed.infos[t.members[1].info].name, table |-> Identifier(t.members[1])] :
     t \in {f \in FactorsOf(q) : f.class = "ASTTableIdentifierNode"}}

Meant(q, n) ==
  {[relation |-> t.goes, type |-> ColumnType(t.table, Identifier(n))] :
     t \in {u \in TablesOf(q) : hasColumn(u.table, Identifier(n)) /\ Prefix(n) \in {"", u.goes}}}

TableNames == {t.members[1] : t \in {n \in Nodes(tree) : n.class = "ASTTableIdentifierNode"}}
NamesOf(q) ==
  {n \in Nodes(q) : n.class = "ASTIdentifier" /\ n.scope = q.scope} \ TableNames
AliasesOf(q) == {typed.infos[i].alias : i \in ToSet(Symbols(typed, q.scope))} \ {""}

RECURSIVE UnionParts(_)
UnionParts(q) ==
  IF q.class = "ASTUnionNode" THEN UnionParts(q.members[1]) \cup UnionParts(q.members[3]) ELSE {q}

(* The scopes that typeSymbolTable() comes to.  It does not come to a       *)
(* second subquery without alias, whose symbol was refused, nor to what a  *)
(* subquery has behind UNION.                                              *)
RECURSIVE Reached(_)
Reached(s) ==
  {s} \cup UNION {Reached(typed.infos[i].subquery) : i \in ToSet(getSubqueries(typed, s))}
ReachedScopes == UNION {Reached(q.scope) : q \in UnionParts(Query(tree).members[1])}

(* A name that was looked up has the type of the one column of FROM that   *)
(* it can mean, unless it is the alias of an item, which comes first, or the  *)
(* name of a column of a subquery, or its prefix is a table of the         *)
(* database: such a prefix is taken for that table, whatever FROM has by   *)
(* this name (fillInfoFromTablePrefix()).                                  *)
NamesMeanColumns ==
  Planned =>
    \A q \in {s \in Specifications : s.scope \in ReachedScopes} : \A n \in NamesOf(q) :
      LET info == typed.infos[n.info] IN
      \/ Meant(q, n) = {[relation |-> info.relation, type |-> info.type]}
      \/ Identifier(n) \in AliasesOf(q)
      \/ Meant(q, n) = {} /\ \E f \in FactorsOf(q) : f.class = "ASTTableSubqueryNode"
      \/ hasTable(Prefix(n))
-----------------------------------------------------------------------------
(* The conditions of a statement that runs are BOOLEAN: WHERE in a query   *)
(* and in the parts of its unions, but not in its subqueries, and not what *)
(* follows ON or HAVING (ASTValidationVisitor never comes to them).        *)
ConditionsAreBoolean ==
  Planned => \A q \in UnionParts(Query(tree).members[1]) :
    Where(q) = None \/ Type(typed, Where(q).members[1]) = "BOOLEAN"

(* Every clause of a query has its operator, and every operator what it    *)
(* reads from, unless there is a natural or an outer join: these have no   *)
(* operator, and what comes next reads from whatever was made before; and  *)
(* what is run has BOOLEAN conditions, as far as they are looked at.       *)
OperatorFor ==
  [ASTWhereNode |-> {"Select"}, ASTOrderByNode |-> {"Sort"}, ASTLimitNode |-> {"Limit"},
   ASTGroupByNode |-> {"Grouping"}, ASTUnionNode |-> {"Union"}, ASTCrossJoinNode |-> {"CrossJoin"},
   ASTInnerJoinNode |-> {"InnerJoin", "InnerHashJoin"},
   ASTTableIdentifierNode |-> {"TableScan", "SystemTableScan"},
   ASTQuerySpecificationNode |-> {"Grouping", "Aggregation", "ExtendedProjection"}]
Unsupported == {"ASTNaturalJoinNode", "ASTLeftJoinNode", "ASTRightJoinNode", "ASTFullJoinNode"}
CountOf(sequence, Is(_)) == Len(SelectSeq(sequence, Is))
EveryClausePlanned ==
  /\ ConditionsAreBoolean
  /\ Planned /\ ~ HasClass(tree, Unsupported) =>
       /\ NoOperator \notin ToSet(Operators(plan))
       /\ \A class \in DOMAIN OperatorFor :
            CountOf(NodeSeq(tree), LAMBDA n : n.class = class)
            = CountOf(Operators(plan), LAMBDA o : o.name \in OperatorFor[class])
=============================================================================
