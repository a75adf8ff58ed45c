----------------------------- MODULE SymbolTable -----------------------------
(***************************************************************************)
(* From the tree of a query to its operators: the types of operations      *)
(* (typeoperations.cpp), the symbol tables of the names (symboltable.cpp), *)
(* the visitors that give them types and refuse what is wrong, and the     *)
(* operators of the plan.                                                  *)
(***************************************************************************)
EXTENDS Sequences, SqlSyntax

(***************************************************************************)
(* The operations that initTypeSystem() registers, by the types of their   *)
(* operands, and the type of what they return.  Everything that has a type *)
(* gets it from here before a statement runs, and an operation that is not *)
(* registered stops the statement.                                         *)
(***************************************************************************)
Numbers == {"INT", "REAL"}
Moments == {"DATE", "TIME", "TIMESTAMP"}
Types == Numbers \cup Moments \cup {"BOOLEAN", "STRING"}

Untyped == "untyped"       \* there is no such operation: it throws

WithStrings(types) ==
  ({"STRING"} \X types) \cup (types \X {"STRING"})
Same(types) == {<<t, t>> : t \in types}

ArithmeticTypes(op) == (Numbers \X Numbers) \cup (IF op = "-" THEN Same(Moments) ELSE {})
OrderTypes == (Numbers \X Numbers) \cup Same(Moments \cup {"STRING"}) \cup WithStrings(Moments)
EqualTypes == OrderTypes \cup ((Numbers \cup {"BOOLEAN"}) \X (Numbers \cup {"BOOLEAN"}))
IsTypes == Types \X {"BOOLEAN"}

(* AND knows dates and times of day, OR does not.                          *)
LogicTypes == (Types \ Moments) \X (Types \ Moments)
AndTypes ==
  LogicTypes \cup Same({"DATE", "TIME"})
  \cup ({"BOOLEAN"} \X {"DATE", "TIME"}) \cup ({"DATE", "TIME"} \X {"BOOLEAN"})
ConcatTypes == WithStrings(Types \ {"BOOLEAN"})

BinaryTypes(op) ==
  CASE op \in {"+", "-", "*", "/", "%"} -> ArithmeticTypes(op)
    [] op \in {">", ">=", "<", "<="}    -> OrderTypes
    [] op \in {"=", "<>"}               -> EqualTypes
    [] op \in {"IS", "IS NOT"}          -> IsTypes
    [] op = "AND"                       -> AndTypes
    [] op = "OR"                        -> LogicTypes
    [] op = "||"                        -> ConcatTypes

RetType(op, l, r) ==
  CASE op = "||" -> "STRING"
    [] op \in {"+", "-", "*", "/", "%"} -> IF "REAL" \in {l, r} THEN "REAL" ELSE "INT"
    [] OTHER -> "BOOLEAN"

inferTypeOfBinaryOperation(op, l, r) ==
  IF <<l, r>> \in BinaryTypes(op) THEN RetType(op, l, r) ELSE Untyped

(* Casts, as <<from, to>>.  Nothing but a string becomes a string, and no  *)
(* REAL a BOOLEAN; a NULL may become anything.                             *)
CastTypes ==
  Same({"INT", "REAL", "BOOLEAN", "STRING"})
  \cup {<<"REAL", "INT">>, <<"INT", "REAL">>, <<"BOOLEAN", "INT">>, <<"INT", "BOOLEAN">>}
  \cup ({"STRING"} \X Types) \cup ({"DATE", "TIME"} \X {"TIMESTAMP"}) \cup ({"NONE"} \X Types)

UnaryTypes(op) ==
  CASE op = "NOT"         -> {<<t, "BOOLEAN">> : t \in Numbers \cup {"BOOLEAN"}}
    [] op \in {"+", "-"}  -> Same(Numbers)
    [] op = "CAST"        -> CastTypes

inferTypeOfUnaryOperation(op, ret, operand) ==
  IF <<operand, ret>> \in UnaryTypes(op) THEN ret ELSE Untyped
-----------------------------------------------------------------------------
(***************************************************************************)
(* The symbol tables of a statement.  A query has a table of the names it  *)
(* uses, whose parent is the table of the query around it.  The symbols    *)
(* are shared: a table, the identifiers of the tree and a select item hold *)
(* the same SymbolInfo, and who renames it renames it for all.             *)
(* h is [infos, tables, error]; symbols and tables are named by their      *)
(* places there, and error is what was thrown.                             *)
(***************************************************************************)
CONSTANT Database   (* the tables: name -> sequence of [name, type]        *)

SymbolInfo ==
  [name |-> "", symbolType |-> "NOSYM", type |-> "NONE", alias |-> "", prefix |-> "",
   identifier |-> "", relation |-> "", qualified |-> "", expression |-> None, subquery |-> 0]
NoSymbols == [infos |-> <<>>, tables |-> <<>>, error |-> ""]
Error(h, message) == [h EXCEPT !.error = message]

createSymbolTable(h, parent) ==
  [h EXCEPT !.tables = Append(@, [parent |-> parent, symbols |-> <<>>, aliasCount |-> 1])]

Symbols(h, s) == h.tables[s].symbols
Named(h, s, name) == SelectSeq(Symbols(h, s), LAMBDA i : h.infos[i].name = name)
hasSymbol(h, s, name) == Named(h, s, name) # <<>>
findSymbol(h, s, name) == Head(Named(h, s, name))

Refused(h, s, name) == hasSymbol(h, s, name)

addSymbol(h, s, info) ==
  IF Refused(h, s, info.name) THEN h
  ELSE [h EXCEPT !.infos = Append(@, info), !.tables[s].symbols = Append(@, Len(h.infos) + 1)]

(* The symbol under its old name becomes a copy of the renamed one; most   *)
(* often it is the renamed one, and there is nothing under the old name.   *)
replaceSymbol(h, s, toreplace, i) ==
  IF hasSymbol(h, s, toreplace)
  THEN [h EXCEPT !.infos[findSymbol(h, s, toreplace)] = h.infos[i]]
  ELSE addSymbol(h, s, h.infos[i])

NextAlias(h, s) == "$alias_" \o ToString(h.tables[s].aliasCount)

OfType(h, s, types) == SelectSeq(Symbols(h, s), LAMBDA i : h.infos[i].symbolType \in types)
getTables(h, s) == OfType(h, s, {"TABLE"})
getSubqueries(h, s) == OfType(h, s, {"SUBQUERY"})

Goes(info, name) == name \in {info.name, info.identifier, info.alias}
TablesNamed(h, s, name) == SelectSeq(getTables(h, s), LAMBDA i : Goes(h.infos[i], name))
Aliased(h, s, alias) == SelectSeq(Symbols(h, s), LAMBDA i : h.infos[i].alias = alias)
findAllSymbolsForTable(h, s, table) ==
  SelectSeq(OfType(h, s, {"PLAIN"}), LAMBDA i : h.infos[i].relation = table)
-----------------------------------------------------------------------------
(* Types of expressions, from the types of the symbols they name.          *)
ReturnType == [POW |-> "REAL", UPPER |-> "STRING", CURRENT_DATE |-> "DATE",
               CURRENT_TIME |-> "TIME", CURRENT_TIMESTAMP |-> "TIMESTAMP", EXTRACT |-> "INT"]

BinaryType(op, l, r) ==
  IF Untyped \in {l, r} THEN Untyped ELSE inferTypeOfBinaryOperation(op, l, r)
UnaryType(m, operand) ==
  LET ret == CASE m[1].text = "NOT" -> "BOOLEAN"
               [] m[1].text = "CAST" -> m[3].text
               [] OTHER -> operand
  IN  IF operand = Untyped THEN Untyped ELSE inferTypeOfUnaryOperation(m[1].text, ret, operand)

RECURSIVE Type(_, _)
Type(h, e) ==
  LET m == e.members IN
  CASE e.class = "ASTBinaryNode" ->
         BinaryType(m[2].text, Type(h, m[1]), Type(h, m[3]))
    [] e.class = "ASTUnaryNode" -> UnaryType(m, Type(h, m[2]))
    [] e.class = "ASTValueNode" -> m[1].text
    [] e.class \in {"ASTLikeNode", "ASTBetweenNode", "ASTInNode"} -> "BOOLEAN"
    [] e.class = "ASTFunctionNode" -> ReturnType[m[1].text]
    [] e.class = "ASTAggregateFunctionNode" ->
         CASE m[1].text \in {"COUNT", "COUNT_STAR"} -> "INT"
           [] m[1].text = "AVG" -> "REAL"
           [] OTHER -> Type(h, m[3].members[1])
    [] e.class = "ASTIdentifier" -> h.infos[e.info].type
    [] OTHER -> "NONE"
-----------------------------------------------------------------------------
(* The names are looked up in the database: typeSymbolTable().             *)
hasTable(table) == table \in DOMAIN Database
Columns(table) == Database[table]
hasColumn(table, column) == \E n \in DOMAIN Columns(table) : Columns(table)[n].name = column
ColumnType(table, column) ==
  Columns(table)[CHOOSE n \in DOMAIN Columns(table) : Columns(table)[n].name = column].type

(* Every column of every table of FROM gets a symbol table.column.         *)
ColumnInfo(info, column) ==
  [SymbolInfo EXCEPT !.name = Qualified(info.name, column.name), !.identifier = column.name,
                     !.symbolType = "PLAIN", !.type = column.type, !.relation = info.name,
                     !.qualified = Qualified(info.name, column.name)]
fillWithTableData(h, s) ==
  LET columns(info) == [n \in DOMAIN Columns(info.identifier) |->
                          ColumnInfo(info, Columns(info.identifier)[n])]
      add(so, t) == LET info == h.infos[t] IN
        IF so.error # "" THEN so
        ELSE IF ~ hasTable(info.identifier) THEN Error(so, "no such table")
        ELSE FoldLeft(LAMBDA g, c : addSymbol(g, s, c), so, columns(info))
  IN  FoldLeft(add, h, getTables(h, s))

Resolved(h, i, type, relation, qualified) ==
  [h EXCEPT !.infos[i].type = type, !.infos[i].relation = relation, !.infos[i].qualified = qualified]

(* A prefix is a table of the database, else the alias of one in FROM.     *)
TableOfPrefix(h, s, prefix) ==
  IF hasTable(prefix) THEN <<[table |-> prefix, relation |-> prefix]>>
  ELSE LET aliased == SelectSeq(getTables(h, s), LAMBDA i : h.infos[i].alias = prefix)
       IN  IF aliased = <<>> THEN <<>>
           ELSE <<[table |-> h.infos[Head(aliased)].identifier,
                   relation |-> h.infos[Head(aliased)].name]>>
fillInfoFromTablePrefix(h, i, found) ==
  LET info == h.infos[i]  table == found.table IN
  IF ~ hasTable(table) \/ ~ hasColumn(table, info.identifier) THEN Error(h, "no such column")
  ELSE Resolved(h, i, ColumnType(table, info.identifier), found.relation,
                Qualified(info.prefix, info.identifier))

(* A name without prefix is a column of the tables in FROM, or the alias   *)
(* of one, or the alias of a calculated item.                              *)
ColumnIn(h, s, i, table) ==
  LET name == h.infos[i].identifier
      aliased == Aliased(h, s, name)
  IN  IF hasColumn(table, name) \/ aliased = <<>> THEN name ELSE h.infos[Head(aliased)].identifier
TablesWith(h, s, i) ==
  SelectSeq(getTables(h, s),
            LAMBDA t : hasColumn(h.infos[t].identifier, ColumnIn(h, s, i, h.infos[t].identifier)))
fillInfoFromTable(h, s, i) ==
  LET table  == h.infos[Head(TablesWith(h, s, i))]
      column == ColumnIn(h, s, i, table.identifier)
  IN  Resolved(h, i, ColumnType(table.identifier, column), table.name, Qualified(table.name, column))
IsCalculated(h, s, i) ==
  LET aliased == Aliased(h, s, h.infos[i].identifier)
  IN  aliased # <<>> /\ h.infos[Head(aliased)].symbolType = "CALC"

(* Else it is a name of a subquery; all that is taken over is its type.    *)
Matches(info, query, symbol) ==
  \/ symbol.name = info.name
  \/ symbol.identifier = info.identifier
     /\ (info.alias # "" \/ query.name = info.prefix \/ info.prefix = "")
Providing(h, i, q) ==
  SelectSeq(Symbols(h, h.infos[q].subquery), LAMBDA y : Matches(h.infos[i], h.infos[q], h.infos[y]))
SubqueriesWith(h, s, i) ==
  SelectSeq(getSubqueries(h, s), LAMBDA q : Providing(h, i, q) # <<>>)
fillInfoFromSubquery(h, s, i) ==
  LET with == SubqueriesWith(h, s, i) IN
  CASE with = <<>>   -> Error(h, "symbol not found in any table")
    [] Len(with) > 1 -> Error(h, "ambiguous symbol")
    [] OTHER ->
         LET symbol == h.infos[Head(Providing(h, i, Head(with)))]
         IN  Resolved(h, i, symbol.type, h.infos[i].relation, h.infos[i].name)

(* What could go wrong, for the runs that test the properties: the first   *)
(* table that has the column is taken.                                     *)
ResolveInFirst(h, s, i) ==
  LET info == h.infos[i]
      prefixed == TableOfPrefix(h, s, info.prefix)
  IN  CASE info.prefix # "" /\ prefixed # <<>> -> fillInfoFromTablePrefix(h, i, Head(prefixed))
        [] info.prefix = "" /\ TablesWith(h, s, i) # <<>> -> fillInfoFromTable(h, s, i)
        [] OTHER -> fillInfoFromSubquery(h, s, i)

Resolve(h, s, i) ==
  LET info == h.infos[i]
      prefixed == TableOfPrefix(h, s, info.prefix)
  IN  CASE info.prefix # "" /\ prefixed # <<>> -> fillInfoFromTablePrefix(h, i, Head(prefixed))
        [] info.prefix # "" -> fillInfoFromSubquery(h, s, i)
        [] Len(TablesWith(h, s, i)) > 1 -> Error(h, "ambiguous symbol")
        [] Len(TablesWith(h, s, i)) = 1 -> fillInfoFromTable(h, s, i)
        [] IsCalculated(h, s, i) -> [h EXCEPT !.infos[i].symbolType = "CALC"]
        [] OTHER -> fillInfoFromSubquery(h, s, i)

Unresolved(h, i) == h.infos[i].symbolType = "PLAIN" /\ h.infos[i].qualified = ""
TypeCalculated(h, i) ==
  LET info == h.infos[i]
      typed(type) == IF type = Untyped THEN Error(h, "no such operation")
                     ELSE [h EXCEPT !.infos[i].type = type]
  IN  IF h.error # "" \/ info.symbolType # "CALC" \/ info.expression = None THEN h
      ELSE typed(Type(h, info.expression))

(* Of the symbols of a table first those of FROM, then the names, then     *)
(* what is calculated from them.                                           *)
TypeTables(h, s) == IF h.error # "" THEN h ELSE fillWithTableData(h, s)
TypeNames(h, s) ==
  LET name(g, i) == IF g.error # "" \/ ~ Unresolved(g, i) THEN g ELSE Resolve(g, s, i)
  IN  FoldLeft(name, h, Symbols(h, s))
TypeExpressions(h, s) == FoldLeft(TypeCalculated, h, Symbols(h, s))

RECURSIVE typeSymbolTable(_, _)
typeSymbolTable(h, s) ==
  LET sub(g, q) == IF g.error # "" THEN g ELSE typeSymbolTable(g, g.infos[q].subquery)
  IN  TypeExpressions(TypeNames(TypeTables(FoldLeft(sub, h, getSubqueries(h, s)), s), s), s)
-----------------------------------------------------------------------------
(***************************************************************************)
(* From the tree of a query to its operators: ASTValidationVisitor gives   *)
(* the names their types and refuses what is wrong, ExecutionPlanVisitor   *)
(* connects the operators.  An operator is [name, of, inputs]; current is  *)
(* the operator that was made last, and NoOperator the null pointer.       *)
(***************************************************************************)
NamedTypes(h, symbols) ==
  [n \in DOMAIN symbols |-> [name |-> h.infos[symbols[n]].name, type |-> h.infos[symbols[n]].type]]

(* An asterisk stands for the columns of a table by its name; when it has  *)
(* no prefix for those of the first table of FROM.                         *)
AsteriskOf(h, scope, item) ==
  LET prefix == item.members[1].text
      table  == IF prefix # "" THEN prefix ELSE h.infos[Head(getTables(h, scope))].identifier
  IN  NamedTypes(h, findAllSymbolsForTable(h, scope, table))

RECURSIVE outputParameter(_, _)
outputParameter(h, q) ==
  IF q.class = "ASTUnionNode" THEN outputParameter(h, q.members[1])
  ELSE LET items     == q.members[2].members
           output(e) == IF e.class = "ASTQualifiedAsterisk" THEN AsteriskOf(h, q.scope, e)
                        ELSE <<[name |-> e.symbol, type |-> Type(h, e)]>>
       IN  FlattenSeq([n \in DOMAIN items |-> output(items[n])])

(* Without a table in FROM, the first of an empty vector is taken: for the *)
(* leftmost query of a union, the only place where this is asked.          *)
RECURSIVE AsteriskOfNothing(_, _)
AsteriskOfNothing(h, q) ==
  IF q.class = "ASTUnionNode" THEN AsteriskOfNothing(h, q.members[1])
  ELSE /\ getTables(h, q.scope) = <<>>
       /\ \E n \in DOMAIN q.members[2].members :
            LET item == q.members[2].members[n]
            IN  item.class = "ASTQualifiedAsterisk" /\ item.members[1].text = ""

Undefined == "undefined behaviour"

(* Columns differ if their names do while their types do not.              *)
Differ(l, r) == l.name # r.name /\ l.type = r.type
SameSelectList(l, r) ==
  Len(l) >= 1 /\ Len(l) = Len(r) /\ \A n \in DOMAIN l : ~ Differ(l[n], r[n])

From(q) == q.members[3].members[1].members[1].members
Where(q) == q.members[3].members[2]
ValidSpecification(h, q) ==
  CASE Len(From(q)) > 1 -> Error(h, "implicit joins not allowed")
    [] Where(q) # None /\ Type(h, Where(q).members[1]) # "BOOLEAN" ->
         Error(h, "where condition has to be a boolean value expression")
    [] OTHER -> h

(* Both sides of a union are typed, the second one first.                  *)
TypedUnion(h, q) ==
  LET typed(g, n) == IF g.error # "" THEN g ELSE typeSymbolTable(g, q.members[n].scope)
  IN  FoldLeft(typed, h, <<3, 1>>)
ValidUnion(h, q) ==
  CASE h.error # "" -> h
    [] \E n \in {1, 3} : AsteriskOfNothing(h, q.members[n]) -> Error(h, Undefined)
    [] ~ SameSelectList(outputParameter(h, q.members[1]), outputParameter(h, q.members[3])) ->
         Error(h, "both sides of a UNION must have the same select list")
    [] OTHER -> h

RECURSIVE Validated(_, _)
Validated(h, q) ==
  LET side(g, n) == Validated(g, q.members[n]) IN
  CASE h.error # "" -> h
    [] q.class = "ASTUnionNode" -> FoldLeft(side, ValidUnion(TypedUnion(h, q), q), <<3, 1>>)
    [] OTHER -> ValidSpecification(h, q)
ValidQuery(h, query) == Validated(typeSymbolTable(h, query.scope), query.members[1])
-----------------------------------------------------------------------------
NoOperator == [name |-> "none", of |-> "", inputs |-> <<>>]
RowOperator(name, of, inputs) == [name |-> name, of |-> of, inputs |-> inputs]
Failed == RowOperator("failed", "no aggregation on other than aggregation functions", <<>>)

isSystemTable(name) == name = "SYSTEM_TABLES"
IsEquiJoin(condition) ==
  /\ condition.class = "ASTBinaryNode" /\ condition.members[2].text = "="
  /\ condition.members[1].class = "ASTIdentifier" /\ condition.members[3].class = "ASTIdentifier"

(* The operator that makes the rows of the select list.                    *)
IsAggregate(e) == e.class = "ASTAggregateFunctionNode"

(* What could go wrong, for the runs that test the properties: a query of  *)
(* aggregates only is not grouped.                                         *)
AggregationFirst(q, input) ==
  LET items == q.members[2].members IN
  CASE \A n \in DOMAIN items : IsAggregate(items[n]) -> RowOperator("Aggregation", "", <<input>>)
    [] q.members[3].members[3] # None -> RowOperator("Grouping", "", <<input>>)
    [] OTHER -> RowOperator("ExtendedProjection", "", <<input>>)

Projection(q, input) ==
  LET items == q.members[2].members IN
  CASE q.members[3].members[3] # None -> RowOperator("Grouping", "", <<input>>)
    [] q.members[3].members[3] = None /\ IsAggregate(items[1]) ->
         IF \A n \in DOMAIN items : IsAggregate(items[n])
         THEN RowOperator("Aggregation", "", <<input>>) ELSE Failed
    [] OTHER -> RowOperator("ExtendedProjection", "", <<input>>)

(* Of the clauses behind FROM, those that have an operator of their own.   *)
Selected(where, input) == IF where = None THEN input ELSE RowOperator("Select", "", <<input>>)
Sorted(order, input) == IF order = None THEN input ELSE RowOperator("Sort", "", <<input>>)
Limited(limit, input) == IF limit = None THEN input ELSE RowOperator("Limit", "", <<input>>)

RECURSIVE PlanQuery(_, _), PlanTable(_, _)
PlanTable(t, current) ==
  LET m == t.members IN
  CASE t.class = "ASTTableIdentifierNode" ->
         RowOperator(IF isSystemTable(Identifier(m[1])) THEN "SystemTableScan" ELSE "TableScan",
                   Identifier(m[1]), <<>>)
    [] t.class = "ASTTableSubqueryNode" -> PlanQuery(m[1], current)
    [] t.class \in {"ASTCrossJoinNode", "ASTInnerJoinNode"} ->
         LET left  == PlanTable(m[1], current)
             right == PlanTable(m[2], left)
             name  == CASE t.class = "ASTCrossJoinNode" -> "CrossJoin"
                        [] IsEquiJoin(m[3])             -> "InnerHashJoin"
                        [] OTHER                        -> "InnerJoin"
         IN  RowOperator(name, "", <<left, right>>)
    [] OTHER -> current      \* a natural or outer join adds nothing

PlanQuery(q, current) ==
  LET m == q.members IN
  IF q.class = "ASTUnionNode"
  THEN LET right == PlanQuery(m[3], current)
           left  == PlanQuery(m[1], right)
       IN  RowOperator("Union", "", <<right, left>>)
  ELSE LET clauses == m[3].members
           tables  == FoldLeft(LAMBDA c, t : PlanTable(t, c), current, From(q))
           rows    == Projection(q, Selected(clauses[2], tables))
       IN  Limited(clauses[6], Sorted(clauses[5], rows))

PlanOf(query) == RowOperator("OutputRow", "", <<PlanQuery(query.members[1], NoOperator)>>)

(* All operators of a plan.                                                *)
RECURSIVE Operators(_)
Operators(o) == <<o>> \o FlattenSeq([n \in DOMAIN o.inputs |-> Operators(o.inputs[n])])
=============================================================================
