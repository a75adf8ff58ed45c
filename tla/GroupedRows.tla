----------------------------- MODULE GroupedRows -----------------------------
(***************************************************************************)
(* Grouping and aggregation: the functions, and the operators that step    *)
(* them.                                                                   *)
(***************************************************************************)
EXTENDS Integers, FiniteSetsExt, RowOperator

(***************************************************************************)
(* The aggregation functions (aggregation_functions.cpp): what each keeps  *)
(* of the values it has seen.  A value is [type, n, null, size]; numbers   *)
(* are INTs, strings are ordered by n.                                     *)
(*                                                                         *)
(* A string is a pointer into a block of the input until disconnect()      *)
(* copies it: origin is the row it points into, or 0 for a copy.           *)
(***************************************************************************)
IntValue(n) == [type |-> "INT", n |-> n, null |-> FALSE, size |-> 1]
NullOf(type) == [type |-> type, n |-> 0, null |-> TRUE, size |-> 1]

(* create(), clone() and init(): the accumulators with which the functions *)
(* begin.  COUNT begins with NULL, the count of rows with 0.               *)
Begun(f) ==
  [function |-> f.function, count |-> 0, origin |-> 0,
   value |-> CASE f.function = "COUNT" -> NullOf("INT")
               [] f.function = "COUNT_STAR" -> IntValue(0)
               [] f.function = "PATHTHROUGH" -> NullOf("NONE")
               [] OTHER -> NullOf(f.type)]

Keep(a, v, r) == [a EXCEPT !.value = v, !.origin = r]
Disconnected(a) == [a EXCEPT !.origin = 0]
Plus(v, w) == [v EXCEPT !.n = @ + w.n]
Smaller(v, w) == v.n < w.n
Average(v, count) == [v EXCEPT !.n = @ \div count]

(* The value of row r is the first one, or not, or better than that kept;  *)
(* only the later ones are copied.                                         *)
Best(a, v, r, better) ==
  IF a.value.null THEN Keep(a, v, r)
  ELSE IF better THEN Disconnected(Keep(a, v, r)) ELSE a

Summed(a, v) == IF a.value.null THEN Keep(a, v, 0) ELSE [a EXCEPT !.value = Plus(@, v)]

CountStep(a) == Summed(a, IntValue(1))
RowCountStep(a) == [a EXCEPT !.value = Plus(@, IntValue(1))]
PaththroughStep(a, v) == IF a.value.type = "NONE" THEN Keep(a, v, 0) ELSE a
AvgStep(a, v) == [Summed(a, v) EXCEPT !.count = @ + 1]
MinStep(a, v, r) == Best(a, v, r, Smaller(v, a.value))
MaxStep(a, v, r) == Best(a, v, r, Smaller(a.value, v))
ArbitraryStep(a, v) == IF a.value.null THEN Keep(a, v, 0) ELSE a

(* A value that is not NULL.                                               *)
StepKnown(a, v, r) ==
  CASE a.function = "COUNT" -> CountStep(a)
    [] a.function = "SUM" -> Summed(a, v)
    [] a.function = "AVG" -> AvgStep(a, v)
    [] a.function = "MIN" -> MinStep(a, v, r)
    [] a.function = "MAX" -> MaxStep(a, v, r)
    [] a.function = "ARBITRARY" -> ArbitraryStep(a, v)

(* step(): the value v of row r.                                           *)
Step(a, v, r) ==
  CASE a.function = "COUNT_STAR" -> RowCountStep(a)
    [] a.function = "PATHTHROUGH" -> PaththroughStep(a, v)
    [] OTHER -> IF v.null THEN a ELSE StepKnown(a, v, r)

(* MIN and MAX compare a value with the one they keep.                     *)
LooksAtKept(a, v) == a.function \in {"MIN", "MAX"} /\ ~ v.null /\ ~ a.value.null

(* finalize().                                                             *)
Finalized(a) ==
  IF a.function = "AVG" /\ ~ a.value.null
  THEN Average(a.value, a.count) ELSE a.value
-----------------------------------------------------------------------------
(* What the functions mean, of the values v[r] of the rows r of S: the     *)
(* numbers of the values they may have (more than one for ARBITRARY only); *)
(* none if the value is NULL.                                              *)
Meant(f, S, v) ==
  LET Known == {r \in S : ~ v[r].null}
      All == {v[r].n : r \in Known}
      Total == MapThenSumSet(LAMBDA r : v[r].n, Known)
  IN  CASE f = "COUNT_STAR" -> {Cardinality(S)}
        [] f = "COUNT" -> {Cardinality(Known)}
        [] f \in {"ARBITRARY", "PATHTHROUGH"} -> All
        [] f = "MIN" -> {n \in All : \A m \in All : n <= m}
        [] f = "MAX" -> {n \in All : \A m \in All : m <= n}
        [] f = "SUM" -> IF Known = {} THEN {} ELSE {Total}
        [] f = "AVG" -> IF Known = {} THEN {} ELSE {Total \div Cardinality(Known)}
-----------------------------------------------------------------------------
(***************************************************************************)
(* GroupingOperatorNode with its GroupingBlockIterator, and                *)
(* AggregationOperatorNode: each row is a step of the functions of its     *)
(* group; at the end of the input the results are written to blocks and    *)
(* read back.  The functions of a group live in blocks of their own.       *)
(*                                                                         *)
(* An aggregation without GROUP BY has one group, its functions belong to  *)
(* the operator, and its results go to one block.                          *)
(***************************************************************************)
CONSTANT
  FunctionSize  (* the bytes of a function object in a block               *)

(* A number fits into a block.                                             *)
ASSUME FunctionsAssumption == FunctionSize \in Nat /\ HasSizeFor(Empty, 1)

VARIABLES
  groups,         (* [key, members, functions]; the key owns its strings,  *)
                  (* members are the rows (they serve the properties)       *)
  functionBlocks, (* _aggrFuncBlocks                                        *)
  target          (* _currentBlock and the group, while results are written *)

groupVars == <<copyVars, commonVars, groups, functionBlocks, target>>

Grouping == statement.kind = "group"
Aggregating == statement.kind = "aggregate"

(* The functions of the select list, each with the column it steps over,   *)
(* and, suppressed, those of the GROUP BY that the list does not name.     *)
Functions == statement.functions
Results == ResultsOf(statement)
Argument(f, r) == Cell(r, Functions[f].column)

Key(r) == [k \in DOMAIN statement.keys |-> Cell(r, statement.keys[k])]

(* What could go wrong: two NULLs are equal.                               *)
SameNumbers(j, k) == \A i \in DOMAIN j : j[i].n = k[i].n

(* GroupingElement::operator==.  A NULL is not equal to a NULL.            *)
SameKey(j, k) == \A i \in DOMAIN j : ~ j[i].null /\ ~ k[i].null /\ j[i].n = k[i].n

GroupOf(r) == {g \in DOMAIN groups : SameKey(groups[g].key, Key(r))}

Stepped(functions, r) ==
  [f \in DOMAIN functions |-> Step(functions[f], Argument(f, r), r)]
Begin == [f \in DOMAIN Functions |-> Begun(Functions[f])]

(* A value that MIN or MAX kept is in a block that the input, at row r,    *)
(* has given back.                                                         *)
Dangling(a, r) ==
  a.origin # 0 /\ a.value.type = "STRING" /\ ~ a.value.null /\ Released(a.origin, r)
StepsOnReleased(functions, r) ==
  \E f \in DOMAIN functions :
    LooksAtKept(functions[f], Argument(f, r)) /\ Dangling(functions[f], r)
-----------------------------------------------------------------------------
(* A block for function objects, each of which takes some bytes of it.     *)
Funcs == store[Last(functionBlocks)]
WithFunction(content) == [content EXCEPT !.used = @ + FunctionSize]
HasSlot == HasSizeFor(Funcs, FunctionSize)
PushFunctionBlock(content) ==
  /\ BM!CreateBlock
  /\ functionBlocks' = Append(functionBlocks, sBlockNumber')
  /\ store' = Append(store, content)
  /\ UNCHANGED cache

(* The first call creates a block for results and one for functions; that  *)
(* of an aggregation creates one block for its row.                        *)
GroupFirstBlock ==
  /\ Grouping \/ Aggregating
  /\ pc = "first"
  /\ PushBlock(Empty)
  /\ groups' = IF Aggregating THEN <<[key |-> <<>>, members |-> {}, functions |-> Begin]>>
               ELSE groups
  /\ GoTo(IF Grouping THEN "functions" ELSE "pull")
  /\ UNCHANGED <<commonVars, functionBlocks, target>>

GroupFirstFunctionBlock ==
  /\ pc = "functions"
  /\ PushFunctionBlock(Empty)
  /\ GoTo("pull")
  /\ UNCHANGED <<commonVars, groups, target>>

(* A row of a group that is there: each of its functions takes a step.     *)
GroupsFor(r) == IF Aggregating THEN {1} ELSE GroupOf(r)
Pulling == (Grouping \/ Aggregating) /\ pc = "pull"

GroupStep ==
  /\ Pulling /\ TakeRow
  /\ \E g \in GroupsFor(Pulled.row) :
       /\ ~ StepsOnReleased(groups[g].functions, Pulled.row)
       /\ groups' = [groups EXCEPT ![g].members = @ \cup {Pulled.row},
                                   ![g].functions = Stepped(@, Pulled.row)]
  /\ UNCHANGED <<copyVars, pc, statement, col, at, delivered, outcome, fault,
                 functionBlocks, target>>

GroupStepOnReleased ==
  /\ Pulling /\ TakeRow
  /\ \E g \in GroupsFor(Pulled.row) : StepsOnReleased(groups[g].functions, Pulled.row)
  /\ Crash("kept")
  /\ UNCHANGED <<copyVars, statement, col, at, delivered, outcome, groups,
                 functionBlocks, target>>

(* The row begins a group: its functions are cloned one by one into the    *)
(* current block of functions, or into a new one.                          *)
GroupPullNew ==
  /\ Pulling /\ TakeRow
  /\ GroupsFor(Pulled.row) = {}
  /\ col' = 1
  /\ GoTo("new")
  /\ UNCHANGED <<copyVars, statement, at, delivered, outcome, fault, groups,
                 functionBlocks, target>>

Cloning == pc = "new" /\ col \in DOMAIN Functions
CloneFunction ==
  /\ Cloning /\ HasSlot
  /\ store' = [store EXCEPT ![Last(functionBlocks)] = WithFunction(@)]
  /\ col' = col + 1
  /\ UNCHANGED <<managerVars, cache, pc, statement, in, pulled, at, delivered,
                 outcome, fault, groups, functionBlocks, target>>

CloneToNextBlock ==
  /\ Cloning /\ ~ HasSlot
  /\ PushFunctionBlock(WithFunction(Empty))
  /\ col' = col + 1
  /\ UNCHANGED <<pc, statement, in, pulled, at, delivered, outcome, fault,
                 groups, target>>

(* The key is disconnected, the group entered.                             *)
EnterGroup ==
  /\ pc = "new" /\ ~ Cloning
  /\ groups' = Append(groups, [key |-> Key(Row), members |-> {Row},
                               functions |-> Stepped(Begin, Row)])
  /\ GoTo("pull")
  /\ UNCHANGED <<copyVars, commonVars, functionBlocks, target>>
-----------------------------------------------------------------------------
(* The end of the input.  The grouping iterator takes a block for results, *)
(* although it has one, and is one block ahead from then on; the map has   *)
(* the groups in any order.                                                *)
Orders(s) ==
  {[k \in DOMAIN s |-> s[f[k]]] : f \in {g \in [DOMAIN s -> DOMAIN s] : IsInjective(g)}}

GroupEndOfInput ==
  /\ Pulling /\ TakeEnd
  /\ groups' \in Orders(groups)
  /\ col' = 1
  /\ GoTo(IF Grouping THEN "spare" ELSE "write")
  /\ UNCHANGED <<copyVars, statement, at, delivered, outcome, fault, functionBlocks, target>>

AppendBlock(contents) ==
  /\ BM!CreateBlock
  /\ cache' = Append(cache, sBlockNumber')
  /\ store' = Append(contents, Empty)

SpareBlock ==
  /\ pc = "spare"
  /\ AppendBlock(store)
  /\ GoTo("write")
  /\ UNCHANGED <<commonVars, groups, functionBlocks, target>>

(* The results of a group.  A string that MIN or MAX kept is read here.    *)
Writing == pc = "write" /\ target.group \in DOMAIN groups
Result(g, c) == Finalized(groups[g].functions[Results[c]])
WritingResult == Writing /\ col \in DOMAIN Results
Kept == groups[target.group].functions[Results[col]]
ResultBlock == cache[target.block]
ResultSize == Result(target.group, col).size
LastRow == IF pulled = <<>> THEN 0 ELSE Row
ReadsReleased == LastRow # 0 /\ Dangling(Kept, LastRow)

WithResult(content) == Added(content, target.group, col, ResultSize)
AddResult ==
  /\ WritingResult /\ ~ ReadsReleased /\ HasSizeFor(store[ResultBlock], ResultSize)
  /\ store' = [store EXCEPT ![ResultBlock] = WithResult(@)]
  /\ col' = col + 1
  /\ UNCHANGED <<managerVars, cache, pc, statement, in, pulled, at, delivered, outcome,
                 fault, groups, functionBlocks, target>>

(* The block is full: the result goes to the block ahead, and a new one is *)
(* taken.                                                                  *)
ResultToNextBlock ==
  /\ Grouping /\ WritingResult /\ ~ ReadsReleased /\ ~ HasSizeFor(store[ResultBlock], ResultSize)
  /\ AppendBlock([store EXCEPT ![ResultBlock] = Marked(@, "CC"),
                               ![cache[target.block + 1]] =
                                 IF Lost(ResultSize) THEN @ ELSE WithResult(@)])
  /\ target' = [target EXCEPT !.block = @ + 1]
  /\ col' = col + 1
  /\ UNCHANGED <<pc, statement, in, pulled, at, delivered, outcome, fault, groups,
                 functionBlocks>>

(* An aggregation does not ask whether the value was added.                *)
ResultDropped ==
  /\ Aggregating /\ WritingResult /\ ~ ReadsReleased /\ ~ HasSizeFor(store[ResultBlock], ResultSize)
  /\ col' = col + 1
  /\ UNCHANGED <<copyVars, pc, statement, in, pulled, at, delivered, outcome, fault,
                 groups, functionBlocks, target>>

ReadReleasedResult ==
  /\ WritingResult /\ ReadsReleased
  /\ Crash("kept")
  /\ UNCHANGED <<copyVars, statement, in, pulled, col, at, delivered, outcome, groups,
                 functionBlocks, target>>

EndGroup ==
  /\ Writing /\ ~ WritingResult
  /\ store' = [store EXCEPT ![ResultBlock] = Marked(@, "BB")]
  /\ target' = [target EXCEPT !.group = @ + 1]
  /\ col' = 1
  /\ UNCHANGED <<managerVars, cache, pc, statement, in, pulled, at, delivered, outcome,
                 fault, groups, functionBlocks>>

EndGroups ==
  /\ pc = "write" /\ ~ Writing
  /\ store' = [store EXCEPT ![ResultBlock] = Marked(@, "DD")]
  /\ at' = Start
  /\ GoTo("next")
  /\ UNCHANGED <<managerVars, cache, statement, in, pulled, col, delivered, outcome,
                 fault, groups, functionBlocks, target>>

(* A block is asked for and refused; one for results when the one before   *)
(* it has been closed.                                                     *)
AsksForBlock ==
  \/ (Grouping \/ Aggregating) /\ pc = "first"
  \/ pc \in {"functions", "spare"}
  \/ Cloning /\ ~ HasSlot
  \/ Grouping /\ WritingResult /\ ~ ReadsReleased /\ ~ HasSizeFor(store[ResultBlock], ResultSize)
GroupBlockThrows ==
  /\ AsksForBlock
  /\ BM!CreateBlockThrows
  /\ Destroy("threw")
  /\ UNCHANGED <<store, cache, statement, in, pulled, col, at, delivered, fault,
                 groups, functionBlocks, target>>
-----------------------------------------------------------------------------
(* The results are read back.                                              *)
ReadingGroups == (Grouping \/ Aggregating) /\ pc = "next"

GroupStart == IF at.offset = 0 THEN at ELSE After(at)
GroupedRow ==
  /\ ReadingGroups /\ TagAt(GroupStart) # "DD" /\ Complete(GroupStart, Len(Results))
  /\ delivered' = Append(delivered, RowAt(GroupStart, Len(Results)))
  /\ at' = After(ValuePositions(GroupStart, Len(Results))[Len(Results)])
  /\ UNCHANGED <<copyVars, pc, statement, in, pulled, col, outcome, fault, groups,
                 functionBlocks, target>>

GroupedRowThrows ==
  /\ ReadingGroups /\ TagAt(GroupStart) # "DD" /\ ~ Complete(GroupStart, Len(Results))
  /\ Destroy("threw")
  /\ UNCHANGED <<copyVars, statement, in, pulled, col, at, delivered, fault, groups,
                 functionBlocks, target>>

GroupedEnd ==
  /\ ReadingGroups /\ TagAt(GroupStart) = "DD"
  /\ Destroy("eof")
  /\ UNCHANGED <<copyVars, statement, in, pulled, col, at, delivered, fault, groups,
                 functionBlocks, target>>

(* What could go wrong, for the runs that test the properties: the blocks  *)
(* of functions are forgotten.                                             *)
ForgetFunctionBlocks ==
  /\ pc = "release" /\ functionBlocks # <<>> /\ AllReleased
  /\ functionBlocks' = <<>>
  /\ UNCHANGED <<copyVars, pc, commonVars, groups, target>>

(* The destructor of the grouping iterator gives both kinds of blocks back *)
(* (the functions are not destroyed).                                      *)
ReleaseFunctionBlock ==
  /\ pc = "release" /\ functionBlocks # <<>> /\ AllReleased
  /\ BM!Release(Head(functionBlocks))
  /\ functionBlocks' = Tail(functionBlocks)
  /\ UNCHANGED <<store, cache, pc, commonVars, groups, target>>

GroupNext ==
  \/ GroupFirstBlock \/ GroupFirstFunctionBlock \/ GroupStep
  \/ GroupStepOnReleased \/ GroupPullNew \/ CloneFunction \/ CloneToNextBlock
  \/ EnterGroup \/ GroupEndOfInput \/ SpareBlock \/ AddResult
  \/ ResultToNextBlock \/ ResultDropped \/ ReadReleasedResult \/ EndGroup
  \/ EndGroups \/ GroupBlockThrows \/ GroupedRow \/ GroupedRowThrows
  \/ GroupedEnd \/ ReleaseFunctionBlock
=============================================================================
