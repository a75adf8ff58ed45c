------------------------- MODULE RowOperatorsProofs -------------------------
(***************************************************************************)
(* Proofs about the operators that keep or compute rows: what becomes of   *)
(* the blocks that they take, that a projected row points into blocks that *)
(* exist, which rows they pull, and that a sort and a projection deliver   *)
(* the rows that were asked for.                                           *)
(***************************************************************************)
EXTENDS RowOperators, RowCopiesProofs, FiniteSetTheorems

(***************************************************************************)
(* Types.                                                                  *)
(***************************************************************************)
Places == [block : Nat, offset : Nat]
RowNumbers == 1 .. Len(Rows)
Accumulators ==
  [function : FunctionNames, count : Nat, origin : Nat, value : CellValues]
GroupRecords ==
  [key : Seq(CellValues), members : SUBSET RowNumbers,
   functions : [DOMAIN Functions -> Accumulators]]

InputStates(n, m) ==
  [limit : Int, offset : Nat, pos : 0 .. n, second : 0 .. m,
   firstEnded : BOOLEAN, ends : Nat]
InputTypes ==
  /\ statement \in Statements
  /\ in \in InputStates(Len(statement.rows), Len(statement.more))
  /\ pulled \in Seq(RowNumbers)
  /\ pc \in {"item", "copy", "new"} => pulled # <<>>
StoreTypes ==
  /\ sBlockNumber \in Nat
  /\ store \in [1 .. sBlockNumber -> Contents]
PlaceTypes ==
  /\ col \in Nat \ {0}
  /\ at \in Places
  /\ target \in [block : Nat \ {0}, group : Nat \ {0}]
GroupTypes ==
  Grouping \/ Aggregating => groups \in Seq(GroupRecords)
RowTypes == InputTypes /\ StoreTypes /\ PlaceTypes /\ GroupTypes

(* Where the code of each operator can be, and whether it has ended.       *)
Ends == {"release", "closed"}
StagesOf(kind) ==
  CASE kind = "sort" -> {"first", "pull", "copy", "sort", "next", "crashed"}
    [] kind = "group" -> {"first", "functions", "pull", "new", "spare", "write", "next", "crashed"}
    [] kind = "aggregate" -> {"first", "pull", "write", "next", "crashed"}
    [] kind = "project" -> {"first", "pull", "item", "next", "read"}
Stages ==
  /\ statement \in Statements
  /\ pc \in StagesOf(statement.kind) \cup Ends
  /\ pc \in Ends <=> outcome # "open"

LEMMA StatementTypes ==
  ASSUME statement \in Statements
  PROVE  /\ Len(statement.rows) \in Nat /\ Len(statement.more) \in Nat
         /\ Len(Rows) = Len(statement.rows) + Len(statement.more)
         /\ Width \in Nat \ {0}
         /\ statement.offset \in Nat /\ statement.limit \in Int
         /\ statement.held \in Nat /\ statement.union \in BOOLEAN
<1>1. /\ statement.rows \in InputRows(statement.types)
      /\ statement.more \in InputRows(statement.types)
      /\ statement.types \in Seq(ValueTypes) /\ statement.types # <<>>
  BY StatementsAssumption
<1>2. Len(Rows) = Len(statement.rows) + Len(statement.more)
  BY <1>1 DEF Rows, InputRows
<1>3. Len(statement.rows) \in Nat /\ Len(statement.more) \in Nat
  BY <1>1 DEF InputRows
<1>4. Width \in Nat \ {0}
  BY <1>1 DEF Width
<1>5. /\ statement.offset \in Nat /\ statement.limit \in Int
      /\ statement.held \in Nat /\ statement.union \in BOOLEAN
  BY StatementsAssumption
<1> QED
  BY <1>2, <1>3, <1>4, <1>5

LEMMA CellTypes ==
  ASSUME statement \in Statements, NEW r \in RowNumbers, NEW c \in Columns
  PROVE  Cell(r, c) \in CellValues
<1>1. PICK R : R = [values : {v \in Seq(CellValues) : Len(v) = Width}, block : Nat]
  OBVIOUS
<1>2. statement.rows \in Seq(R) /\ statement.more \in Seq(R)
  BY <1>1, StatementsAssumption DEF InputRows, Width
<1>3. Rows \in Seq(R)
  BY <1>2 DEF Rows
<1>4. Rows[r] \in R
  BY <1>3 DEF RowNumbers
<1>5. Rows[r].values \in Seq(CellValues) /\ Len(Rows[r].values) = Width
  BY <1>1, <1>4
<1> QED
  BY <1>5 DEF Cell, Columns

(* What is below delivers a row that there is, and its state stays typed.  *)
LEMMA LimitTypes ==
  ASSUME statement \in Statements,
         NEW s \in InputStates(Len(statement.rows), Len(statement.more))
  PROVE  /\ LimitNext(s).row \in 0 .. Len(Rows)
         /\ LimitNext(s).state \in InputStates(Len(statement.rows), Len(statement.more))
<1>1. PICK n \in Nat : n = Len(statement.rows)
  BY StatementTypes
<1>2. PICK m \in Nat : m = Len(statement.more) /\ Len(Rows) = n + m
  BY <1>1, StatementTypes
<1> DEFINE States == InputStates(n, m)
<1>3. ASSUME NEW state \in States
      PROVE  FirstNext(state).state \in States /\ FirstNext(state).row \in 0 .. n + m
  <2>1. CASE state.pos < n
    <3>1. FirstNext(state) = [state |-> [state EXCEPT !.pos = @ + 1], row |-> state.pos + 1]
      BY <1>1, <2>1 DEF FirstNext
    <3>2. state.pos + 1 \in 0 .. n /\ state.pos + 1 \in 0 .. n + m
      BY <2>1 DEF InputStates
    <3>3. [state EXCEPT !.pos = @ + 1] \in States
      BY <3>2 DEF InputStates
    <3> QED
      BY <3>1, <3>2, <3>3
  <2>2. CASE ~ (state.pos < n)
    <3>1. FirstNext(state) = [state |-> state, row |-> 0]
      BY <1>1, <2>2 DEF FirstNext, Nothing
    <3> QED
      BY <3>1
  <2> QED
    BY <2>1, <2>2
<1>4. s \in States
  BY <1>1, <1>2
<1>5. LimitNext(s).state \in States /\ LimitNext(s).row \in 0 .. n + m
  <2>1. statement.offset \in Nat
    BY StatementTypes
  <2> DEFINE t == IF s.offset > 0 THEN SkippedOffset(s) ELSE s
             c == [t EXCEPT !.limit = IF @ > 0 THEN @ - 1 ELSE @]
  <2>2. CASE s.offset > n - s.pos
    <3>1. LimitNext(s) = [state |-> [s EXCEPT !.pos = n, !.offset = @ - (n - s.pos)], row |-> 0]
      BY <1>1, <2>2 DEF LimitNext, Nothing
    <3>2. s.offset - (n - s.pos) \in Nat /\ n \in 0 .. n
      BY <1>4, <2>2 DEF InputStates
    <3>3. PICK rest \in Nat : rest = s.offset - (n - s.pos)
      BY <3>2
    <3>4. LimitNext(s).state = [s EXCEPT !.pos = n, !.offset = rest]
      BY <1>4, <3>1, <3>3 DEF InputStates
    <3>5. LimitNext(s).state \in States
      BY <1>4, <3>2, <3>4 DEF InputStates
    <3> QED
      BY <3>1, <3>5
  <2>3. CASE ~ (s.offset > n - s.pos)
    <3>1. SkippedOffset(s) = [s EXCEPT !.pos = @ + s.offset, !.offset = 0]
      BY DEF SkippedOffset
    <3>2. SkippedOffset(s) \in States
      <4>1. s.pos + s.offset \in 0 .. n
        BY <1>4, <2>3 DEF InputStates
      <4>2. SkippedOffset(s) =
              [limit |-> s.limit, offset |-> 0, pos |-> s.pos + s.offset,
               second |-> s.second, firstEnded |-> s.firstEnded, ends |-> s.ends]
        BY <1>4, <3>1 DEF InputStates
      <4> QED
        BY <1>4, <4>1, <4>2 DEF InputStates
    <3>3. t \in States
      BY <1>4, <3>2
    <3>4. LimitNext(s) = IF t.limit = 1 THEN Nothing(c) ELSE FirstNext(c)
      BY <1>1, <2>3 DEF LimitNext
    <3> HIDE DEF t
    <3>5. c \in States
      BY <1>4, <3>3 DEF InputStates
    <3> HIDE DEF c
    <3> QED
      BY <1>3, <3>4, <3>5 DEF Nothing
  <2> QED
    BY <2>2, <2>3
<1> QED
  BY <1>1, <1>2, <1>5

LEMMA PulledTypes ==
  ASSUME InputTypes
  PROVE  /\ Pulled.row \in 0 .. Len(Rows)
         /\ Pulled.state \in InputStates(Len(statement.rows), Len(statement.more))
<1>1. PICK n \in Nat : n = Len(statement.rows)
  BY StatementTypes DEF InputTypes
<1>2. PICK m \in Nat : m = Len(statement.more) /\ Len(Rows) = n + m
  BY <1>1, StatementTypes DEF InputTypes
<1> DEFINE States == InputStates(n, m)
<1>3. ASSUME NEW s \in States
      PROVE  LimitNext(s).state \in States /\ LimitNext(s).row \in 0 .. n + m
  BY <1>1, <1>2, LimitTypes DEF InputTypes
<1>4. ASSUME NEW s \in States
      PROVE  SecondNext(s).state \in States /\ SecondNext(s).row \in 0 .. n + m
  <2>1. CASE s.second < m
    <3>1. SecondNext(s) = [state |-> [s EXCEPT !.second = @ + 1], row |-> n + s.second + 1]
      BY <1>1, <1>2, <2>1 DEF SecondNext
    <3> QED
      BY <2>1, <3>1 DEF InputStates
  <2>2. CASE ~ (s.second < m)
    <3>1. SecondNext(s) = [state |-> s, row |-> 0]
      BY <1>2, <2>2 DEF SecondNext, Nothing
    <3> QED
      BY <3>1
  <2> QED
    BY <2>1, <2>2
<1>6. in \in States
  BY <1>1, <1>2 DEF InputTypes
<1>7. [LimitNext(in).state EXCEPT !.firstEnded = TRUE] \in States
  BY <1>3, <1>6 DEF InputStates
<1> HIDE DEF States
<1>8. Pulled.row \in 0 .. n + m /\ Pulled.state \in States
  BY <1>3, <1>4, <1>6, <1>7, Zenon DEF Pulled, UnionNext
<1> QED
  BY <1>1, <1>2, <1>8 DEF States

(* What a step may do to the input, and to the place that is copied next.  *)
InputStep ==
  /\ UNCHANGED statement
  /\ UNCHANGED <<in, pulled>> \/ TakeRow \/ TakeEnd
  /\ pc' \in {"item", "copy", "new"} => TakeRow \/ (pc' = pc /\ UNCHANGED pulled)
ColumnStep == col' \in {col, col + 1, 1}

LEMMA SortInputStep == SortNext => InputStep /\ ColumnStep
BY DEF SortNext, InputStep, ColumnStep, commonVars, Destroy, Crash, GoTo, SortFirstBlock,
  SortFirstBlockThrows, SortPull, SortCopy, SortCopying, SortCopyThrows, SortEndRow,
  SortEndOfInput, Sort, SortUndefined, SortThrows, SortedLeft, SortedRow, SortedRowThrows,
  SortedEnd

LEMMA GroupInputStep == GroupNext => InputStep /\ ColumnStep
BY DEF GroupNext, InputStep, ColumnStep, commonVars, Destroy, Crash, GoTo, GroupFirstBlock,
  GroupFirstFunctionBlock, Pulling, GroupStep, GroupStepOnReleased, GroupPullNew, Cloning,
  CloneFunction, CloneToNextBlock, EnterGroup, GroupEndOfInput, SpareBlock, WritingResult,
  Writing, AddResult, ResultToNextBlock, ResultDropped, ReadReleasedResult, EndGroup,
  EndGroups, GroupBlockThrows, ReadingGroups, GroupedRow, GroupedRowThrows, GroupedEnd,
  ReleaseFunctionBlock

LEMMA ProjectInputStep == ProjectNext => InputStep /\ ColumnStep
BY DEF ProjectNext, InputStep, ColumnStep, commonVars, Destroy, GoTo, ProjectFirstBlock,
  ProjectFirstBlockThrows, Preparing, ProjectRow, EvaluatingItem, ProjectItem,
  ProjectItemToNext, ProjectItemThrows, ProjectEndRow, Handed, HandFullBlock, HandLastBlock,
  AtItem, ProjectedRowThrows, ProjectedEnd, ProjectedRow, ReadItem, NextItemBlock,
  ReadItemThrows, RowRead, UseProjectedRow, ReleaseRead

LEMMA InputSteps == [Next]_vars => InputStep /\ ColumnStep
<1>1. InputThrows \/ Abandon \/ ReleaseBlocks \/ Close => InputStep /\ ColumnStep
  BY DEF InputThrows, Abandon, ReleaseBlocks, Close, Destroy, GoTo, InputStep, ColumnStep,
    commonVars
<1>2. UNCHANGED vars => InputStep /\ ColumnStep
  BY DEF vars, commonVars, InputStep, ColumnStep
<1> QED
  BY <1>1, <1>2, SortInputStep, GroupInputStep, ProjectInputStep DEF Next, Stopped

(* Each operator goes through its own stages.                              *)
LEMMA Kinds ==
  ASSUME statement \in Statements
  PROVE  /\ \/ Sorting /\ ~ Grouping /\ ~ Aggregating /\ ~ Projecting
               /\ StagesOf(statement.kind) = StagesOf("sort")
            \/ Grouping /\ ~ Sorting /\ ~ Aggregating /\ ~ Projecting
               /\ StagesOf(statement.kind) = StagesOf("group")
            \/ Aggregating /\ ~ Sorting /\ ~ Grouping /\ ~ Projecting
               /\ StagesOf(statement.kind) = StagesOf("aggregate")
            \/ Projecting /\ ~ Sorting /\ ~ Grouping /\ ~ Aggregating
               /\ StagesOf(statement.kind) = StagesOf("project")
         /\ StagesOf("sort") = {"first", "pull", "copy", "sort", "next", "crashed"}
         /\ StagesOf("group") =
              {"first", "functions", "pull", "new", "spare", "write", "next", "crashed"}
         /\ StagesOf("aggregate") = {"first", "pull", "write", "next", "crashed"}
         /\ StagesOf("project") = {"first", "pull", "item", "next", "read"}
<1>1. statement.kind \in {"sort", "group", "aggregate", "project"}
  BY StatementsAssumption
<1> QED
  BY <1>1 DEF Sorting, Grouping, Aggregating, Projecting, StagesOf


GoesOn == outcome' = outcome /\ pc' \in StagesOf(statement.kind) \cup Ends
          /\ (pc' \in Ends <=> pc \in Ends)
Finishes == outcome' # "open" /\ pc' \in Ends

LEMMA SortStages == Stages /\ SortNext => GoesOn \/ Finishes
<1> SUFFICES ASSUME Stages, SortNext PROVE GoesOn \/ Finishes
  OBVIOUS
<1>1. Sorting /\ StagesOf(statement.kind) = {"first", "pull", "copy", "sort", "next", "crashed"}
  <2>1. Sorting
    BY DEF SortNext, SortFirstBlock, SortFirstBlockThrows, SortPull, SortCopying, SortCopy,
      SortCopyThrows, SortEndRow, SortEndOfInput, Sort, SortUndefined, SortThrows,
      SortedLeft, SortedRow, SortedRowThrows, SortedEnd
  <2> QED
    BY <2>1, Kinds DEF Stages
<1> QED
  BY <1>1 DEF SortNext, GoesOn, Finishes, Ends, Stages, commonVars, Destroy, Crash, GoTo,
    SortFirstBlock, SortFirstBlockThrows, SortPull, SortCopying, SortCopy, SortCopyThrows,
    SortEndRow, SortEndOfInput, Sort, SortUndefined, SortThrows, SortedLeft, SortedRow,
    SortedRowThrows, SortedEnd

LEMMA ProjectStages == Stages /\ ProjectNext => GoesOn \/ Finishes
<1> SUFFICES ASSUME Stages, ProjectNext PROVE GoesOn \/ Finishes
  OBVIOUS
<1>1. Projecting /\ StagesOf(statement.kind) = {"first", "pull", "item", "next", "read"}
  <2>1. Projecting
    BY DEF ProjectNext, ProjectFirstBlock, ProjectFirstBlockThrows, Preparing, ProjectRow,
      EvaluatingItem, ProjectItem, ProjectItemToNext, ProjectItemThrows, ProjectEndRow,
      HandFullBlock, HandLastBlock, AtItem, ProjectedRowThrows, ProjectedEnd, ProjectedRow,
      ReadItem, NextItemBlock, ReadItemThrows, RowRead, UseProjectedRow, ReleaseRead
  <2> QED
    BY <2>1, Kinds DEF Stages
<1> QED
  BY <1>1 DEF ProjectNext, GoesOn, Finishes, Ends, Stages, commonVars, Destroy, GoTo,
    ProjectFirstBlock, ProjectFirstBlockThrows, Preparing, ProjectRow, EvaluatingItem,
    ProjectItem, ProjectItemToNext, ProjectItemThrows, ProjectEndRow, Handed, HandFullBlock,
    HandLastBlock, AtItem, ProjectedRowThrows, ProjectedEnd, ProjectedRow, ReadItem,
    NextItemBlock, ReadItemThrows, RowRead, UseProjectedRow, ReleaseRead

LEMMA GroupStages == Stages /\ GroupNext => GoesOn \/ Finishes
<1> SUFFICES ASSUME Stages, GroupNext, ~ (GoesOn \/ Finishes) PROVE FALSE
  OBVIOUS
<1>1. /\ StagesOf("group") =
           {"first", "functions", "pull", "new", "spare", "write", "next", "crashed"}
      /\ StagesOf("aggregate") = {"first", "pull", "write", "next", "crashed"}
      /\ Grouping \/ Aggregating \/ pc \in StagesOf("sort") \cup StagesOf("project") \cup Ends
      /\ Grouping => StagesOf(statement.kind) = StagesOf("group") /\ ~ Aggregating
      /\ Aggregating => StagesOf(statement.kind) = StagesOf("aggregate") /\ ~ Grouping
      /\ StagesOf("sort") = {"first", "pull", "copy", "sort", "next", "crashed"}
      /\ StagesOf("project") = {"first", "pull", "item", "next", "read"}
      /\ pc \in StagesOf(statement.kind) \cup Ends
  BY Kinds DEF Stages
<1>2. CASE GroupFirstBlock \/ GroupFirstFunctionBlock \/ GroupStep \/ GroupStepOnReleased
           \/ CloneFunction \/ CloneToNextBlock \/ EnterGroup
  BY <1>1, <1>2 DEF GoesOn, Finishes, Ends, Stages, commonVars, Destroy, Crash, GoTo,
    GroupFirstBlock, GroupFirstFunctionBlock, Pulling, GroupStep, GroupStepOnReleased,
    Cloning, CloneFunction, CloneToNextBlock, EnterGroup
<1>3. CASE GroupPullNew
  <2>1. Grouping
    BY <1>3 DEF GroupPullNew, Pulling, GroupsFor
  <2> QED
    BY <1>1, <1>3, <2>1 DEF GoesOn, Ends, GoTo, GroupPullNew, Pulling
<1>4. CASE GroupEndOfInput \/ SpareBlock \/ AddResult \/ ResultToNextBlock \/ ResultDropped
           \/ ReadReleasedResult \/ EndGroup \/ EndGroups
  BY <1>1, <1>4 DEF GoesOn, Finishes, Ends, Stages, commonVars, Destroy, Crash, GoTo,
    Pulling, GroupEndOfInput, SpareBlock, WritingResult, Writing, AddResult,
    ResultToNextBlock, ResultDropped, ReadReleasedResult, EndGroup, EndGroups
<1>5. CASE GroupBlockThrows
  BY <1>5 DEF Finishes, GroupBlockThrows, Destroy, GoTo, Ends
<1>6. CASE GroupedRow \/ GroupedRowThrows \/ GroupedEnd \/ ReleaseFunctionBlock
  BY <1>1, <1>6 DEF GoesOn, Finishes, Ends, Stages, commonVars, Destroy, GoTo, ReadingGroups,
    GroupedRow, GroupedRowThrows, GroupedEnd, ReleaseFunctionBlock
<1> QED
  BY <1>2, <1>3, <1>4, <1>5, <1>6 DEF GroupNext

LEMMA StagesStep == Stages /\ [Next]_vars => Stages'
<1> SUFFICES ASSUME Stages, [Next]_vars PROVE Stages'
  OBVIOUS
<1>1. UNCHANGED statement
  BY InputSteps DEF InputStep
<1>2. InputThrows \/ Abandon => Finishes
  BY DEF InputThrows, Abandon, Destroy, GoTo, Finishes, Ends
<1>3. ReleaseBlocks \/ Close => GoesOn
  BY DEF ReleaseBlocks, Close, commonVars, GoTo, GoesOn, Ends, Stages
<1>4. UNCHANGED vars => GoesOn
  BY DEF vars, commonVars, GoesOn, Stages
<1>5. GoesOn \/ Finishes
  BY <1>2, <1>3, <1>4, SortStages, ProjectStages, GroupStages DEF Next, Stopped
<1> QED
  BY <1>1, <1>5 DEF GoesOn, Finishes, Stages

LEMMA InputTypesStep ==
  ASSUME InputTypes, InputStep
  PROVE  InputTypes'
<1>1. /\ Pulled.row \in 0 .. Len(Rows)
      /\ Pulled.state \in InputStates(Len(statement.rows), Len(statement.more))
  BY PulledTypes
<1>2. RowNumbers' = RowNumbers
  BY DEF InputStep, RowNumbers, Rows
<1>3. ASSUME TakeRow
      PROVE  /\ pulled' \in Seq(RowNumbers) /\ pulled' # <<>>
             /\ in' \in InputStates(Len(statement.rows), Len(statement.more))
  <2>1. Pulled.row \in RowNumbers
    BY <1>1, <1>3, StatementTypes DEF TakeRow, InputHasRow, RowNumbers, InputTypes
  <2> QED
    BY <1>1, <1>3, <2>1 DEF TakeRow, InputTypes
<1>4. ASSUME TakeEnd
      PROVE  /\ pulled' = pulled
             /\ in' \in InputStates(Len(statement.rows), Len(statement.more))
  BY <1>1, <1>4 DEF TakeEnd, InputStates
<1> QED
  BY <1>2, <1>3, <1>4 DEF InputTypes, InputStep

LEMMA RowTaken ==
  ASSUME InputTypes, TakeRow
  PROVE  Pulled.row \in RowNumbers /\ Row' = Pulled.row
<1>1. Pulled.row \in RowNumbers
  BY PulledTypes, StatementTypes DEF TakeRow, InputHasRow, RowNumbers, InputTypes
<1> QED
  BY <1>1 DEF TakeRow, InputTypes, Row, Last

LEMMA RowType ==
  ASSUME InputTypes, pulled # <<>>
  PROVE  Row \in RowNumbers
BY DEF InputTypes, Row, Last

(* What is written to the blocks.                                          *)
LEMMA StoreWrite ==
  ASSUME StoreTypes, UNCHANGED sBlockNumber, NEW b, NEW content,
         store' = [store EXCEPT ![b] = content],
         b \in 1 .. sBlockNumber => content \in Contents
  PROVE  StoreTypes'
BY DEF StoreTypes

LEMMA StoreMark ==
  ASSUME StoreTypes, UNCHANGED sBlockNumber, NEW b,
         NEW tag \in {"AA", "BB", "CC", "DD"},
         store' = [store EXCEPT ![b] = Marked(@, tag)]
  PROVE  StoreTypes'
<1>1. b \in 1 .. sBlockNumber => Marked(store[b], tag) \in Contents
  BY ContentTypes DEF StoreTypes
<1> QED
  BY <1>1, StoreWrite

LEMMA StorePush ==
  ASSUME StoreTypes, NEW content \in Contents, PushBlock(content)
  PROVE  StoreTypes'
<1>1. sBlockNumber' = sBlockNumber + 1 /\ sBlockNumber' \in Nat
  BY DEF PushBlock, BM!CreateBlock, StoreTypes
<1>2. ASSUME NEW b \in 1 .. sBlockNumber'
      PROVE  store'[b] \in Contents
  <2>1. CASE b = sBlockNumber'
    BY <2>1 DEF PushBlock
  <2>2. CASE b # sBlockNumber'
    <3>1. store[b] \in Contents
      BY <1>1, <2>2 DEF StoreTypes
    <3>2. Marked(store[b], "CC") \in Contents
      BY <3>1, ContentTypes
    <3> QED
      BY <2>2, <3>1, <3>2 DEF PushBlock
  <2> QED
    BY <2>1, <2>2
<1>3. DOMAIN store' = 1 .. sBlockNumber' /\ store' = [b \in DOMAIN store' |-> store'[b]]
  BY DEF PushBlock
<1> QED
  BY <1>1, <1>2, <1>3 DEF StoreTypes

LEMMA StoreAdd ==
  ASSUME StoreTypes, NEW r \in Nat, NEW c \in Nat, NEW size \in Nat,
         AddToCurrent(r, c, size) \/ AddToNext(r, c, size) \/ AddThrows(size)
  PROVE  StoreTypes'
<1>1. CASE AddToCurrent(r, c, size)
  <2>1. PICK b : b = cache[Len(cache)]
    OBVIOUS
  <2>2. b \in 1 .. sBlockNumber => Added(store[b], r, c, size) \in Contents
    BY ContentTypes DEF StoreTypes
  <2>3. store' = [store EXCEPT ![b] = Added(store[b], r, c, size)]
    BY <1>1, <2>1 DEF AddToCurrent
  <2>4. sBlockNumber' = sBlockNumber
    BY <1>1 DEF AddToCurrent, managerVars
  <2> QED
    BY <2>2, <2>3, <2>4, StoreWrite
<1>2. CASE AddToNext(r, c, size)
  <2>1. Opened(r, c, size) \in Contents
    BY ContentTypes
  <2> QED
    BY <1>2, <2>1, StorePush DEF AddToNext
<1>3. CASE AddThrows(size)
  <2>1. /\ sBlockNumber' = sBlockNumber
        /\ store' = [store EXCEPT ![cache[Len(cache)]] = Marked(@, "CC")]
    BY <1>3 DEF AddThrows, BM!CreateBlockThrows
  <2> QED
    BY <2>1, StoreMark
<1> QED
  BY <1>1, <1>2, <1>3

LEMMA StoreAppend ==
  ASSUME StoreTypes, BM!CreateBlock, NEW content \in Contents,
         NEW contents \in [1 .. sBlockNumber -> Contents],
         store' = Append(contents, content)
  PROVE  StoreTypes'
<1>1. sBlockNumber' = sBlockNumber + 1 /\ sBlockNumber \in Nat
  BY DEF BM!CreateBlock, StoreTypes
<1>2. contents \in Seq(Contents) /\ Len(contents) = sBlockNumber
  BY <1>1
<1>3. store' \in Seq(Contents) /\ Len(store') = sBlockNumber'
  BY <1>1, <1>2
<1>4. store' \in [1 .. Len(store') -> Contents]
  BY <1>3, LenProperties
<1> QED
  BY <1>1, <1>3, <1>4 DEF StoreTypes

(* Whose values are copied.                                                *)
LEMMA SortSizes ==
  ASSUME InputTypes, PlaceTypes, SortCopying
  PROVE  Row \in Nat /\ SortSize \in Nat
<1>1. Row \in RowNumbers
  BY RowType DEF SortCopying, InputTypes
<1>2. Cell(Row, col) \in CellValues
  BY <1>1, CellTypes DEF SortCopying, InputTypes
<1> QED
  BY <1>1, <1>2, StatementTypes DEF SortSize, CellValues, RowNumbers, InputTypes

LEMMA ItemSizes ==
  ASSUME InputTypes, PlaceTypes, EvaluatingItem
  PROVE  Row \in Nat /\ ItemSize \in Nat
<1>1. Row \in RowNumbers
  BY RowType DEF EvaluatingItem, InputTypes
<1>2. List[col] \in Columns
  <2>1. List \in Seq(Columns)
    BY StatementsAssumption
    DEF EvaluatingItem, Projecting, InputTypes, List, Columns, Width, ColumnsOf
  <2> QED
    BY <2>1 DEF EvaluatingItem, Items
<1>3. Cell(Row, List[col]) \in CellValues
  BY <1>1, <1>2, CellTypes DEF InputTypes
<1> QED
  BY <1>1, <1>3, StatementTypes DEF ItemSize, CellValues, RowNumbers, InputTypes

LEMMA FunctionTypes ==
  ASSUME statement \in Statements, Grouping \/ Aggregating
  PROVE  /\ Functions \in Seq(FunctionsOn(Columns))
         /\ Results \in Seq(DOMAIN Functions) \ {<<>>}
BY StatementsAssumption
DEF Grouping, Aggregating, Functions, Results, Columns, ColumnsOf, Width

LEMMA ResultSizes ==
  ASSUME InputTypes, PlaceTypes, GroupTypes, WritingResult, Grouping \/ Aggregating
  PROVE  ResultSize \in Nat
<1>1. Results[col] \in DOMAIN Functions
  BY FunctionTypes DEF InputTypes, WritingResult
<1>2. groups[target.group].functions \in [DOMAIN Functions -> Accumulators]
  <2>1. groups[target.group] \in GroupRecords
    BY DEF GroupTypes, WritingResult, Writing
  <2> QED
    BY <2>1 DEF GroupRecords
<1>3. PICK a \in Accumulators : a = groups[target.group].functions[Results[col]]
  BY <1>1, <1>2
<1>4. Finalized(a).size = a.value.size
  BY <1>3 DEF Finalized, Average, Accumulators, CellValues
<1>5. a.value.size \in Nat
  BY <1>3 DEF Accumulators, CellValues
<1> QED
  BY <1>3, <1>4, <1>5 DEF ResultSize, Result

LEMMA SortStore == InputTypes /\ PlaceTypes /\ StoreTypes /\ SortNext => StoreTypes'
<1> SUFFICES ASSUME InputTypes, PlaceTypes, StoreTypes, SortNext PROVE StoreTypes'
  OBVIOUS
<1>1. CASE SortFirstBlock
  BY <1>1, StorePush, ContentTypes DEF SortFirstBlock
<1>2. CASE SortCopy
  <2>1. Row \in Nat /\ SortSize \in Nat /\ col \in Nat
    BY <1>2, SortSizes DEF SortCopy, PlaceTypes
  <2> QED
    BY <1>2, <2>1, StoreAdd DEF SortCopy
<1>3. CASE SortCopyThrows
  <2>1. Row \in Nat /\ SortSize \in Nat /\ col \in Nat
    BY <1>3, SortSizes DEF SortCopyThrows, PlaceTypes
  <2> QED
    BY <1>3, <2>1, StoreAdd DEF SortCopyThrows
<1>4. CASE SortEndRow
  BY <1>4, StoreMark DEF SortEndRow, WriteMark, managerVars
<1>5. CASE SortEndOfInput
  BY <1>5, StoreMark DEF SortEndOfInput, WriteMark, managerVars
<1>6. CASE \/ SortFirstBlockThrows \/ SortPull \/ Sort \/ SortUndefined \/ SortThrows
           \/ SortedRow \/ SortedRowThrows \/ SortedEnd
  BY <1>6 DEF SortFirstBlockThrows, BM!CreateBlockThrows, SortPull, Sort, SortUndefined,
    SortThrows, SortedRow, SortedRowThrows, SortedEnd, copyVars, managerVars, StoreTypes
<1> QED
  BY <1>1, <1>2, <1>3, <1>4, <1>5, <1>6 DEF SortNext

LEMMA ProjectStore == InputTypes /\ PlaceTypes /\ StoreTypes /\ ProjectNext => StoreTypes'
<1> SUFFICES ASSUME InputTypes, PlaceTypes, StoreTypes, ProjectNext PROVE StoreTypes'
  OBVIOUS
<1>1. CASE ProjectFirstBlock
  BY <1>1, StorePush, ContentTypes DEF ProjectFirstBlock
<1>2. CASE ProjectItem \/ ProjectItemToNext \/ ProjectItemThrows
  <2>1. Row \in Nat /\ ItemSize \in Nat /\ col \in Nat
    BY <1>2, ItemSizes DEF ProjectItem, ProjectItemToNext, ProjectItemThrows, PlaceTypes
  <2> QED
    BY <1>2, <2>1, StoreAdd DEF ProjectItem, ProjectItemToNext, ProjectItemThrows
<1>3. CASE ProjectEndRow
  BY <1>3, StoreMark DEF ProjectEndRow, WriteMark, managerVars
<1>4. CASE HandLastBlock
  BY <1>4, StoreMark DEF HandLastBlock, managerVars
<1>5. CASE NextItemBlock \/ ReleaseRead
  BY <1>5 DEF NextItemBlock, ReleaseRead, BM!Release, managerVars, BM!managerVars, StoreTypes
<1>6. CASE \/ ProjectFirstBlockThrows \/ ProjectRow \/ HandFullBlock \/ ProjectedRowThrows
           \/ ProjectedEnd \/ ProjectedRow \/ ReadItem \/ ReadItemThrows \/ UseProjectedRow
  BY <1>6 DEF ProjectFirstBlockThrows, BM!CreateBlockThrows, ProjectRow, HandFullBlock,
    ProjectedRowThrows, ProjectedEnd, ProjectedRow, ReadItem, ReadItemThrows,
    UseProjectedRow, copyVars, managerVars, StoreTypes
<1> QED
  BY <1>1, <1>2, <1>3, <1>4, <1>5, <1>6 DEF ProjectNext

LEMMA GroupStore ==
  Stages /\ InputTypes /\ PlaceTypes /\ GroupTypes /\ StoreTypes /\ GroupNext => StoreTypes'
<1> SUFFICES ASSUME Stages, InputTypes, PlaceTypes, GroupTypes, StoreTypes, GroupNext
             PROVE  StoreTypes'
  OBVIOUS
<1>1. CASE GroupFirstBlock
  BY <1>1, StorePush, ContentTypes DEF GroupFirstBlock
<1>2. ASSUME NEW content \in Contents
      PROVE  WithFunction(content) \in Contents
  BY FunctionsAssumption DEF WithFunction, Contents
<1>3. CASE GroupFirstFunctionBlock \/ CloneToNextBlock
  <2>1. PICK content \in Contents : PushFunctionBlock(content)
    BY <1>2, <1>3, ContentTypes DEF GroupFirstFunctionBlock, CloneToNextBlock
  <2> QED
    BY <2>1, StoreAppend DEF PushFunctionBlock, StoreTypes
<1>4. CASE CloneFunction
  <2>1. PICK b : b = Last(functionBlocks)
    OBVIOUS
  <2>2. b \in 1 .. sBlockNumber => WithFunction(store[b]) \in Contents
    BY <1>2 DEF StoreTypes
  <2> QED
    BY <1>4, <2>1, <2>2, StoreWrite DEF CloneFunction, managerVars
<1>5. CASE SpareBlock
  BY <1>5, StoreAppend, ContentTypes DEF SpareBlock, AppendBlock, StoreTypes
<1>6. ASSUME WritingResult, Grouping \/ Aggregating, NEW content \in Contents
      PROVE  WithResult(content) \in Contents
  BY <1>6, ResultSizes, ContentTypes DEF WithResult, PlaceTypes
<1>7. CASE AddResult
  <2>0. Grouping \/ Aggregating
    BY <1>7, Kinds DEF Stages, Ends, AddResult, WritingResult, Writing
  <2>1. PICK b : b = ResultBlock
    OBVIOUS
  <2>2. b \in 1 .. sBlockNumber => WithResult(store[b]) \in Contents
    BY <1>6, <1>7, <2>0 DEF StoreTypes, AddResult
  <2> QED
    BY <1>7, <2>1, <2>2, StoreWrite DEF AddResult, managerVars
<1>8. CASE ResultToNextBlock
  <2> DEFINE b == ResultBlock
             d == cache[target.block + 1]
             next(content) == IF Lost(ResultSize) THEN content ELSE WithResult(content)
             contents == [store EXCEPT ![b] = Marked(@, "CC"), ![d] = next(@)]
  <2>1. BM!CreateBlock /\ store' = Append(contents, Empty)
    BY <1>8 DEF ResultToNextBlock, AppendBlock
  <2>2. \A content \in Contents : Marked(content, "CC") \in Contents /\ next(content) \in Contents
    BY <1>6, <1>8, ContentTypes DEF ResultToNextBlock
  <2> HIDE DEF b, d, next
  <2>3. contents \in [1 .. sBlockNumber -> Contents]
    BY <2>2 DEF StoreTypes
  <2> HIDE DEF contents
  <2> QED
    BY <2>1, <2>3, StoreAppend, ContentTypes
<1>9. CASE EndGroup \/ EndGroups
  BY <1>9, StoreMark DEF EndGroup, EndGroups, managerVars
<1>10. CASE \/ GroupStep \/ GroupStepOnReleased \/ GroupPullNew \/ EnterGroup
            \/ GroupEndOfInput \/ ResultDropped \/ ReadReleasedResult \/ GroupBlockThrows
            \/ GroupedRow \/ GroupedRowThrows \/ GroupedEnd \/ ReleaseFunctionBlock
  BY <1>10 DEF GroupStep, GroupStepOnReleased, GroupPullNew, EnterGroup, GroupEndOfInput,
    ResultDropped, ReadReleasedResult, GroupBlockThrows, GroupedRow, GroupedRowThrows,
    GroupedEnd, ReleaseFunctionBlock, BM!CreateBlockThrows, BM!Release, BM!managerVars,
    copyVars, managerVars, StoreTypes
<1> QED
  BY <1>1, <1>3, <1>4, <1>5, <1>7, <1>8, <1>9, <1>10 DEF GroupNext

(* Positions read back.                                                    *)
LEMMA ValuePlaces ==
  ASSUME NEW p \in Places, NEW n \in Nat, NEW c \in 1 .. n
  PROVE  ValuePositions(p, n)[c] \in Places
<1> DEFINE place == ValuePositions(p, n)
           S == {k \in Nat : k \in 1 .. n => place[k] \in Places}
<1>1. \A k \in 1 .. n :
        place[k] = IF k = 1 THEN Skipped(p)
                  ELSE IF TagAt(place[k - 1]) # "AA" THEN place[k - 1]
                       ELSE Skipped(After(place[k - 1]))
  BY ReadsOn
<1> HIDE DEF place
<1>2. \A q \in Places : Skipped(q) \in Places /\ Skipped(After(q)) \in Places
  BY DEF Skipped, After, Places
<1>3. 0 \in S
  OBVIOUS
<1>4. ASSUME NEW k \in Nat, k \in S PROVE k + 1 \in S
  <2>1. CASE k = 0
    BY <1>1, <1>2, <2>1
  <2>2. CASE k # 0
    <3> SUFFICES ASSUME k + 1 \in 1 .. n PROVE place[k + 1] \in Places
      OBVIOUS
    <3>1. k \in 1 .. n /\ (k + 1) - 1 = k /\ k + 1 # 1
      BY <2>2
    <3>2. place[k] \in Places
      BY <1>4, <3>1
    <3> QED
      BY <1>1, <1>2, <3>1, <3>2
  <2> QED
    BY <2>1, <2>2
<1> HIDE DEF S
<1>5. Nat \subseteq S
  BY <1>3, <1>4, NatSetInduction
<1> QED
  BY <1>5 DEF S, place

LEMMA RowEndPlace ==
  ASSUME InputTypes, PlaceTypes, GroupedRow
  PROVE  at' \in Places /\ at' # Nowhere
<1>1. PICK n \in Nat \ {0} : n = Len(Results)
  BY FunctionTypes DEF InputTypes, GroupedRow, ReadingGroups
<1>2. GroupStart \in Places
  BY DEF PlaceTypes, Places, GroupStart, After
<1>3. PICK p \in Places : p = ValuePositions(GroupStart, Len(Results))[Len(Results)]
  BY <1>1, <1>2, ValuePlaces
<1>4. at' = After(p)
  BY <1>3 DEF GroupedRow
<1> QED
  BY <1>4 DEF After, Places, Nowhere

LEMMA PlaceTypesStep == InputTypes /\ PlaceTypes /\ [Next]_vars => PlaceTypes'
<1> SUFFICES ASSUME InputTypes, PlaceTypes, [Next]_vars PROVE PlaceTypes'
  OBVIOUS
<1>1. col' \in Nat \ {0}
  BY InputSteps DEF ColumnStep, PlaceTypes
<1>2. target' \in [block : Nat \ {0}, group : Nat \ {0}]
  <2>1. target' \in {target, [target EXCEPT !.block = @ + 1], [target EXCEPT !.group = @ + 1]}
    BY DEF Next, ownVars, vars, Stopped, GroupNext, GroupFirstBlock, GroupFirstFunctionBlock,
      GroupStep, GroupStepOnReleased, GroupPullNew, CloneFunction, CloneToNextBlock,
      EnterGroup, GroupEndOfInput, SpareBlock, AddResult, ResultToNextBlock, ResultDropped,
      ReadReleasedResult, EndGroup, EndGroups, GroupBlockThrows, GroupedRow,
      GroupedRowThrows, GroupedEnd, ReleaseFunctionBlock
  <2> QED
    BY <2>1 DEF PlaceTypes
<1>3. at' \in Places
  <2>1. SortNext => at' = at
    BY DEF SortNext, commonVars, SortFirstBlock, SortFirstBlockThrows, SortPull, SortCopy,
      SortCopyThrows, SortEndRow, SortEndOfInput, Sort, SortUndefined, SortThrows, SortedRow,
      SortedRowThrows, SortedEnd
  <2>2. GroupNext => at' = at \/ GroupedRow \/ at' = Start
    BY DEF commonVars, GroupNext, GroupFirstBlock, GroupFirstFunctionBlock,
      GroupStep, GroupStepOnReleased, GroupPullNew, CloneFunction, CloneToNextBlock,
      EnterGroup, GroupEndOfInput, SpareBlock, AddResult, ResultToNextBlock, ResultDropped,
      ReadReleasedResult, EndGroup, EndGroups, GroupBlockThrows, GroupedRow,
      GroupedRowThrows, GroupedEnd, ReleaseFunctionBlock
  <2>3. ProjectNext => at' \in {at, [block |-> 1, offset |-> 0], [at EXCEPT !.offset = Begins],
                                [at EXCEPT !.offset = @ + 1]}
    BY DEF ProjectNext, commonVars, ProjectFirstBlock, ProjectFirstBlockThrows, ProjectRow,
      ProjectItem, ProjectItemToNext, ProjectItemThrows, ProjectEndRow, Handed,
      HandFullBlock, HandLastBlock, ProjectedRowThrows, ProjectedEnd, ProjectedRow,
      ReadItem, NextItemBlock, ReadItemThrows, UseProjectedRow, ReleaseRead
  <2>4. InputThrows \/ Abandon \/ ReleaseBlocks \/ Close \/ UNCHANGED vars => at' = at
    BY DEF InputThrows, Abandon, ReleaseBlocks, Close, commonVars, vars
  <2>5. Begins \in Nat
    BY DEF Begins, PlaceTypes, Places
  <2>6. ProjectNext => at' \in Places
    BY <2>3, <2>5 DEF PlaceTypes, Places
  <2>7. at \in Places /\ Start \in Places
    BY DEF PlaceTypes, Places, Start
  <2>8. GroupNext => at' \in Places
    BY <2>2, <2>7, RowEndPlace
  <2> QED
    BY <2>1, <2>4, <2>6, <2>7, <2>8 DEF Next, Stopped
<1> QED
  BY <1>1, <1>2, <1>3 DEF PlaceTypes

(* The functions keep values of the rows.                                  *)
LEMMA StepTypes ==
  ASSUME NEW a \in Accumulators, NEW v \in CellValues, NEW r \in Nat
  PROVE  Step(a, v, r) \in Accumulators
<1>1. IntValue(1) \in CellValues
  BY DEF IntValue, CellValues, ValueTypes
<1>2. ASSUME NEW b \in Accumulators, NEW w \in CellValues, NEW s \in Nat
      PROVE  Keep(b, w, s) \in Accumulators /\ Disconnected(b) \in Accumulators
  BY DEF Keep, Disconnected, Accumulators
<1>3. \A w \in CellValues : Plus(a.value, w) \in CellValues
  BY DEF Plus, CellValues, Accumulators
<1>4. \A w \in CellValues : Summed(a, w) \in Accumulators
  BY <1>2, <1>3 DEF Summed, Accumulators
<1>5. RowCountStep(a) \in Accumulators /\ CountStep(a) \in Accumulators
  BY <1>1, <1>3, <1>4 DEF RowCountStep, CountStep, Accumulators
<1>6. AvgStep(a, v) \in Accumulators
  <2>1. PICK b \in Accumulators : b = Summed(a, v)
    BY <1>4
  <2> QED
    BY <2>1 DEF AvgStep, Accumulators
<1>7. ASSUME NEW better PROVE Best(a, v, r, better) \in Accumulators
  BY <1>2 DEF Best
<1>8. /\ MinStep(a, v, r) \in Accumulators /\ MaxStep(a, v, r) \in Accumulators
      /\ ArbitraryStep(a, v) \in Accumulators /\ PaththroughStep(a, v) \in Accumulators
  BY <1>2, <1>7 DEF MinStep, MaxStep, ArbitraryStep, PaththroughStep
<1>9. a.function \in FunctionNames
  BY DEF Accumulators
<1> QED
  BY <1>4, <1>5, <1>6, <1>8, <1>9 DEF Step, StepKnown, FunctionNames

LEMMA SteppedTypes ==
  ASSUME statement \in Statements, Grouping \/ Aggregating, NEW r \in RowNumbers,
         NEW functions \in [DOMAIN Functions -> Accumulators]
  PROVE  Stepped(functions, r) \in [DOMAIN Functions -> Accumulators]
<1>1. ASSUME NEW f \in DOMAIN Functions
      PROVE  Step(functions[f], Argument(f, r), r) \in Accumulators
  <2>1. Functions[f].column \in Columns
    <3>1. Functions[f] \in FunctionsOn(Columns)
      BY FunctionTypes
    <3> QED
      BY <3>1 DEF FunctionsOn
  <2>2. Argument(f, r) \in CellValues
    BY <2>1, CellTypes DEF Argument
  <2> QED
    BY <2>2, StepTypes, StatementTypes DEF RowNumbers
<1> QED
  BY <1>1 DEF Stepped

LEMMA BeginTypes ==
  ASSUME statement \in Statements, Grouping \/ Aggregating
  PROVE  Begin \in [DOMAIN Functions -> Accumulators]
<1>1. ASSUME NEW f \in FunctionsOn(Columns)
      PROVE  Begun(f) \in Accumulators
  BY DEF Begun, Accumulators, CellValues, FunctionsOn, FunctionNames,
    NullOf, IntValue, ValueTypes
<1>2. \A f \in DOMAIN Functions : Functions[f] \in FunctionsOn(Columns)
  BY FunctionTypes
<1> QED
  BY <1>1, <1>2 DEF Begin

LEMMA KeyTypes ==
  ASSUME statement \in Statements, Grouping, NEW r \in RowNumbers
  PROVE  Key(r) \in Seq(CellValues)
<1>1. statement.keys \in Seq(Columns)
  BY StatementsAssumption DEF Grouping, Columns, ColumnsOf, Width
<1>2. \A k \in DOMAIN statement.keys : Cell(r, statement.keys[k]) \in CellValues
  BY <1>1, CellTypes
<1> QED
  BY <1>1, <1>2 DEF Key

LEMMA GroupTypesStep ==
  Stages /\ InputTypes /\ GroupTypes /\ [Next]_vars => GroupTypes'
<1> SUFFICES ASSUME Stages, InputTypes, GroupTypes, [Next]_vars, (Grouping \/ Aggregating)'
             PROVE  (groups \in Seq(GroupRecords))'
  BY DEF GroupTypes
<1>a. statement' = statement
  BY InputSteps DEF InputStep
<1>b. Grouping \/ Aggregating
  BY <1>a DEF Grouping, Aggregating
<1>c. GroupRecords' = GroupRecords
  BY <1>a DEF GroupRecords, RowNumbers, Rows, Functions
<1>1. groups \in Seq(GroupRecords)
  BY <1>b DEF GroupTypes
<1>2. CASE GroupFirstBlock
  <2> DEFINE g == [key |-> <<>>, members |-> {}, functions |-> Begin]
  <2>1. g \in GroupRecords
    <3>1. <<>> \in Seq(CellValues) /\ {} \in SUBSET RowNumbers
      OBVIOUS
    <3> QED
      BY <1>b, <3>1, BeginTypes DEF GroupRecords, InputTypes
  <2> HIDE DEF g
  <2>2. groups' = <<g>> \/ groups' = groups
    BY <1>2 DEF GroupFirstBlock, g
  <2>3. <<g>> \in Seq(GroupRecords)
    BY <2>1
  <2> QED
    BY <1>c, <1>1, <2>2, <2>3
<1>3. CASE GroupStep
  <2>1. PICK r \in RowNumbers : r = Pulled.row
    BY <1>3, RowTaken DEF GroupStep
  <2>2. PICK g : groups' = [groups EXCEPT ![g].members = @ \cup {r},
                                          ![g].functions = Stepped(@, r)]
    BY <1>3, <2>1 DEF GroupStep
  <2>3. ASSUME NEW h \in GroupRecords
        PROVE  [key |-> h.key, members |-> h.members \cup {r},
                functions |-> Stepped(h.functions, r)] \in GroupRecords
    <3>1. h.functions \in [DOMAIN Functions -> Accumulators] /\ h.members \cup {r} \in SUBSET RowNumbers
      BY DEF GroupRecords
    <3>2. Stepped(h.functions, r) \in [DOMAIN Functions -> Accumulators]
      BY <1>b, <3>1, SteppedTypes DEF InputTypes
    <3> QED
      BY <3>1, <3>2 DEF GroupRecords
  <2>4. ASSUME NEW k \in DOMAIN groups
        PROVE  groups'[k] \in GroupRecords
    <3>1. PICK h \in GroupRecords : h = groups[k]
      BY <1>1
    <3>2. CASE k = g
      <4>1. groups'[k] = [h EXCEPT !.members = @ \cup {r}, !.functions = Stepped(@, r)]
        BY <1>1, <2>2, <3>1, <3>2
      <4>2. groups'[k] = [key |-> h.key, members |-> h.members \cup {r},
                          functions |-> Stepped(h.functions, r)]
        BY <4>1 DEF GroupRecords
      <4> QED
        BY <2>3, <4>2
    <3>3. CASE k # g
      BY <1>1, <2>2, <3>1, <3>3
    <3> QED
      BY <3>2, <3>3
  <2>5. DOMAIN groups' = 1 .. Len(groups) /\ Len(groups) \in Nat
    BY <1>1, <2>2
  <2>6. groups' = [k \in 1 .. Len(groups) |-> groups'[k]]
    BY <2>2, <2>5
  <2> QED
    BY <1>c, <1>1, <2>4, <2>5, <2>6
<1>4. CASE EnterGroup
  <2>1. pc = "new" /\ Row \in RowNumbers
    BY <1>4, RowType DEF EnterGroup, InputTypes
  <2>2. Grouping
    BY <2>1, Kinds DEF Stages, Ends
  <2> DEFINE g == [key |-> Key(Row), members |-> {Row}, functions |-> Stepped(Begin, Row)]
  <2>3. g \in GroupRecords
    BY <2>1, <2>2, KeyTypes, BeginTypes, SteppedTypes DEF GroupRecords, InputTypes
  <2> HIDE DEF g
  <2>4. groups' = Append(groups, g)
    BY <1>4 DEF EnterGroup, g
  <2> QED
    BY <1>c, <1>1, <2>3, <2>4
<1>5. CASE GroupEndOfInput
  <2>1. groups' \in Orders(groups)
    BY <1>5 DEF GroupEndOfInput
  <2>2. PICK f \in [DOMAIN groups -> DOMAIN groups] : groups' = [k \in DOMAIN groups |-> groups[f[k]]]
    BY <2>1 DEF Orders
  <2> QED
    BY <1>c, <1>1, <2>2
<1>6. GroupNext => \/ GroupFirstBlock \/ GroupStep \/ EnterGroup \/ GroupEndOfInput
                   \/ groups' = groups
  BY DEF GroupNext, GroupFirstFunctionBlock, GroupStepOnReleased, GroupPullNew,
    CloneFunction, CloneToNextBlock, SpareBlock, AddResult, ResultToNextBlock,
    ResultDropped, ReadReleasedResult, EndGroup, EndGroups, GroupBlockThrows, GroupedRow,
    GroupedRowThrows, GroupedEnd, ReleaseFunctionBlock
<1>7. ~ GroupNext => groups' = groups
  BY DEF Next, ownVars, vars, Stopped
<1> QED
  BY <1>1, <1>c, <1>2, <1>3, <1>4, <1>5, <1>6, <1>7

TypeIInv == Stages /\ InputTypes /\ StoreTypes /\ PlaceTypes /\ GroupTypes

LEMMA TypesBegin == Init => TypeIInv
<1> SUFFICES ASSUME Init PROVE TypeIInv
  OBVIOUS
<1>1. /\ Len(statement.rows) \in Nat /\ Len(statement.more) \in Nat
      /\ statement.offset \in Nat /\ statement.limit \in Int /\ statement.held \in Nat
  BY StatementTypes DEF Init, CommonInit
<1>2. Stages
  <2>1. statement \in Statements /\ pc = "first" /\ outcome = "open"
    BY DEF Init, CommonInit
  <2>2. "first" \in StagesOf(statement.kind)
    BY <2>1, Kinds
  <2> QED
    BY <2>1, <2>2 DEF Stages, Ends
<1>3. InputTypes
  <2>1. in = [limit |-> IF statement.limit < 0 THEN -1 ELSE statement.limit + 1,
              offset |-> statement.offset, pos |-> 0, second |-> 0,
              firstEnded |-> FALSE, ends |-> 0]
    BY DEF Init, CommonInit
  <2>2. in \in InputStates(Len(statement.rows), Len(statement.more))
    BY <1>1, <2>1 DEF InputStates
  <2> QED
    BY <2>2 DEF Init, CommonInit, InputTypes
<1>4. StoreTypes
  BY <1>1, ContentTypes DEF Init, CommonInit, StoreTypes, HeldBefore
<1>5. PlaceTypes
  BY DEF Init, CommonInit, PlaceTypes, Places, Nowhere
<1>6. GroupTypes
  BY DEF Init, GroupTypes
<1> QED
  BY <1>2, <1>3, <1>4, <1>5, <1>6 DEF TypeIInv

LEMMA TypesStep == TypeIInv /\ [Next]_vars => TypeIInv'
<1> SUFFICES ASSUME TypeIInv, [Next]_vars PROVE TypeIInv'
  OBVIOUS
<1>1. StoreTypes'
  <2>1. InputThrows \/ Abandon \/ ReleaseBlocks \/ Close \/ UNCHANGED vars => StoreTypes'
    BY DEF InputThrows, Abandon, ReleaseBlocks, ReleaseNext, BM!Release, BM!managerVars, Close,
      copyVars, managerVars, vars, TypeIInv, StoreTypes
  <2> QED
    BY <2>1, SortStore, ProjectStore, GroupStore DEF TypeIInv, Next, Stopped
<1> QED
  BY <1>1, StagesStep, InputSteps, InputTypesStep, PlaceTypesStep, GroupTypesStep DEF TypeIInv
-----------------------------------------------------------------------------
(***************************************************************************)
(* The blocks of an operator that keeps rows: those of its iterator and    *)
(* those for functions.                                                    *)
(***************************************************************************)
NewerBlocks == statement.held + 1 .. sBlockNumber
Ledger ==
  /\ statement.held <= sBlockNumber
  /\ cache \in Seq({NoBlock} \cup NewerBlocks)
  /\ functionBlocks \in Seq(NewerBlocks)
  /\ \A i, j \in DOMAIN cache : cache[i] = cache[j] => i = j \/ cache[i] = NoBlock
  /\ \A i, j \in DOMAIN functionBlocks : functionBlocks[i] = functionBlocks[j] => i = j
  /\ \A i \in DOMAIN cache, j \in DOMAIN functionBlocks : cache[i] # functionBlocks[j]
  /\ blocks = HeldBefore \cup ({cache[i] : i \in DOMAIN cache} \ {NoBlock})
                \cup {functionBlocks[i] : i \in DOMAIN functionBlocks}

LEMMA LedgerSame ==
  ASSUME Ledger,
         UNCHANGED <<statement, sBlockNumber, blocks, cache, functionBlocks>>
  PROVE  Ledger'
BY DEF Ledger, NewerBlocks, HeldBefore

LEMMA LedgerPush ==
  ASSUME Ledger, statement.held \in Nat, sBlockNumber \in Nat, BM!CreateBlock,
         cache' = Append(cache, sBlockNumber'), UNCHANGED <<statement, functionBlocks>>
  PROVE  Ledger'
<1> DEFINE n == sBlockNumber + 1
<1>1. sBlockNumber' = n /\ blocks' = blocks \cup {n} /\ n \in Nat /\ cache' = Append(cache, n)
  BY DEF BM!CreateBlock
<1>2. NewerBlocks \subseteq NewerBlocks' /\ n \in NewerBlocks' /\ n \notin NewerBlocks /\ n # NoBlock
  BY <1>1 DEF Ledger, NewerBlocks, NoBlock, BM!NoBlock
<1>3. cache' \in Seq({NoBlock} \cup NewerBlocks') /\ functionBlocks' \in Seq(NewerBlocks')
  BY <1>1, <1>2 DEF Ledger
<1>4. /\ Len(cache) \in Nat /\ DOMAIN cache = 1 .. Len(cache)
      /\ DOMAIN cache' = 1 .. Len(cache) + 1
      /\ cache'[Len(cache) + 1] = n
      /\ \A i \in DOMAIN cache : cache'[i] = cache[i] /\ cache[i] # n
  BY <1>1, <1>2 DEF Ledger
<1>5. \A i \in DOMAIN functionBlocks : functionBlocks[i] # n
  BY <1>2 DEF Ledger
<1> HIDE DEF n
<1>6. {cache'[i] : i \in DOMAIN cache'} = {cache[i] : i \in DOMAIN cache} \cup {n}
  BY <1>4
<1>7. \A i, j \in DOMAIN cache' : cache'[i] = cache'[j] => i = j \/ cache'[i] = NoBlock
  BY <1>4 DEF Ledger
<1>8. \A i \in DOMAIN cache', j \in DOMAIN functionBlocks : cache'[i] # functionBlocks[j]
  BY <1>4, <1>5 DEF Ledger
<1>9. statement.held <= sBlockNumber'
  BY <1>1 DEF Ledger, n
<1>10. HeldBefore' = HeldBefore
  BY DEF HeldBefore
<1>11. blocks' = HeldBefore' \cup ({cache'[i] : i \in DOMAIN cache'} \ {NoBlock})
                \cup {functionBlocks'[i] : i \in DOMAIN functionBlocks'}
  BY <1>1, <1>2, <1>6, <1>10 DEF Ledger
<1> QED
  BY <1>3, <1>7, <1>8, <1>9, <1>11 DEF Ledger

LEMMA LedgerPushFunctions ==
  ASSUME Ledger, statement.held \in Nat, sBlockNumber \in Nat, BM!CreateBlock,
         functionBlocks' = Append(functionBlocks, sBlockNumber'), UNCHANGED <<statement, cache>>
  PROVE  Ledger'
<1> DEFINE n == sBlockNumber + 1
<1>1. /\ sBlockNumber' = n /\ blocks' = blocks \cup {n} /\ n \in Nat
      /\ functionBlocks' = Append(functionBlocks, n)
  BY DEF BM!CreateBlock
<1>2. NewerBlocks \subseteq NewerBlocks' /\ n \in NewerBlocks' /\ n \notin NewerBlocks /\ n # NoBlock
  BY <1>1 DEF Ledger, NewerBlocks, NoBlock, BM!NoBlock
<1>3. cache' \in Seq({NoBlock} \cup NewerBlocks') /\ functionBlocks' \in Seq(NewerBlocks')
  BY <1>1, <1>2 DEF Ledger
<1>4. /\ Len(functionBlocks) \in Nat /\ DOMAIN functionBlocks = 1 .. Len(functionBlocks)
      /\ DOMAIN functionBlocks' = 1 .. Len(functionBlocks) + 1
      /\ functionBlocks'[Len(functionBlocks) + 1] = n
      /\ \A i \in DOMAIN functionBlocks :
           functionBlocks'[i] = functionBlocks[i] /\ functionBlocks[i] # n
  BY <1>1, <1>2 DEF Ledger
<1>5. \A i \in DOMAIN cache : cache[i] # n
  BY <1>2 DEF Ledger
<1> HIDE DEF n
<1>6. {functionBlocks'[i] : i \in DOMAIN functionBlocks'}
        = {functionBlocks[i] : i \in DOMAIN functionBlocks} \cup {n}
  BY <1>4
<1>7. \A i, j \in DOMAIN functionBlocks' : functionBlocks'[i] = functionBlocks'[j] => i = j
  BY <1>4 DEF Ledger
<1>8. \A i \in DOMAIN cache, j \in DOMAIN functionBlocks' : cache[i] # functionBlocks'[j]
  BY <1>4, <1>5 DEF Ledger
<1>9. statement.held <= sBlockNumber'
  BY <1>1 DEF Ledger, n
<1>10. HeldBefore' = HeldBefore
  BY DEF HeldBefore
<1>11. blocks' = HeldBefore' \cup ({cache'[i] : i \in DOMAIN cache'} \ {NoBlock})
                \cup {functionBlocks'[i] : i \in DOMAIN functionBlocks'}
  BY <1>1, <1>2, <1>6, <1>10 DEF Ledger
<1> QED
  BY <1>3, <1>7, <1>8, <1>9, <1>11 DEF Ledger

LEMMA LedgerRelease ==
  ASSUME Ledger, statement.held \in Nat, sBlockNumber \in Nat, ReleaseNext,
         UNCHANGED <<statement, functionBlocks>>
  PROVE  Ledger' /\ Len(cache') = Len(cache)
<1>1. PICK i \in DOMAIN cache :
        /\ cache[i] # NoBlock /\ BM!Release(cache[i])
        /\ cache' = [cache EXCEPT ![i] = NoBlock]
  BY DEF ReleaseNext
<1>2. blocks' = blocks \ {cache[i]} /\ sBlockNumber' = sBlockNumber
  BY <1>1 DEF BM!Release, NoBlock
<1>3. HeldBefore' = HeldBefore /\ NewerBlocks' = NewerBlocks /\ cache[i] \notin HeldBefore
  BY <1>1, <1>2 DEF HeldBefore, NewerBlocks, Ledger
<1>4. /\ DOMAIN cache' = DOMAIN cache /\ cache' \in Seq({NoBlock} \cup NewerBlocks)
      /\ cache'[i] = NoBlock /\ Len(cache') = Len(cache)
      /\ \A k \in DOMAIN cache \ {i} : cache'[k] = cache[k]
  BY <1>1 DEF Ledger
<1>5. \A k, j \in DOMAIN cache' : cache'[k] = cache'[j] => k = j \/ cache'[k] = NoBlock
  BY <1>4 DEF Ledger
<1>6. \A k \in DOMAIN cache', j \in DOMAIN functionBlocks : cache'[k] # functionBlocks[j]
  BY <1>4 DEF Ledger, NewerBlocks, NoBlock, BM!NoBlock
<1>7. blocks' = HeldBefore \cup ({cache'[k] : k \in DOMAIN cache'} \ {NoBlock})
                \cup {functionBlocks[k] : k \in DOMAIN functionBlocks}
  BY <1>1, <1>2, <1>3, <1>4 DEF Ledger
<1> QED
  BY <1>2, <1>3, <1>4, <1>5, <1>6, <1>7 DEF Ledger

LEMMA LedgerReleaseFunctions ==
  ASSUME Ledger, statement.held \in Nat, sBlockNumber \in Nat, functionBlocks # <<>>,
         BM!Release(Head(functionBlocks)), functionBlocks' = Tail(functionBlocks),
         UNCHANGED <<statement, cache>>
  PROVE  Ledger'
<1>1. PICK b \in NewerBlocks : b = functionBlocks[1] /\ b = Head(functionBlocks)
  BY DEF Ledger
<1>2. b # NoBlock /\ b \notin HeldBefore
  BY <1>1 DEF NewerBlocks, HeldBefore, NoBlock, BM!NoBlock
<1>3. blocks' = blocks \ {b} /\ sBlockNumber' = sBlockNumber
  BY <1>1, <1>2 DEF BM!Release, NoBlock
<1>4. HeldBefore' = HeldBefore /\ NewerBlocks' = NewerBlocks
  BY <1>3 DEF HeldBefore, NewerBlocks
<1>5. PICK n \in Nat : n + 1 = Len(functionBlocks) /\ DOMAIN functionBlocks = 1 .. n + 1
  BY DEF Ledger
<1>6. /\ functionBlocks' \in Seq(NewerBlocks) /\ DOMAIN functionBlocks' = 1 .. n
      /\ \A k \in 1 .. n : functionBlocks'[k] = functionBlocks[k + 1]
  BY <1>5 DEF Ledger
<1>7. {functionBlocks'[k] : k \in 1 .. n} = {functionBlocks[k] : k \in 1 .. n + 1} \ {b}
  <2>1. ASSUME NEW k \in 1 .. n
        PROVE  functionBlocks'[k] \in {functionBlocks[j] : j \in 1 .. n + 1} \ {b}
    BY <1>1, <1>5, <1>6 DEF Ledger
  <2>2. ASSUME NEW k \in 1 .. n + 1, functionBlocks[k] # b
        PROVE  functionBlocks[k] \in {functionBlocks'[j] : j \in 1 .. n}
    <3>1. k # 1 /\ k - 1 \in 1 .. n /\ (k - 1) + 1 = k
      BY <1>1, <2>2
    <3> QED
      BY <1>6, <3>1
  <2> QED
    BY <2>1, <2>2
<1>8. ASSUME NEW k \in 1 .. n, NEW j \in 1 .. n, functionBlocks'[k] = functionBlocks'[j]
      PROVE  k = j
  <2>1. functionBlocks[k + 1] = functionBlocks[j + 1] /\ {k + 1, j + 1} \subseteq 1 .. n + 1
    BY <1>6, <1>8
  <2>2. k + 1 = j + 1
    BY <1>5, <2>1 DEF Ledger
  <2> QED
    BY <2>2
<1>9. \A i \in DOMAIN cache, j \in 1 .. n : cache[i] # functionBlocks'[j]
  BY <1>5, <1>6 DEF Ledger
<1>10. \A i \in DOMAIN cache : cache[i] # b
  BY <1>1, <1>5 DEF Ledger
<1>11. blocks' = HeldBefore \cup ({cache[k] : k \in DOMAIN cache} \ {NoBlock})
                \cup {functionBlocks'[k] : k \in 1 .. n}
  <2>1. blocks = HeldBefore \cup ({cache[k] : k \in DOMAIN cache} \ {NoBlock})
                \cup {functionBlocks[k] : k \in 1 .. n + 1}
    BY <1>5 DEF Ledger
  <2>2. b \notin {cache[k] : k \in DOMAIN cache}
    BY <1>10
  <2> QED
    BY <1>2, <1>3, <1>7, <2>1, <2>2
<1>12. /\ statement.held <= sBlockNumber' /\ cache' = cache
       /\ cache' \in Seq({NoBlock} \cup NewerBlocks')
       /\ \A i, j \in DOMAIN cache : cache[i] = cache[j] => i = j \/ cache[i] = NoBlock
  BY <1>3, <1>4 DEF Ledger
<1>13. \A i, j \in DOMAIN functionBlocks' : functionBlocks'[i] = functionBlocks'[j] => i = j
  BY <1>6, <1>8
<1>15. \A i \in DOMAIN cache', j \in DOMAIN functionBlocks' : cache'[i] # functionBlocks'[j]
  BY <1>6, <1>9, <1>12
<1>16. functionBlocks' \in Seq(NewerBlocks')
  BY <1>4, <1>6
<1>14. blocks' = HeldBefore' \cup ({cache'[k] : k \in DOMAIN cache'} \ {NoBlock})
                \cup {functionBlocks'[k] : k \in DOMAIN functionBlocks'}
  BY <1>4, <1>6, <1>11, <1>12
<1> QED
  BY <1>12, <1>13, <1>14, <1>15, <1>16 DEF Ledger

(* The block of an aggregation is the iterator's once its row is written.  *)
KeepShape ==
  /\ functionBlocks # <<>> => Grouping
  /\ ReadReleased
  /\ pc = "first" => cache = <<>>
  /\ Aggregating =>
       /\ Len(cache) <= 1
       /\ pc = "next" => at # Nowhere
       /\ pc \in Ends /\ at = Nowhere => outcome = "failed" \/ cache = <<>>
  /\ pc = "closed" => (KeepsBlocks => AllReleased) /\ functionBlocks = <<>>
Keeping == Ledger /\ KeepShape

LEMMA KeptReleased ==
  ASSUME TypeIInv, ~ Projecting, Keeping, pc = "closed", blocks # HeldBefore
  PROVE  /\ Aggregating /\ outcome = "failed"
         /\ Cardinality(blocks \ HeldBefore) <= 1
<1>1. functionBlocks = <<>> /\ (KeepsBlocks => AllReleased)
  BY DEF Keeping, KeepShape
<1>2. ~ KeepsBlocks
  <2> SUFFICES ASSUME KeepsBlocks PROVE blocks = HeldBefore
    OBVIOUS
  <2>1. {cache[i] : i \in DOMAIN cache} \subseteq {NoBlock}
    BY <1>1 DEF AllReleased
  <2> QED
    BY <1>1, <2>1 DEF Keeping, Ledger
<1>3. Aggregating /\ at = Nowhere
  BY <1>2, Kinds DEF KeepsBlocks, TypeIInv, Stages
<1>4. Len(cache) <= 1 /\ (outcome = "failed" \/ cache = <<>>)
  BY <1>3 DEF Keeping, KeepShape, Ends
<1>5. cache # <<>>
  <2> SUFFICES ASSUME cache = <<>> PROVE blocks = HeldBefore
    OBVIOUS
  <2> QED
    BY <1>1 DEF Keeping, Ledger
<1>6. \A i \in DOMAIN cache : i = 1
  BY <1>4 DEF Keeping, Ledger
<1>7. blocks \ HeldBefore \subseteq {cache[1]}
  BY <1>1, <1>6 DEF Keeping, Ledger
<1>8. Cardinality(blocks \ HeldBefore) <= 1
  <2>1. IsFiniteSet({cache[1]}) /\ Cardinality({cache[1]}) = 1
    BY FS_Singleton
  <2> QED
    BY <1>7, <2>1, FS_Subset
<1> QED
  BY <1>3, <1>4, <1>5, <1>8

LEMMA SortKeeps ==
  ASSUME TypeIInv, Keeping, SortNext, UNCHANGED <<functionBlocks, reading>>
  PROVE  Keeping'
<1>1. Sorting /\ ~ Grouping /\ ~ Aggregating /\ UNCHANGED statement
  <2>1. Sorting
    BY DEF SortNext, SortFirstBlock, SortFirstBlockThrows, SortPull, SortCopying, SortCopy,
      SortCopyThrows, SortEndRow, SortEndOfInput, Sort, SortUndefined, SortThrows,
      SortedLeft, SortedRow, SortedRowThrows, SortedEnd
  <2> QED
    BY <2>1, Kinds, SortInputStep DEF TypeIInv, Stages, InputStep
<1>2. functionBlocks = <<>> /\ ReadReleased'
  BY <1>1 DEF Keeping, KeepShape, ReadReleased
<1>3. ~ Aggregating' /\ pc' # "closed"
  <2>1. pc' # "closed"
    BY DEF SortNext, Destroy, Crash, GoTo, SortFirstBlock, SortFirstBlockThrows, SortPull,
      SortCopying, SortCopy, SortCopyThrows, SortEndRow, SortEndOfInput, Sort,
      SortUndefined, SortThrows, SortedLeft, SortedRow, SortedRowThrows, SortedEnd
  <2> QED
    BY <1>1, <2>1 DEF Aggregating
<1>4. pc' # "first"
  BY DEF SortNext, Destroy, Crash, GoTo, SortFirstBlock, SortFirstBlockThrows, SortPull,
    SortCopying, SortCopy, SortCopyThrows, SortEndRow, SortEndOfInput, Sort,
    SortUndefined, SortThrows, SortedLeft, SortedRow, SortedRowThrows, SortedEnd
<1>5. KeepShape'
  BY <1>2, <1>3, <1>4 DEF KeepShape
<1>6. \/ UNCHANGED <<sBlockNumber, blocks, cache>>
      \/ BM!CreateBlock /\ cache' = Append(cache, sBlockNumber')
  BY DEF SortNext, copyVars, managerVars, SortFirstBlock, SortFirstBlockThrows,
    BM!CreateBlockThrows, PushBlock, SortPull, SortCopy, AddToCurrent, AddToNext,
    SortCopyThrows, AddThrows, SortEndRow, WriteMark, SortEndOfInput, Sort, SortUndefined,
    SortThrows, SortedRow, SortedRowThrows, SortedEnd
<1>7. Ledger'
  <2>1. statement.held \in Nat /\ sBlockNumber \in Nat
    BY StatementTypes DEF TypeIInv, Stages, StoreTypes
  <2> QED
    BY <1>1, <1>6, <2>1, LedgerSame, LedgerPush DEF Keeping
<1> QED
  BY <1>5, <1>7 DEF Keeping

LEMMA GroupKeeps ==
  ASSUME TypeIInv, Keeping, GroupNext, UNCHANGED reading
  PROVE  Keeping'
<1>1. UNCHANGED statement /\ ReadReleased'
  BY GroupInputStep DEF InputStep, Keeping, KeepShape, ReadReleased
<1>2. statement.held \in Nat /\ sBlockNumber \in Nat
  BY StatementTypes DEF TypeIInv, Stages, StoreTypes
<1>3. \/ UNCHANGED <<sBlockNumber, blocks, cache, functionBlocks>>
      \/ /\ BM!CreateBlock /\ cache' = Append(cache, sBlockNumber') /\ UNCHANGED functionBlocks
         /\ GroupFirstBlock \/ pc = "spare" \/ Grouping
      \/ BM!CreateBlock /\ functionBlocks' = Append(functionBlocks, sBlockNumber')
           /\ UNCHANGED cache /\ pc \in {"functions", "new"}
      \/ ReleaseFunctionBlock
  BY DEF GroupNext, copyVars, managerVars, GroupFirstBlock, PushBlock,
    GroupFirstFunctionBlock, PushFunctionBlock, GroupStep, GroupStepOnReleased,
    GroupPullNew, CloneFunction, Cloning, CloneToNextBlock, EnterGroup, GroupEndOfInput,
    SpareBlock, AppendBlock, AddResult, ResultToNextBlock, ResultDropped,
    ReadReleasedResult, EndGroup, EndGroups, GroupBlockThrows, BM!CreateBlockThrows,
    GroupedRow, GroupedRowThrows, GroupedEnd
<1>4. Ledger'
  <2>1. CASE ReleaseFunctionBlock
    BY <1>1, <1>2, <2>1, LedgerReleaseFunctions DEF ReleaseFunctionBlock, Keeping
  <2> QED
    BY <1>1, <1>2, <1>3, <2>1, LedgerSame, LedgerPush, LedgerPushFunctions DEF Keeping
<1>5. functionBlocks' # <<>> => Grouping'
  <2>1. pc \in {"functions", "new"} => Grouping
    BY Kinds DEF TypeIInv, Stages, Ends
  <2>2. functionBlocks' # <<>> => functionBlocks # <<>> \/ pc \in {"functions", "new"}
    BY <1>3 DEF ReleaseFunctionBlock
  <2> QED
    BY <1>1, <2>1, <2>2 DEF Keeping, KeepShape, Grouping
<1>6. pc' # "first" /\ (pc' = "closed" => pc = "closed")
  BY DEF GroupNext, Destroy, Crash, GoTo, GroupFirstBlock, GroupFirstFunctionBlock, Pulling,
    GroupStep, GroupStepOnReleased, GroupPullNew, Cloning, CloneFunction,
    CloneToNextBlock, EnterGroup, GroupEndOfInput, SpareBlock, WritingResult, Writing,
    AddResult, ResultToNextBlock, ResultDropped, ReadReleasedResult, EndGroup, EndGroups,
    GroupBlockThrows, ReadingGroups, GroupedRow, GroupedRowThrows, GroupedEnd,
    ReleaseFunctionBlock
<1>7. pc' # "closed"
  <2> SUFFICES ASSUME pc = "closed" PROVE FALSE
    BY <1>6
  <2>1. functionBlocks = <<>>
    BY DEF Keeping, KeepShape
  <2>2. ~ ReleaseFunctionBlock
    BY DEF ReleaseFunctionBlock
  <2> QED
    BY <2>2 DEF GroupNext, GroupFirstBlock, GroupFirstFunctionBlock, Pulling, GroupStep,
      GroupStepOnReleased, GroupPullNew, Cloning, CloneFunction, CloneToNextBlock,
      EnterGroup, GroupEndOfInput, SpareBlock, WritingResult, Writing, AddResult,
      ResultToNextBlock, ResultDropped, ReadReleasedResult, EndGroup, EndGroups,
      GroupBlockThrows, AsksForBlock, ReadingGroups, GroupedRow, GroupedRowThrows, GroupedEnd
<1>8. ASSUME Aggregating'
      PROVE  /\ Len(cache') <= 1
             /\ pc' = "next" => at' # Nowhere
             /\ pc' \in Ends /\ at' = Nowhere => outcome' = "failed" \/ cache' = <<>>
  <2>1. /\ Aggregating /\ ~ Grouping /\ functionBlocks = <<>>
        /\ pc \in {"first", "pull", "write", "next", "crashed"} \cup Ends
    BY <1>1, <1>8, Kinds DEF Aggregating, TypeIInv, Stages, Keeping, KeepShape
  <2>2. /\ Len(cache) <= 1 /\ (pc = "next" => at # Nowhere)
        /\ pc \in Ends /\ at = Nowhere => outcome = "failed" \/ cache = <<>>
        /\ pc = "first" => cache = <<>>
    BY <2>1 DEF Keeping, KeepShape
  <2>3. CASE GroupFirstBlock
    BY <2>2, <2>3 DEF GroupFirstBlock, PushBlock, GoTo, Ends
  <2>4. CASE GroupedRow
    BY <2>2, <2>4, RowEndPlace DEF TypeIInv, GroupedRow, ReadingGroups, copyVars, Ends
  <2>5. CASE EndGroups
    BY <2>2, <2>5 DEF EndGroups, GoTo, Start, Nowhere, Ends
  <2>6. CASE GroupedRowThrows \/ GroupedEnd
    BY <2>2, <2>6 DEF GroupedRowThrows, GroupedEnd, ReadingGroups, copyVars, Destroy, GoTo
  <2>7. CASE GroupBlockThrows
    BY <2>1, <2>2, <2>7 DEF GroupBlockThrows, AsksForBlock, Cloning, Destroy, GoTo, Ends
  <2>8. CASE GroupStep \/ GroupStepOnReleased \/ GroupEndOfInput \/ AddResult
             \/ ResultDropped \/ ReadReleasedResult \/ EndGroup
    BY <2>1, <2>2, <2>8 DEF copyVars, Ends, Crash, GoTo, Pulling, GroupStep,
      GroupStepOnReleased, GroupEndOfInput, WritingResult, Writing, AddResult,
      ResultDropped, ReadReleasedResult, EndGroup
  <2>9. GroupPullNew => Grouping
    BY DEF GroupPullNew, Pulling, GroupsFor
  <2>10. ~ \/ GroupFirstFunctionBlock \/ GroupPullNew \/ CloneFunction \/ CloneToNextBlock
           \/ EnterGroup \/ SpareBlock \/ ResultToNextBlock \/ ReleaseFunctionBlock
    BY <2>1, <2>9 DEF Ends, GroupFirstFunctionBlock, CloneFunction, CloneToNextBlock, Cloning,
      EnterGroup, SpareBlock, ResultToNextBlock, ReleaseFunctionBlock
  <2> QED
    BY <2>3, <2>4, <2>5, <2>6, <2>7, <2>8, <2>10 DEF GroupNext
<1>9. KeepShape'
  BY <1>1, <1>5, <1>6, <1>7, <1>8 DEF KeepShape
<1> QED
  BY <1>4, <1>9 DEF Keeping

LEMMA OthersKeep ==
  ASSUME TypeIInv, Keeping, InputThrows \/ Abandon \/ ReleaseBlocks \/ Close, UNCHANGED ownVars
  PROVE  Keeping'
<1>1. UNCHANGED statement /\ ReadReleased' /\ UNCHANGED <<functionBlocks, at>>
  BY DEF InputThrows, Abandon, ReleaseBlocks, Close, commonVars, ownVars, Keeping, KeepShape,
    ReadReleased
<1>2. statement.held \in Nat /\ sBlockNumber \in Nat
  BY StatementTypes DEF TypeIInv, Stages, StoreTypes
<1>3. CASE InputThrows \/ Abandon
  <2>1. /\ UNCHANGED <<sBlockNumber, blocks, cache>>
        /\ pc' = "release" /\ (outcome' = "failed" \/ pc = "next")
    BY <1>3 DEF InputThrows, Abandon, Destroy, GoTo, copyVars, managerVars
  <2>2. Ledger'
    BY <1>1, <2>1, LedgerSame DEF Keeping
  <2> QED
    BY <1>1, <2>1, <2>2 DEF Keeping, KeepShape, Ends, Grouping, Aggregating
<1>4. CASE ReleaseBlocks
  <2>1. Ledger' /\ Len(cache') = Len(cache)
    BY <1>1, <1>2, <1>4, LedgerRelease DEF ReleaseBlocks, Keeping
  <2>2. pc = "release" /\ pc' = pc /\ outcome' = outcome
    BY <1>4 DEF ReleaseBlocks, commonVars
  <2>3. cache = <<>> => cache' = <<>>
    BY <1>4 DEF ReleaseBlocks, ReleaseNext
  <2> QED
    BY <1>1, <2>1, <2>2, <2>3 DEF Keeping, KeepShape, Ends, Grouping, Aggregating
<1>5. CASE Close
  <2>1. /\ UNCHANGED <<sBlockNumber, blocks, cache, outcome>> /\ pc = "release" /\ pc' = "closed"
        /\ (KeepsBlocks => AllReleased) /\ functionBlocks = <<>>
    BY <1>5 DEF Close, GivenBack, GoTo, copyVars, managerVars, commonVars
  <2>2. Ledger'
    BY <1>1, <2>1, LedgerSame DEF Keeping
  <2>3. (KeepsBlocks => AllReleased)'
    BY <1>1, <2>1 DEF KeepsBlocks, AllReleased, Sorting, Grouping, Aggregating
  <2> QED
    BY <1>1, <2>1, <2>2, <2>3 DEF Keeping, KeepShape, Ends, Grouping, Aggregating
<1> QED
  BY <1>3, <1>4, <1>5
-----------------------------------------------------------------------------
(***************************************************************************)
(* The blocks of a projection.                                             *)
(***************************************************************************)
CellsOf(k) == store[cache[k]].cells
Tagged(cells, tags) == \A i \in DOMAIN cells : cells[i].tag \in tags

(* The last cell is the only marker that is not one of a row.              *)
Closing(cells, tag) ==
  /\ cells # <<>> /\ cells[Len(cells)].tag = tag
  /\ \A i \in 1 .. Len(cells) - 1 : cells[i].tag \in {"AA", "BB"}

(* A block that a row goes through, from the one before it to the next: it *)
(* stays so.                                                               *)
Parts == \E k \in 2 .. Len(cache) - 1 : Tagged(CellsOf(k), {"AA", "CC"})

Own == {cache[i] : i \in DOMAIN cache}
ProjectTypes ==
  /\ statement.held <= sBlockNumber
  /\ cache \in Seq(NewerBlocks)
  /\ \A i, j \in DOMAIN cache : cache[i] = cache[j] => i = j
  /\ reading \in [block : {NoBlock} \cup Own, previous : {NoBlock} \cup Own]
  /\ full \in {NoBlock} \cup Own
  /\ HeldBefore \subseteq blocks

(* The contents of the blocks, while they are filled and while rows are    *)
(* read: all but the last are closed.                                      *)
Filling == pc \in {"pull", "item"}
Reading == pc \in {"next", "read"}
ProjectContents ==
  /\ pc = "first" => /\ cache = <<>> /\ full = NoBlock /\ ReadReleased /\ read = <<>>
                     /\ blocks = HeldBefore
  /\ Filling \/ Reading =>
       /\ cache # <<>>
       /\ \A k \in 1 .. Len(cache) - 1 : Closing(CellsOf(k), "CC")
  /\ Filling => Tagged(CellsOf(Len(cache)), {"AA", "BB"}) /\ reading.block = NoBlock
  /\ Filling /\ full # NoBlock =>
       /\ Len(cache) > 1 /\ full = cache[Len(cache) - 1]
       /\ pc = "item" => Tagged(CellsOf(Len(cache)), {"AA"})
  /\ Reading =>
       /\ full = NoBlock
       /\ \/ /\ Len(cache) > 1 /\ reading.block = cache[Len(cache) - 1]
             /\ Tagged(CellsOf(Len(cache)), {"AA", "BB"})
          \/ reading.block = cache[Len(cache)] /\ Closing(CellsOf(Len(cache)), "DD")
       /\ at.offset < Len(store[reading.block].cells)

(* Unless a row goes through a block: the blocks that exist, and those     *)
(* that the values of the row that is read are in.                         *)
Prior(k) == IF k > 1 THEN cache[k - 1] ELSE NoBlock
BlocksFrom(k) == {cache[i] : i \in {j \in DOMAIN cache : j >= k}}
OldestFilled == IF full = NoBlock THEN Len(cache) ELSE Len(cache) - 1
ProjectLedger ==
  /\ Filling => /\ reading.previous = Prior(OldestFilled)
                /\ blocks = HeldBefore \cup BlocksFrom(OldestFilled - 1)
  /\ Reading => \E j \in DOMAIN cache :
                  /\ reading = [block |-> cache[j], previous |-> Prior(j)]
                  /\ blocks = HeldBefore \cup BlocksFrom(j - 1)
  /\ pc \in Ends /\ outcome = "eof" =>
       /\ blocks = HeldBefore \cup ({reading.block, reading.previous} \ {NoBlock})
       /\ reading.block = reading.previous => ReadReleased
ProjectRead ==
  /\ Filling \/ pc = "read" =>
       /\ read \in Seq(Places)
       /\ \A c \in DOMAIN read :
            read[c].block \in {reading.block, reading.previous} \ {NoBlock}
  /\ pc = "read" =>
       \A c \in DOMAIN read : read[c].block # reading.block =>
         \A i \in 1 .. at.offset : store[reading.block].cells[i].tag = "AA"

ProjectInv ==
  /\ ProjectTypes /\ ProjectContents
  /\ Parts \/ (ProjectLedger /\ ProjectRead)
  /\ pc = "closed" => ReadReleased

LEMMA CellsPut ==
  ASSUME NEW cells \in Seq(Cells), NEW cell \in Cells
  PROVE  LET new == Append(cells, cell) IN
         /\ \A tags : Tagged(cells, tags) /\ cell.tag \in tags => Tagged(new, tags)
         /\ Tagged(cells, {"AA", "BB"}) => Closing(new, cell.tag)
         /\ Tagged(cells, {"AA"}) => Tagged(cells, {"AA", "BB"}) /\ Tagged(cells, {"AA", "CC"})
<1> DEFINE new == Append(cells, cell)
<1>1. /\ DOMAIN cells = 1 .. Len(cells) /\ Len(cells) \in Nat /\ new \in Seq(Cells)
      /\ DOMAIN new = 1 .. Len(cells) + 1 /\ Len(new) = Len(cells) + 1
      /\ new[Len(cells) + 1] = cell
      /\ \A i \in 1 .. Len(cells) : new[i] = cells[i]
  OBVIOUS
<1> HIDE DEF new
<1>2. ASSUME NEW tags, Tagged(cells, tags), cell.tag \in tags PROVE Tagged(new, tags)
  BY <1>1, <1>2 DEF Tagged
<1>3. ASSUME Tagged(cells, {"AA", "BB"}) PROVE Closing(new, cell.tag)
  <2>1. new # <<>> /\ new[Len(new)].tag = cell.tag /\ Len(new) - 1 = Len(cells)
    BY <1>1
  <2>2. \A i \in 1 .. Len(cells) : new[i].tag \in {"AA", "BB"}
    BY <1>1, <1>3 DEF Tagged
  <2> QED
    BY <2>1, <2>2 DEF Closing
<1>4. Tagged(cells, {"AA"}) => Tagged(cells, {"AA", "BB"}) /\ Tagged(cells, {"AA", "CC"})
  BY DEF Tagged
<1> QED
  BY <1>2, <1>3, <1>4 DEF new

LEMMA CellsClosed ==
  ASSUME NEW cells \in Seq(Cells), NEW tag, Closing(cells, tag)
  PROVE  /\ Len(cells) \in Nat \ {0} /\ DOMAIN cells = 1 .. Len(cells)
         /\ \A i \in DOMAIN cells : cells[i].tag \in {"AA", "BB"} \/ (i = Len(cells) /\ cells[i].tag = tag)
         /\ Tagged(cells, {"AA", "BB", tag})
BY DEF Closing, Tagged

LEMMA CellTags ==
  /\ \A l, c \in Nat : Value(l, c) \in Cells /\ Value(l, c).tag = "AA"
  /\ \A tag \in {"AA", "BB", "CC", "DD"} : Mark(tag, 0, 0) \in Cells /\ Mark(tag, 0, 0).tag = tag
BY DEF Value, Mark, Cells

(* A write to the last block.                                              *)
LEMMA ProjectWrites ==
  ASSUME Stages, StoreTypes, ProjectTypes, cache # <<>>, UNCHANGED <<sBlockNumber, cache>>,
         NEW content \in Contents, store' = [store EXCEPT ![cache[Len(cache)]] = content]
  PROVE  /\ Len(cache) \in Nat \ {0}
         /\ \A k \in 1 .. Len(cache) - 1 : CellsOf(k)' = CellsOf(k)
         /\ CellsOf(Len(cache))' = content.cells
         /\ Parts => Parts'
<1>1. Len(cache) \in Nat \ {0} /\ DOMAIN cache = 1 .. Len(cache)
  BY DEF ProjectTypes
<1>2. \A k \in DOMAIN cache : cache[k] \in 1 .. sBlockNumber
  <2>1. \A k \in DOMAIN cache : cache[k] \in NewerBlocks
    BY DEF ProjectTypes
  <2>2. statement.held \in Nat
    BY StatementTypes DEF Stages
  <2> QED
    BY <2>1, <2>2 DEF NewerBlocks, StoreTypes
<1>3. \A k \in 1 .. Len(cache) - 1 : CellsOf(k)' = CellsOf(k)
  <2> TAKE k \in 1 .. Len(cache) - 1
  <2>1. cache[k] # cache[Len(cache)]
    BY <1>1 DEF ProjectTypes
  <2> QED
    BY <1>1, <1>2, <2>1 DEF CellsOf, StoreTypes
<1>4. CellsOf(Len(cache))' = content.cells
  BY <1>1, <1>2 DEF CellsOf, StoreTypes
<1>5. Parts => Parts'
  BY <1>3, <1>1 DEF Parts
<1> QED
  BY <1>1, <1>3, <1>4, <1>5

(* A new block, after the last one has been closed.                        *)
LEMMA ProjectPushes ==
  ASSUME Stages, StoreTypes, ProjectTypes, NEW content \in Contents, PushBlock(content),
         UNCHANGED <<statement, reading>>, full' \in {NoBlock} \cup Own
  PROVE  /\ ProjectTypes'
         /\ Len(cache) \in Nat /\ Len(cache') = Len(cache) + 1
         /\ \A k \in 1 .. Len(cache) : cache'[k] = cache[k]
         /\ blocks' = blocks \cup {cache'[Len(cache')]}
         /\ \A k \in 1 .. Len(cache) - 1 : CellsOf(k)' = CellsOf(k)
         /\ \A k \in {Len(cache)} \ {0} : CellsOf(k)' = Append(CellsOf(k), Mark("CC", 0, 0))
         /\ CellsOf(Len(cache))' = content.cells
<1> DEFINE n == sBlockNumber + 1
<1>0. PICK l \in Nat : l = Len(cache)
  BY DEF ProjectTypes
<1>1. /\ sBlockNumber' = n /\ n \in Nat /\ blocks' = blocks \cup {n}
      /\ cache' = Append(cache, n) /\ l \in Nat /\ DOMAIN cache = 1 .. l
      /\ statement.held \in Nat /\ sBlockNumber \in Nat
  BY <1>0, StatementTypes DEF PushBlock, BM!CreateBlock, StoreTypes, ProjectTypes, Stages
<1>2. \A k \in 1 .. l : cache[k] \in NewerBlocks /\ cache[k] \in 1 .. sBlockNumber /\ cache[k] # n
  <2>1. \A k \in 1 .. l : cache[k] \in NewerBlocks
    BY <1>1 DEF ProjectTypes
  <2> QED
    BY <1>1, <2>1 DEF NewerBlocks
<1>3. /\ Len(cache') = l + 1 /\ DOMAIN cache' = 1 .. l + 1 /\ cache'[l + 1] = n
      /\ \A k \in 1 .. l : cache'[k] = cache[k]
  BY <1>0, <1>1 DEF ProjectTypes
<1>4. NewerBlocks \subseteq NewerBlocks' /\ n \in NewerBlocks' /\ HeldBefore' = HeldBefore
      /\ statement'.held <= sBlockNumber'
  BY <1>1 DEF NewerBlocks, HeldBefore, ProjectTypes
<1>5. cache' \in Seq(NewerBlocks')
  <2>1. cache \in Seq(NewerBlocks')
    BY <1>4 DEF ProjectTypes
  <2> QED
    BY <1>1, <1>4, <2>1
<1> HIDE DEF n
<1>6. \A i, j \in DOMAIN cache' : cache'[i] = cache'[j] => i = j
  BY <1>1, <1>2, <1>3 DEF ProjectTypes
<1>7. Own \subseteq Own'
  BY <1>1, <1>3 DEF Own
<1>8. ProjectTypes'
  BY <1>1, <1>4, <1>5, <1>6, <1>7 DEF ProjectTypes
<1>9. \A b \in 1 .. sBlockNumber :
        store'[b] = IF cache # <<>> /\ b = cache[l] THEN Marked(store[b], "CC") ELSE store[b]
  BY <1>0, <1>1 DEF PushBlock, n
<1>10. store'[n] = content
  <2>1. n \in 1 .. n
    BY <1>1 DEF n
  <2> QED
    BY <1>1, <2>1 DEF PushBlock
<1>11. ASSUME NEW k \in 1 .. l - 1
       PROVE  CellsOf(k)' = CellsOf(k)
  <2>1. k \in 1 .. l /\ l \in 1 .. l /\ k # l
    OBVIOUS
  <2>2. cache[k] # cache[l]
    BY <1>1, <2>1 DEF ProjectTypes
  <2> QED
    BY <1>2, <1>3, <1>9, <2>1, <2>2 DEF CellsOf
<1>12. ASSUME l # 0
       PROVE  CellsOf(l)' = Append(CellsOf(l), Mark("CC", 0, 0))
  <2>1. l \in 1 .. l /\ cache # <<>>
    BY <1>0, <1>12
  <2>2. store'[cache[l]] = Marked(store[cache[l]], "CC")
    BY <1>2, <1>9, <2>1
  <2> QED
    BY <1>3, <2>1, <2>2 DEF CellsOf, Marked, MarkedAt
<1>13. store'[cache'[l + 1]].cells = content.cells
  BY <1>3, <1>10
<1>14. CellsOf(Len(cache))' = content.cells
  BY <1>3, <1>13 DEF CellsOf
<1>15. \A k \in {l} \ {0} : CellsOf(k)' = Append(CellsOf(k), Mark("CC", 0, 0))
  BY <1>12
<1> QED
  BY <1>0, <1>1, <1>3, <1>8, <1>11, <1>14, <1>15

(* The cells of a block are cells.                                         *)
LEMMA ProjectCells ==
  ASSUME Stages, StoreTypes, ProjectTypes, NEW k \in DOMAIN cache
  PROVE  /\ cache[k] \in 1 .. sBlockNumber /\ cache[k] # NoBlock /\ cache[k] \notin HeldBefore
         /\ CellsOf(k) \in Seq(Cells)
<1>1. cache[k] \in NewerBlocks /\ statement.held \in Nat
  BY StatementTypes DEF ProjectTypes, Stages
<1>2. cache[k] \in 1 .. sBlockNumber /\ cache[k] # NoBlock /\ cache[k] \notin HeldBefore
  BY <1>1 DEF NewerBlocks, StoreTypes, NoBlock, BM!NoBlock, HeldBefore
<1> QED
  BY <1>2 DEF StoreTypes, CellsOf, Contents

LEMMA ProjectBegins == Init => ProjectInv
<1> SUFFICES ASSUME Init PROVE ProjectInv
  OBVIOUS
<1>1. statement.held \in Nat
  BY StatementTypes DEF Init, CommonInit
<1>2. ProjectTypes
  BY <1>1 DEF Init, CommonInit, ProjectTypes, Own
<1> QED
  BY <1>2 DEF Init, CommonInit, ProjectInv, ProjectContents, ProjectLedger, ProjectRead,
    Filling, Reading, Ends, ReadReleased

(* Whatever the blocks are, a projection that fails keeps what it has.     *)
LEMMA ProjectFails ==
  ASSUME ProjectTypes', pc' = "release", outcome' # "eof"
  PROVE  ProjectInv'
BY DEF ProjectInv, ProjectContents, ProjectLedger, ProjectRead, Filling, Reading, Ends

LEMMA ProjectSame ==
  ASSUME ProjectTypes,
         UNCHANGED <<statement, sBlockNumber, blocks, cache, reading, full>>
  PROVE  ProjectTypes'
BY DEF ProjectTypes, NewerBlocks, HeldBefore, Own

LEMMA ProjectFirst ==
  ASSUME TypeIInv, ProjectInv, ProjectFirstBlock
  PROVE  ProjectInv'
<1>1. pc = "first" /\ pc' = "pull" /\ PushBlock(Empty) /\ UNCHANGED <<commonVars, full, reading, read>>
  BY DEF ProjectFirstBlock, GoTo
<1>2. /\ cache = <<>> /\ full = NoBlock /\ ReadReleased /\ read = <<>>
      /\ blocks = HeldBefore
  BY <1>1 DEF ProjectInv, ProjectContents
<1>3. /\ ProjectTypes' /\ Len(cache') = 1 /\ blocks' = blocks \cup {cache'[1]}
      /\ CellsOf(1)' = <<>>
  <2>1. Stages /\ StoreTypes /\ ProjectTypes /\ UNCHANGED <<statement, reading>>
        /\ full' \in {NoBlock} \cup Own /\ Empty \in Contents /\ Empty.cells = <<>>
    BY <1>1, <1>2, ContentTypes DEF TypeIInv, ProjectInv, commonVars, Empty
  <2> QED
    BY <1>1, <1>2, <2>1, ProjectPushes DEF CellsOf
<1>4. DOMAIN cache' = {1} /\ cache' # <<>>
  BY <1>3 DEF ProjectTypes
<1>5. ProjectContents'
  BY <1>1, <1>2, <1>3, <1>4 DEF ProjectContents, Filling, Reading, Tagged, ReadReleased
<1>6. /\ OldestFilled' = 1 /\ Prior(1)' = NoBlock
      /\ BlocksFrom(0)' = {cache'[1]}
  BY <1>1, <1>2, <1>3, <1>4 DEF OldestFilled, Prior, BlocksFrom
<1>7. ProjectLedger' /\ ProjectRead'
  BY <1>1, <1>2, <1>3, <1>6
  DEF ProjectLedger, ProjectRead, Filling, Reading, Ends, ReadReleased, HeldBefore, commonVars
<1> QED
  BY <1>1, <1>3, <1>5, <1>7 DEF ProjectInv

(* A cell is written to the last block, which is still filled, or ends.    *)
LEMMA ProjectPuts ==
  ASSUME TypeIInv, ProjectInv, cache # <<>>, UNCHANGED <<managerVars, cache>>,
         NEW cell \in Cells, NEW content \in Contents,
         content.cells = Append(CellsOf(Len(cache)), cell),
         store' = [store EXCEPT ![cache[Len(cache)]] = content]
  PROVE  /\ Len(cache) \in Nat \ {0} /\ Len(cache) \in DOMAIN cache
         /\ \A k \in 1 .. Len(cache) - 1 : CellsOf(k)' = CellsOf(k)
         /\ \A tags : Tagged(CellsOf(Len(cache)), tags) /\ cell.tag \in tags
                      => Tagged(CellsOf(Len(cache)), tags)'
         /\ Tagged(CellsOf(Len(cache)), {"AA", "BB"}) => Closing(CellsOf(Len(cache)), cell.tag)'
         /\ Parts => Parts'
<1>1. /\ Len(cache) \in Nat \ {0} /\ Len(cache) \in DOMAIN cache
      /\ Stages /\ StoreTypes /\ ProjectTypes
  BY DEF TypeIInv, ProjectInv, ProjectTypes
<1>2. /\ \A k \in 1 .. Len(cache) - 1 : CellsOf(k)' = CellsOf(k)
      /\ CellsOf(Len(cache))' = Append(CellsOf(Len(cache)), cell)
      /\ Parts => Parts'
  BY <1>1, ProjectWrites DEF managerVars
<1>3. CellsOf(Len(cache)) \in Seq(Cells)
  BY <1>1, ProjectCells
<1>4. /\ \A tags : Tagged(CellsOf(Len(cache)), tags) /\ cell.tag \in tags
                   => Tagged(Append(CellsOf(Len(cache)), cell), tags)
      /\ Tagged(CellsOf(Len(cache)), {"AA", "BB"})
           => Closing(Append(CellsOf(Len(cache)), cell), cell.tag)
  BY <1>3, CellsPut
<1>5. ASSUME NEW tags, Tagged(CellsOf(Len(cache)), tags), cell.tag \in tags
      PROVE  Tagged(CellsOf(Len(cache))', tags)
  BY <1>2, <1>4, <1>5
<1>6. ASSUME Tagged(CellsOf(Len(cache)), {"AA", "BB"})
      PROVE  Closing(CellsOf(Len(cache))', cell.tag)
  BY <1>2, <1>4, <1>6
<1> QED
  BY <1>1, <1>2, <1>5, <1>6 DEF Tagged, Closing

LEMMA ProjectAdds ==
  ASSUME TypeIInv, ProjectInv, ProjectItem
  PROVE  ProjectInv'
<1>1. /\ pc = "item" /\ pc' = "item" /\ outcome' = outcome
      /\ AddToCurrent(Row, col, ItemSize)
      /\ UNCHANGED <<statement, full, reading, read, at>>
  BY DEF ProjectItem, EvaluatingItem
<1>2. /\ cache # <<>> /\ \A k \in 1 .. Len(cache) - 1 : Closing(CellsOf(k), "CC")
      /\ Tagged(CellsOf(Len(cache)), {"AA", "BB"}) /\ reading.block = NoBlock
      /\ full # NoBlock => /\ Len(cache) > 1 /\ full = cache[Len(cache) - 1]
                           /\ Tagged(CellsOf(Len(cache)), {"AA"})
  BY <1>1 DEF ProjectInv, ProjectContents, Filling
<1>3. UNCHANGED <<managerVars, cache>>
  BY <1>1 DEF AddToCurrent
<1> DEFINE cell == Value(Row, col)
           content == Added(Current, Row, col, ItemSize)
<1>4. Row \in Nat /\ col \in Nat /\ ItemSize \in Nat
  BY ItemSizes DEF ProjectItem, TypeIInv, PlaceTypes
<1>5. Current \in Contents
  <2>1. Len(cache) \in DOMAIN cache
    BY <1>2 DEF ProjectInv, ProjectTypes
  <2>2. cache[Len(cache)] \in 1 .. sBlockNumber
    BY <2>1, ProjectCells DEF TypeIInv, ProjectInv
  <2> QED
    BY <2>2 DEF Current, TypeIInv, StoreTypes
<1>6. cell \in Cells /\ cell.tag = "AA" /\ content \in Contents
  BY <1>4, <1>5, ContentTypes, CellTags
<1>7. /\ content.cells = Append(CellsOf(Len(cache)), cell)
      /\ store' = [store EXCEPT ![cache[Len(cache)]] = content]
  BY <1>1 DEF Added, CellsOf, Current, AddToCurrent
<1> HIDE DEF cell, content
<1>8. /\ Len(cache) \in Nat \ {0}
      /\ \A k \in 1 .. Len(cache) - 1 : CellsOf(k)' = CellsOf(k)
      /\ \A tags : Tagged(CellsOf(Len(cache)), tags) /\ "AA" \in tags
                   => Tagged(CellsOf(Len(cache)), tags)'
      /\ Parts => Parts'
  BY <1>2, <1>3, <1>6, <1>7, ProjectPuts
<1>9. Tagged(CellsOf(Len(cache)), {"AA", "BB"})'
  BY <1>2, <1>8
<1>10. full # NoBlock => Tagged(CellsOf(Len(cache)), {"AA"})'
  BY <1>2, <1>8
<1>11. ProjectTypes'
  BY <1>1, <1>3, ProjectSame DEF ProjectInv, managerVars
<1>12. \A k \in 1 .. Len(cache') - 1 : Closing(CellsOf(k), "CC")'
  BY <1>2, <1>3, <1>8 DEF Closing
<1>13. ProjectContents'
  BY <1>1, <1>2, <1>3, <1>9, <1>10, <1>12 DEF ProjectContents, Filling, Reading
<1>14. ProjectLedger /\ ProjectRead => ProjectLedger' /\ ProjectRead'
  BY <1>1, <1>3 DEF ProjectLedger, ProjectRead, Filling, Reading, Ends, OldestFilled, Prior,
    BlocksFrom, HeldBefore, managerVars
<1> QED
  BY <1>1, <1>8, <1>11, <1>13, <1>14 DEF ProjectInv

LEMMA ProjectEndsRow ==
  ASSUME TypeIInv, ProjectInv, ProjectEndRow
  PROVE  ProjectInv'
<1>1. /\ pc = "item" /\ pc' = "pull" /\ outcome' = outcome
      /\ WriteMark("BB") /\ UNCHANGED <<statement, full, reading, read, at>>
  BY DEF ProjectEndRow, GoTo, commonVars
<1>2. /\ cache # <<>> /\ \A k \in 1 .. Len(cache) - 1 : Closing(CellsOf(k), "CC")
      /\ Tagged(CellsOf(Len(cache)), {"AA", "BB"}) /\ reading.block = NoBlock
      /\ full # NoBlock => Len(cache) > 1 /\ full = cache[Len(cache) - 1]
  BY <1>1 DEF ProjectInv, ProjectContents, Filling
<1>3. UNCHANGED <<managerVars, cache>>
  BY <1>1 DEF WriteMark
<1> DEFINE cell == Mark("BB", 0, 0)
           content == Marked(Current, "BB")
<1>4. Current \in Contents
  <2>1. Len(cache) \in DOMAIN cache
    BY <1>2 DEF ProjectInv, ProjectTypes
  <2>2. cache[Len(cache)] \in 1 .. sBlockNumber
    BY <2>1, ProjectCells DEF TypeIInv, ProjectInv
  <2> QED
    BY <2>2 DEF Current, TypeIInv, StoreTypes
<1>5. cell \in Cells /\ cell.tag = "BB" /\ content \in Contents
  BY <1>4, ContentTypes, CellTags
<1>6. /\ content.cells = Append(CellsOf(Len(cache)), cell)
      /\ store' = [store EXCEPT ![cache[Len(cache)]] = content]
  BY <1>1 DEF Marked, MarkedAt, CellsOf, Current, WriteMark
<1> HIDE DEF cell, content
<1>7. /\ Len(cache) \in Nat \ {0}
      /\ \A k \in 1 .. Len(cache) - 1 : CellsOf(k)' = CellsOf(k)
      /\ Tagged(CellsOf(Len(cache)), {"AA", "BB"})'
      /\ Parts => Parts'
  <2>1. /\ Len(cache) \in Nat \ {0}
        /\ \A k \in 1 .. Len(cache) - 1 : CellsOf(k)' = CellsOf(k)
        /\ \A tags : Tagged(CellsOf(Len(cache)), tags) /\ "BB" \in tags
                     => Tagged(CellsOf(Len(cache)), tags)'
        /\ Parts => Parts'
    BY <1>2, <1>3, <1>5, <1>6, ProjectPuts
  <2> QED
    BY <1>2, <2>1
<1>8. ProjectTypes'
  BY <1>1, <1>3, ProjectSame DEF ProjectInv, managerVars
<1>9. \A k \in 1 .. Len(cache') - 1 : Closing(CellsOf(k), "CC")'
  BY <1>2, <1>3, <1>7 DEF Closing
<1>10. ProjectContents'
  BY <1>1, <1>2, <1>3, <1>7, <1>9 DEF ProjectContents, Filling, Reading
<1>11. ProjectLedger /\ ProjectRead => ProjectLedger' /\ ProjectRead'
  BY <1>1, <1>3 DEF ProjectLedger, ProjectRead, Filling, Reading, Ends, OldestFilled, Prior,
    BlocksFrom, HeldBefore, managerVars
<1> QED
  BY <1>1, <1>7, <1>8, <1>10, <1>11 DEF ProjectInv

(* The cells stay where nothing is written.                                *)
LEMMA ProjectIdle ==
  ASSUME UNCHANGED <<store, cache>>
  PROVE  /\ Len(cache') = Len(cache) /\ Parts' = Parts
         /\ \A k : CellsOf(k)' = CellsOf(k) /\ Prior(k)' = Prior(k) /\ BlocksFrom(k)' = BlocksFrom(k)
<1>1. \A k : CellsOf(k)' = CellsOf(k) /\ Prior(k)' = Prior(k) /\ BlocksFrom(k)' = BlocksFrom(k)
  BY DEF CellsOf, Prior, BlocksFrom
<1> QED
  BY <1>1 DEF Parts, Tagged

LEMMA ProjectEndings ==
  ASSUME ProjectInv,
         \/ ProjectFirstBlockThrows \/ ProjectItemThrows \/ ProjectedRowThrows \/ ReadItemThrows
         \/ (InputThrows \/ Abandon) /\ UNCHANGED ownVars
  PROVE  ProjectInv'
<1>1. /\ UNCHANGED <<statement, sBlockNumber, blocks, cache, reading, full>>
      /\ pc' = "release" /\ outcome' # "eof"
  BY DEF ProjectFirstBlockThrows, ProjectItemThrows, ProjectedRowThrows, ReadItemThrows,
    InputThrows, Abandon, Destroy, GoTo, AddThrows, BM!CreateBlockThrows, copyVars, managerVars,
    ownVars
<1> QED
  BY <1>1, ProjectSame, ProjectFails DEF ProjectInv

LEMMA ProjectTakes ==
  ASSUME ProjectInv, ProjectRow
  PROVE  ProjectInv'
<1>1. /\ pc = "pull" /\ pc' = "item" /\ full = NoBlock
      /\ UNCHANGED <<copyVars, statement, outcome, full, reading, read>>
  BY DEF ProjectRow, Preparing, GoTo
<1>2. ProjectTypes'
  BY <1>1, ProjectSame DEF ProjectInv, copyVars, managerVars
<1>3. UNCHANGED <<store, cache, blocks>>
  BY <1>1 DEF copyVars, managerVars
<1>4. ProjectContents'
  BY <1>1, <1>3 DEF ProjectInv, ProjectContents, Filling, Reading, CellsOf, Tagged, Closing
<1>5. ProjectLedger /\ ProjectRead => ProjectLedger' /\ ProjectRead'
  BY <1>1, <1>3 DEF ProjectLedger, ProjectRead, Filling, Reading, Ends, OldestFilled, Prior,
    BlocksFrom, HeldBefore
<1> QED
  BY <1>1, <1>2, <1>3, <1>4, <1>5, ProjectIdle DEF ProjectInv

(* The row goes on in a new block.  If it has filled the one before as a   *)
(* whole, it goes through it.                                              *)
LEMMA ProjectAddsToNext ==
  ASSUME TypeIInv, ProjectInv, ProjectItemToNext
  PROVE  ProjectInv'
<1> DEFINE content == Opened(Row, col, ItemSize)
<1>1. /\ pc = "item" /\ pc' = "item" /\ outcome' = outcome
      /\ PushBlock(content) /\ full' = Filled
      /\ UNCHANGED <<statement, reading, read, at>>
  BY DEF ProjectItemToNext, EvaluatingItem, AddToNext
<1>2. Row \in Nat /\ col \in Nat /\ ItemSize \in Nat
  BY ItemSizes DEF ProjectItemToNext, TypeIInv, PlaceTypes
<1>3. content \in Contents /\ Tagged(content.cells, {"AA"})
  <2>1. Empty.cells = <<>> /\ Added(Empty, Row, col, ItemSize).cells = Append(<<>>, Value(Row, col))
    BY DEF Empty, Added
  <2>2. Value(Row, col) \in Cells /\ Value(Row, col).tag = "AA"
    BY <1>2, CellTags
  <2>3. content.cells \in {<<>>, Append(<<>>, Value(Row, col))}
    BY <2>1 DEF Opened
  <2>4. Tagged(<<>>, {"AA"}) /\ Tagged(Append(<<>>, Value(Row, col)), {"AA"})
    BY <2>2 DEF Tagged
  <2>5. content.cells = <<>> \/ content.cells = Append(<<>>, Value(Row, col))
    BY <2>3
  <2>6. Tagged(content.cells, {"AA"})
    BY <2>4, <2>5
  <2> QED
    BY <1>2, <2>6, ContentTypes
<1> HIDE DEF content
<1>4. /\ cache # <<>> /\ Tagged(CellsOf(Len(cache)), {"AA", "BB"}) /\ reading.block = NoBlock
      /\ \A k \in 1 .. Len(cache) - 1 : Closing(CellsOf(k), "CC")
      /\ full # NoBlock => Len(cache) > 1 /\ Tagged(CellsOf(Len(cache)), {"AA"})
  BY <1>1 DEF ProjectInv, ProjectContents, Filling
<1>5. Stages /\ StoreTypes /\ ProjectTypes
  BY DEF TypeIInv, ProjectInv
<1>6. PICK n \in Nat \ {0} : n = Len(cache) /\ n \in DOMAIN cache /\ DOMAIN cache = 1 .. n
                           /\ Filled = cache[n] /\ CellsOf(n) \in Seq(Cells)
  BY <1>4, <1>5, ProjectCells DEF ProjectTypes, Filled, Last
<1>7. /\ ProjectTypes' /\ Len(cache') = n + 1 /\ DOMAIN cache' = 1 .. n + 1
      /\ \A k \in 1 .. n : cache'[k] = cache[k]
      /\ blocks' = blocks \cup {cache'[n + 1]}
      /\ \A k \in 1 .. n - 1 : CellsOf(k)' = CellsOf(k)
      /\ CellsOf(n)' = Append(CellsOf(n), Mark("CC", 0, 0))
      /\ Tagged(CellsOf(n + 1)', {"AA"})
  <2>1. full' \in {NoBlock} \cup Own
    BY <1>1, <1>6 DEF Own
  <2>2. /\ ProjectTypes' /\ Len(cache') = n + 1
        /\ \A k \in 1 .. n : cache'[k] = cache[k]
        /\ blocks' = blocks \cup {cache'[Len(cache')]}
        /\ \A k \in 1 .. n - 1 : CellsOf(k)' = CellsOf(k)
        /\ CellsOf(n)' = Append(CellsOf(n), Mark("CC", 0, 0))
        /\ \A k \in {Len(cache')} : store'[cache'[k]].cells = content.cells
    BY <1>1, <1>3, <1>5, <1>6, <2>1, ProjectPushes DEF CellsOf
  <2> QED
    BY <1>3, <2>2 DEF CellsOf, ProjectTypes
<1>8. /\ Closing(CellsOf(n)', "CC")
      /\ full # NoBlock => Tagged(CellsOf(n)', {"AA", "CC"})
  <2>1. Mark("CC", 0, 0) \in Cells /\ Mark("CC", 0, 0).tag = "CC"
    BY CellTags
  <2>2. Tagged(CellsOf(n), {"AA"}) => Tagged(CellsOf(n), {"AA", "CC"})
    BY DEF Tagged
  <2> QED
    BY <1>4, <1>6, <1>7, <2>1, <2>2, CellsPut
<1>9. ProjectContents'
  <2>1. cache' # <<>> /\ full' = cache'[n] /\ n + 1 > 1
    BY <1>1, <1>6, <1>7
  <2>2. ASSUME NEW k \in 1 .. n
        PROVE  Closing(CellsOf(k)', "CC")
    <3>1. CASE k = n
      BY <1>8, <3>1
    <3>2. CASE k \in 1 .. n - 1
      <4>1. CellsOf(k)' = CellsOf(k) /\ Closing(CellsOf(k), "CC")
        BY <1>4, <1>6, <1>7, <3>2
      <4> QED
        BY <4>1
    <3> QED
      BY <3>1, <3>2
  <2>3. Tagged(CellsOf(n + 1)', {"AA", "BB"})
    BY <1>7 DEF Tagged
  <2> QED
    BY <1>1, <1>4, <1>7, <2>1, <2>2, <2>3 DEF ProjectContents, Filling, Reading, CellsOf, Tagged, Closing
<1>10. Parts => Parts'
  <2> SUFFICES ASSUME NEW k \in 2 .. n - 1, Tagged(CellsOf(k), {"AA", "CC"})
               PROVE  Tagged(CellsOf(k)', {"AA", "CC"}) /\ k \in 2 .. (n + 1) - 1
    BY <1>6, <1>7 DEF Parts, CellsOf, Tagged
  <2> QED
    BY <1>7
<1>11. full # NoBlock => Parts'
  <2> SUFFICES ASSUME full # NoBlock PROVE Parts'
    OBVIOUS
  <2>1. n \in 2 .. (n + 1) - 1 /\ Tagged(CellsOf(n)', {"AA", "CC"})
    BY <1>4, <1>6, <1>8
  <2> QED
    BY <1>7, <2>1 DEF Parts, CellsOf, Tagged
<1>12. ASSUME ProjectLedger, ProjectRead, full = NoBlock
       PROVE  ProjectLedger' /\ ProjectRead'
  <2>1. reading.previous = Prior(n) /\ blocks = HeldBefore \cup BlocksFrom(n - 1)
    BY <1>1, <1>6, <1>12 DEF ProjectLedger, Filling, OldestFilled
  <2>2. full' # NoBlock
    BY <1>1, <1>5, <1>6, ProjectCells
  <2>3. OldestFilled' = n /\ Prior(n)' = Prior(n)
    BY <1>7, <2>2 DEF OldestFilled, Prior
  <2>4. BlocksFrom(n - 1)' = BlocksFrom(n - 1) \cup {cache'[n + 1]}
    <3>1. {j \in DOMAIN cache' : j >= n - 1} = {j \in DOMAIN cache : j >= n - 1} \cup {n + 1}
      BY <1>6, <1>7
    <3> QED
      BY <1>6, <1>7, <3>1 DEF BlocksFrom
  <2>5. blocks' = HeldBefore' \cup BlocksFrom(n - 1)'
    BY <1>1, <1>7, <2>1, <2>4 DEF HeldBefore
  <2> QED
    BY <1>1, <1>12, <2>1, <2>3, <2>5 DEF ProjectLedger, ProjectRead, Filling, Reading, Ends, BlocksFrom, Prior
<1> QED
  BY <1>7, <1>9, <1>10, <1>11, <1>12, <1>1 DEF ProjectInv

LEMMA ProjectHandsFull ==
  ASSUME ProjectInv, HandFullBlock
  PROVE  ProjectInv'
<1>1. /\ pc = "pull" /\ pc' \in {"next", "read"} /\ full # NoBlock /\ full' = NoBlock
      /\ reading' = [reading EXCEPT !.block = full] /\ at'.offset = 0
      /\ UNCHANGED <<sBlockNumber, blocks, store, cache, statement, outcome, read>>
  BY DEF HandFullBlock, Handed, GoTo, copyVars, managerVars
<1>2. /\ cache # <<>> /\ Len(cache) > 1 /\ full = cache[Len(cache) - 1]
      /\ \A k \in 1 .. Len(cache) - 1 : Closing(CellsOf(k), "CC")
      /\ Tagged(CellsOf(Len(cache)), {"AA", "BB"}) /\ reading.block = NoBlock
  BY <1>1 DEF ProjectInv, ProjectContents, Filling
<1>3. PICK n \in Nat : n = Len(cache) /\ n > 1 /\ DOMAIN cache = 1 .. n /\ n - 1 \in 1 .. n - 1
  BY <1>2 DEF ProjectInv, ProjectTypes
<1>4. reading' = [block |-> cache[n - 1], previous |-> reading.previous] /\ full \in Own
  BY <1>1, <1>2, <1>3 DEF ProjectInv, ProjectTypes, Own
<1>5. ProjectTypes'
  BY <1>1, <1>2, <1>3, <1>4 DEF ProjectInv, ProjectTypes, NewerBlocks, HeldBefore, Own
<1>6. ProjectContents'
  <2>1. Closing(CellsOf(n - 1), "CC") /\ at'.offset < Len(store[reading'.block].cells)
    BY <1>1, <1>2, <1>3, <1>4, CellsClosed DEF Closing, CellsOf
  <2> QED
    BY <1>1, <1>2, <1>3, <1>4, <2>1
    DEF ProjectContents, Filling, Reading, CellsOf, Tagged, Closing
<1>7. ASSUME ProjectLedger, ProjectRead
      PROVE  ProjectLedger' /\ ProjectRead'
  <2>1. reading.previous = Prior(n - 1) /\ blocks = HeldBefore \cup BlocksFrom(n - 1 - 1)
    BY <1>1, <1>3, <1>7 DEF ProjectLedger, Filling, OldestFilled
  <2>2. ProjectLedger'
    <3>1. /\ reading' = [block |-> cache'[n - 1], previous |-> Prior(n - 1)'] /\ n - 1 \in DOMAIN cache'
          /\ blocks' = HeldBefore' \cup BlocksFrom(n - 1 - 1)'
      <4>1. cache' = cache /\ blocks' = blocks /\ HeldBefore' = HeldBefore
        BY <1>1 DEF HeldBefore
      <4>2. \A k : Prior(k)' = Prior(k) /\ BlocksFrom(k)' = BlocksFrom(k)
        BY <4>1 DEF Prior, BlocksFrom
      <4> QED
        BY <1>3, <1>4, <2>1, <4>1, <4>2
    <3>2. /\ pc' \notin Ends /\ ~ Filling'
      BY <1>1 DEF Filling, Ends
    <3> QED
      BY <3>1, <3>2 DEF ProjectLedger, Prior, BlocksFrom
  <2>3. ProjectRead'
    BY <1>1, <1>2, <1>4, <1>7 DEF ProjectRead, Filling
  <2> QED
    BY <2>2, <2>3
<1> QED
  BY <1>1, <1>5, <1>6, <1>7, ProjectIdle DEF ProjectInv

LEMMA ProjectHandsLast ==
  ASSUME TypeIInv, ProjectInv, HandLastBlock
  PROVE  ProjectInv'
<1>1. /\ pc = "pull" /\ pc' \in {"next", "read"} /\ full = NoBlock /\ full' = NoBlock
      /\ reading' = [reading EXCEPT !.block = Filled] /\ at'.offset = 0
      /\ UNCHANGED <<managerVars, cache, statement, outcome, read>>
      /\ store' = [store EXCEPT ![Filled] = Marked(@, "DD")]
  BY DEF HandLastBlock, Preparing, Handed, GoTo
<1>2. /\ cache # <<>>
      /\ \A k \in 1 .. Len(cache) - 1 : Closing(CellsOf(k), "CC")
      /\ Tagged(CellsOf(Len(cache)), {"AA", "BB"}) /\ reading.block = NoBlock
  BY <1>1 DEF ProjectInv, ProjectContents, Filling
<1>3. PICK n \in Nat \ {0} : n = Len(cache) /\ DOMAIN cache = 1 .. n
  BY <1>2 DEF ProjectInv, ProjectTypes
<1>4. reading' = [block |-> cache[n], previous |-> reading.previous] /\ Filled = cache[n]
  BY <1>1, <1>2, <1>3 DEF ProjectInv, ProjectTypes, Filled, Last
<1>5. ProjectTypes'
  BY <1>1, <1>3, <1>4 DEF ProjectInv, ProjectTypes, NewerBlocks, HeldBefore, Own, managerVars
<1> DEFINE cell == Mark("DD", 0, 0)
           content == Marked(Current, "DD")
<1>6. Current \in Contents
  <2>1. cache[n] \in 1 .. sBlockNumber
    BY <1>3, ProjectCells DEF TypeIInv, ProjectInv
  <2> QED
    BY <1>3, <2>1 DEF Current, TypeIInv, StoreTypes
<1>7. cell \in Cells /\ cell.tag = "DD" /\ content \in Contents
  BY <1>6, ContentTypes, CellTags
<1>8. /\ content.cells = Append(CellsOf(n), cell)
      /\ store' = [store EXCEPT ![cache[n]] = content]
  BY <1>1, <1>3, <1>4 DEF Marked, MarkedAt, CellsOf, Current
<1> HIDE DEF cell, content
<1>9. /\ \A k \in 1 .. n - 1 : CellsOf(k)' = CellsOf(k)
      /\ Closing(CellsOf(Len(cache)), "DD")'
      /\ Parts => Parts'
  <2>1. /\ \A k \in 1 .. Len(cache) - 1 : CellsOf(k)' = CellsOf(k)
        /\ Tagged(CellsOf(Len(cache)), {"AA", "BB"})
             => Closing(CellsOf(Len(cache)), cell.tag)'
        /\ Parts => Parts'
    BY <1>1, <1>2, <1>3, <1>7, <1>8, ProjectPuts
  <2>2. cell.tag' = "DD"
    BY <1>7 DEF cell, Mark
  <2> QED
    BY <1>2, <1>3, <1>7, <2>1, <2>2 DEF Closing
<1>10. ProjectContents'
  <2>1. \A k \in 1 .. Len(cache') - 1 : Closing(CellsOf(k), "CC")'
    BY <1>1, <1>2, <1>3, <1>9 DEF Closing
  <2>2. at'.offset < Len(store'[reading'.block].cells)
    <3>1. CellsOf(Len(cache))' = Append(CellsOf(n), cell) /\ CellsOf(n) \in Seq(Cells)
      <4>1. Stages /\ StoreTypes /\ ProjectTypes /\ n \in DOMAIN cache
        BY <1>3 DEF TypeIInv, ProjectInv
      <4>2. cache[n] \in 1 .. sBlockNumber /\ CellsOf(n) \in Seq(Cells)
        BY <4>1, ProjectCells
      <4> QED
        BY <1>1, <1>3, <1>8, <4>1, <4>2 DEF CellsOf, StoreTypes
    <3>2. store'[reading'.block].cells = Append(CellsOf(n), cell)
      BY <1>1, <1>3, <1>4, <3>1 DEF CellsOf
    <3> QED
      BY <1>1, <3>1, <3>2
  <2> QED
    BY <1>1, <1>2, <1>3, <1>4, <1>9, <2>1, <2>2 DEF ProjectContents, Filling, Reading
<1>11. ASSUME ProjectLedger, ProjectRead
       PROVE  ProjectLedger' /\ ProjectRead'
  <2>1. reading.previous = Prior(n) /\ blocks = HeldBefore \cup BlocksFrom(n - 1)
    BY <1>1, <1>3, <1>11 DEF ProjectLedger, Filling, OldestFilled
  <2>2. ProjectLedger'
    <3>1. /\ reading' = [block |-> cache'[n], previous |-> Prior(n)'] /\ n \in DOMAIN cache'
          /\ blocks' = HeldBefore' \cup BlocksFrom(n - 1)'
      <4>1. cache' = cache /\ blocks' = blocks /\ HeldBefore' = HeldBefore
        BY <1>1 DEF HeldBefore, managerVars
      <4>2. \A k : Prior(k)' = Prior(k) /\ BlocksFrom(k)' = BlocksFrom(k)
        BY <4>1 DEF Prior, BlocksFrom
      <4> QED
        BY <1>3, <1>4, <2>1, <4>1, <4>2
    <3>2. /\ pc' \notin Ends /\ ~ Filling'
      BY <1>1 DEF Filling, Ends
    <3> QED
      BY <3>1, <3>2 DEF ProjectLedger, Prior, BlocksFrom
  <2>3. ProjectRead'
    BY <1>1, <1>2, <1>4, <1>11 DEF ProjectRead, Filling
  <2> QED
    BY <2>2, <2>3
<1> QED
  BY <1>1, <1>5, <1>9, <1>10, <1>11 DEF ProjectInv

(* What is under the iterator: behind the last cell of its block nothing.  *)
LEMMA ProjectUnder ==
  ASSUME TypeIInv, ProjectInv, Reading
  PROVE  \E k \in DOMAIN cache, tag \in {"CC", "DD"} :
           /\ k = Len(cache) - (IF tag = "CC" THEN 1 ELSE 0)
           /\ reading.block = cache[k] /\ Closing(CellsOf(k), tag)
           /\ tag = "CC" => Tagged(CellsOf(Len(cache)), {"AA", "BB"})
           /\ at.offset \in 0 .. Len(CellsOf(k)) - 1
           /\ RowEnded => Begins \in 0 .. Len(CellsOf(k)) - 1
           /\ \A o \in 0 .. Len(CellsOf(k)) - 1 :
                /\ Under(o) = CellsOf(k)[o + 1].tag
                /\ Under(o) \in {"AA", "BB"} \/ (o = Len(CellsOf(k)) - 1 /\ Under(o) = tag)
<1>1. Len(cache) \in Nat \ {0} /\ DOMAIN cache = 1 .. Len(cache)
  BY DEF ProjectInv, ProjectTypes, ProjectContents
<1>2. PICK k \in DOMAIN cache, tag \in {"CC", "DD"} :
        /\ k = Len(cache) - (IF tag = "CC" THEN 1 ELSE 0)
        /\ reading.block = cache[k] /\ Closing(CellsOf(k), tag)
        /\ tag = "CC" => Tagged(CellsOf(Len(cache)), {"AA", "BB"})
  <2>1. \/ /\ Len(cache) > 1 /\ reading.block = cache[Len(cache) - 1]
           /\ Tagged(CellsOf(Len(cache)), {"AA", "BB"})
        \/ reading.block = cache[Len(cache)] /\ Closing(CellsOf(Len(cache)), "DD")
    BY DEF ProjectInv, ProjectContents
  <2>2. \A k \in 1 .. Len(cache) - 1 : Closing(CellsOf(k), "CC")
    BY DEF ProjectInv, ProjectContents
  <2>3. CASE /\ Len(cache) > 1 /\ reading.block = cache[Len(cache) - 1]
             /\ Tagged(CellsOf(Len(cache)), {"AA", "BB"})
    <3>1. Len(cache) - 1 \in DOMAIN cache /\ Closing(CellsOf(Len(cache) - 1), "CC")
      BY <1>1, <2>2, <2>3
    <3>2. Len(cache) - 1 = Len(cache) - (IF "CC" = "CC" THEN 1 ELSE 0)
      OBVIOUS
    <3> QED
      BY <2>3, <3>1, <3>2
  <2>4. CASE reading.block = cache[Len(cache)] /\ Closing(CellsOf(Len(cache)), "DD")
    <3>1. Len(cache) \in DOMAIN cache /\ Len(cache) = Len(cache) - (IF "DD" = "CC" THEN 1 ELSE 0)
      BY <1>1
    <3>2. "DD" # "CC"
      OBVIOUS
    <3> QED
      BY <2>4, <3>1, <3>2
  <2> QED
    BY <2>1, <2>3, <2>4
<1>3. CellsOf(k) \in Seq(Cells)
  BY ProjectCells DEF TypeIInv, ProjectInv
<1>4. /\ Len(CellsOf(k)) \in Nat \ {0} /\ DOMAIN CellsOf(k) = 1 .. Len(CellsOf(k))
      /\ \A i \in DOMAIN CellsOf(k) : CellsOf(k)[i].tag \in {"AA", "BB"}
                                      \/ (i = Len(CellsOf(k)) /\ CellsOf(k)[i].tag = tag)
  BY <1>2, <1>3, CellsClosed
<1>5. at.offset \in 0 .. Len(CellsOf(k)) - 1
  BY <1>2, <1>4 DEF TypeIInv, PlaceTypes, Places, ProjectInv, ProjectContents, CellsOf
<1>6. ASSUME NEW o \in 0 .. Len(CellsOf(k)) - 1
      PROVE  /\ Under(o) = CellsOf(k)[o + 1].tag
             /\ Under(o) \in {"AA", "BB"} \/ (o = Len(CellsOf(k)) - 1 /\ Under(o) = tag)
  <2>1. Under(o) = CellsOf(k)[o + 1].tag
    BY <1>2 DEF Under, CellsOf
  <2>2. o + 1 \in DOMAIN CellsOf(k)
    BY <1>4
  <2> QED
    BY <1>4, <2>1, <2>2
<1>7. ASSUME RowEnded
      PROVE  Begins \in 0 .. Len(CellsOf(k)) - 1
  <2>1. CASE at.offset = 0
    BY <1>4, <2>1 DEF Begins
  <2>2. CASE at.offset # 0
    <3>1. Under(at.offset) = "BB"
      BY <1>7, <2>2 DEF RowEnded
    <3>2. at.offset # Len(CellsOf(k)) - 1
      <4>1. Under(Len(CellsOf(k)) - 1) = CellsOf(k)[Len(CellsOf(k))].tag
        <5>1. /\ Len(CellsOf(k)) - 1 \in 0 .. Len(CellsOf(k)) - 1
              /\ Len(CellsOf(k)) - 1 + 1 = Len(CellsOf(k))
          BY <1>4
        <5> QED
          BY <1>6, <5>1
      <4>2. CellsOf(k)[Len(CellsOf(k))].tag = tag
        BY <1>2 DEF Closing
      <4> QED
        BY <3>1, <4>1, <4>2
    <3> QED
      BY <1>4, <1>5, <2>2, <3>2 DEF Begins
  <2> QED
    BY <2>1, <2>2
<1> QED
  BY <1>2, <1>5, <1>6, <1>7

(* The blocks that exist while rows are read.                              *)
LEMMA ProjectLedgerStays ==
  ASSUME ProjectLedger, Reading, Reading',
         UNCHANGED <<statement, blocks, cache, reading>>
  PROVE  ProjectLedger'
<1>1. PICK j \in DOMAIN cache :
        /\ reading = [block |-> cache[j], previous |-> Prior(j)]
        /\ blocks = HeldBefore \cup BlocksFrom(j - 1)
  BY DEF ProjectLedger
<1>2. /\ reading' = [block |-> cache'[j], previous |-> Prior(j)'] /\ j \in DOMAIN cache'
      /\ blocks' = HeldBefore' \cup BlocksFrom(j - 1)'
  BY <1>1 DEF Prior, BlocksFrom, HeldBefore
<1>3. ~ Filling' /\ pc' \notin Ends
  BY DEF Reading, Filling, Ends
<1> QED
  BY <1>2, <1>3 DEF ProjectLedger, Prior, BlocksFrom

(* The block under the iterator has a number of its own.                   *)
LEMMA ProjectWhere ==
  ASSUME TypeIInv, ProjectInv, ProjectLedger, Reading, NEW k \in DOMAIN cache,
         reading.block = cache[k]
  PROVE  /\ reading = [block |-> cache[k], previous |-> Prior(k)]
         /\ blocks = HeldBefore \cup BlocksFrom(k - 1)
         /\ k \in Nat \ {0}
<1>1. PICK j \in DOMAIN cache :
        /\ reading = [block |-> cache[j], previous |-> Prior(j)]
        /\ blocks = HeldBefore \cup BlocksFrom(j - 1)
  BY DEF ProjectLedger
<1>2. j = k
  BY <1>1 DEF ProjectInv, ProjectTypes
<1> QED
  BY <1>1, <1>2 DEF ProjectInv, ProjectTypes

(* Rows are read, one after the other.                                     *)
LEMMA ProjectReads ==
  ASSUME TypeIInv, ProjectInv, Reading, Reading', at'.offset < Len(store[reading.block].cells),
         UNCHANGED <<copyVars, statement, reading, full>>,
         ProjectRead => ProjectRead'
  PROVE  ProjectInv'
<1>1. UNCHANGED <<sBlockNumber, blocks, store, cache>>
  BY DEF copyVars, managerVars
<1>2. ProjectTypes'
  BY <1>1, ProjectSame DEF ProjectInv
<1>3. ProjectContents'
  BY <1>1 DEF ProjectInv, ProjectContents, Filling, Reading, CellsOf, Tagged, Closing
<1>4. ProjectLedger => ProjectLedger'
  BY <1>1, ProjectLedgerStays
<1>5. pc' # "closed"
  BY DEF Reading
<1> QED
  BY <1>1, <1>2, <1>3, <1>4, <1>5, ProjectIdle DEF ProjectInv

LEMMA ProjectReadsRow ==
  ASSUME TypeIInv, ProjectInv, ProjectedRow \/ UseProjectedRow
  PROVE  ProjectInv'
<1>1. Reading /\ Reading' /\ UNCHANGED <<copyVars, statement, reading, full>>
  BY DEF ProjectedRow, UseProjectedRow, RowRead, AtItem, Reading, GoTo
<1>2. PICK k \in DOMAIN cache :
        /\ reading.block = cache[k] /\ at.offset < Len(CellsOf(k))
        /\ RowEnded => Begins < Len(CellsOf(k))
  <2>1. PICK k \in DOMAIN cache :
        /\ reading.block = cache[k] /\ at.offset \in 0 .. Len(CellsOf(k)) - 1
        /\ RowEnded => Begins \in 0 .. Len(CellsOf(k)) - 1
    BY <1>1, ProjectUnder
  <2>2. Len(CellsOf(k)) \in Nat
    BY ProjectCells DEF TypeIInv, ProjectInv
  <2> QED
    BY <2>1, <2>2
<1>3. at'.offset < Len(CellsOf(k))
  <2>1. CASE ProjectedRow
    BY <1>2, <2>1 DEF ProjectedRow, TypeIInv, PlaceTypes, Places
  <2>2. CASE UseProjectedRow
    BY <1>2, <2>2 DEF UseProjectedRow
  <2> QED
    BY <2>1, <2>2
<1>4. ProjectRead => ProjectRead'
  <2>1. CASE ProjectedRow
    <3>1. read' = <<>> /\ <<>> \in Seq(Places) /\ DOMAIN <<>> = {}
      BY <2>1 DEF ProjectedRow
    <3> QED
      BY <3>1, <1>1 DEF ProjectRead, Filling, Reading
  <2>2. CASE UseProjectedRow
    BY <2>2 DEF ProjectRead, UseProjectedRow, Filling, GoTo
  <2> QED
    BY <2>1, <2>2
<1> QED
  BY <1>1, <1>2, <1>3, <1>4, ProjectReads DEF CellsOf

LEMMA ProjectReadsItem ==
  ASSUME TypeIInv, ProjectInv, ReadItem
  PROVE  ProjectInv'
<1>1. /\ pc = "read" /\ Reading /\ Reading' /\ UNCHANGED <<copyVars, pc, statement, reading, full>>
      /\ Under(at.offset) = "AA" /\ at' = [at EXCEPT !.offset = @ + 1]
      /\ read' = Append(read, [block |-> reading.block, offset |-> at.offset])
  BY DEF ReadItem, Reading
<1>2. PICK k \in DOMAIN cache, tag \in {"CC", "DD"} :
        /\ reading.block = cache[k] /\ Closing(CellsOf(k), tag)
        /\ at.offset \in 0 .. Len(CellsOf(k)) - 1
        /\ Under(at.offset) = CellsOf(k)[at.offset + 1].tag
  BY <1>1, ProjectUnder
<1>3. Len(CellsOf(k)) \in Nat /\ cache[k] # NoBlock /\ cache[k] \in Nat
  BY ProjectCells DEF TypeIInv, ProjectInv, StoreTypes
<1>4. at.offset + 1 # Len(CellsOf(k))
  BY <1>1, <1>2 DEF Closing
<1>5. at'.offset = at.offset + 1 /\ at.offset \in Nat /\ at'.offset < Len(CellsOf(k))
  BY <1>1, <1>2, <1>3, <1>4 DEF TypeIInv, PlaceTypes, Places
<1>6. ASSUME ProjectRead
      PROVE  ProjectRead'
  <2> DEFINE point == [block |-> reading.block, offset |-> at.offset]
  <2>1. read \in Seq(Places) /\ point \in Places /\ point.block = reading.block
    BY <1>1, <1>2, <1>3, <1>5, <1>6 DEF ProjectRead, Places
  <2> HIDE DEF point
  <2>2. /\ read' = Append(read, point) /\ read' \in Seq(Places)
        /\ DOMAIN read' = DOMAIN read \cup {Len(read) + 1} /\ read'[Len(read) + 1] = point
        /\ \A c \in DOMAIN read : read'[c] = read[c]
    BY <1>1, <2>1 DEF point
  <2>3. \A c \in DOMAIN read' :
          read'[c].block \in {reading'.block, reading'.previous} \ {NoBlock}
    BY <1>1, <1>2, <1>3, <1>6, <2>1, <2>2 DEF ProjectRead
  <2>4. ASSUME NEW c \in DOMAIN read', read'[c].block # reading'.block,
               NEW i \in 1 .. at'.offset
        PROVE  store'[reading'.block].cells[i].tag = "AA"
    <3>1. c \in DOMAIN read /\ read[c].block # reading.block
      BY <1>1, <2>1, <2>2, <2>4
    <3>2. store[reading.block].cells[i].tag = "AA"
      <4>1. CASE i \in 1 .. at.offset
        BY <1>1, <1>6, <3>1, <4>1 DEF ProjectRead
      <4>2. CASE i = at.offset + 1
        BY <1>1, <4>2 DEF Under
      <4> QED
        BY <1>5, <4>1, <4>2
    <3> QED
      BY <1>1, <3>2 DEF copyVars
  <2>5. pc' = "read" /\ ~ Filling'
    BY <1>1 DEF Filling
  <2> QED
    BY <2>2, <2>3, <2>4, <2>5 DEF ProjectRead
<1> QED
  BY <1>1, <1>2, <1>5, <1>6, ProjectReads DEF CellsOf

(* The end of the rows is in the last block, which is given back with the  *)
(* one before it.                                                          *)
LEMMA ProjectReadsEnd ==
  ASSUME TypeIInv, ProjectInv, ProjectedEnd
  PROVE  ProjectInv'
<1>1. /\ Reading /\ RowEnded /\ Under(Begins) = "DD" /\ pc' = "release" /\ outcome' = "eof"
      /\ UNCHANGED <<copyVars, statement, reading, full>>
  BY DEF ProjectedEnd, AtItem, Reading, Destroy, GoTo
<1>2. PICK k \in DOMAIN cache, tag \in {"CC", "DD"} :
        /\ k = Len(cache) - (IF tag = "CC" THEN 1 ELSE 0)
        /\ reading.block = cache[k]
        /\ Begins \in 0 .. Len(CellsOf(k)) - 1
        /\ Under(Begins) \in {"AA", "BB"} \/ Under(Begins) = tag
  BY <1>1, ProjectUnder
<1>3. k = Len(cache) /\ Len(cache) \in Nat \ {0} /\ DOMAIN cache = 1 .. Len(cache)
  <2>1. tag = "DD"
    BY <1>1, <1>2
  <2>2. Len(cache) \in Nat \ {0} /\ DOMAIN cache = 1 .. Len(cache)
    BY <1>2 DEF ProjectInv, ProjectTypes
  <2> QED
    BY <1>2, <2>1, <2>2
<1>4. UNCHANGED <<sBlockNumber, blocks, store, cache>>
  BY <1>1 DEF copyVars, managerVars
<1>5. ProjectTypes'
  BY <1>1, <1>4, ProjectSame DEF ProjectInv
<1>6. ASSUME ProjectLedger
      PROVE  ProjectLedger'
  <2>1. /\ reading = [block |-> cache[k], previous |-> Prior(k)]
        /\ blocks = HeldBefore \cup BlocksFrom(k - 1)
    BY <1>1, <1>2, <1>6, ProjectWhere
  <2>2. cache[k] # NoBlock /\ \A i \in DOMAIN cache : cache[i] # NoBlock
    BY ProjectCells DEF TypeIInv, ProjectInv
  <2>3. BlocksFrom(k - 1) = {cache[k], Prior(k)} \ {NoBlock}
    <3>1. CASE k = 1
      <4>1. {j \in DOMAIN cache : j >= k - 1} = {1} /\ Prior(k) = NoBlock
        BY <1>3, <3>1 DEF Prior
      <4> QED
        BY <2>2, <3>1, <4>1 DEF BlocksFrom
    <3>2. CASE k > 1
      <4>1. {j \in DOMAIN cache : j >= k - 1} = {k - 1, k} /\ Prior(k) = cache[k - 1]
        BY <1>3, <3>2 DEF Prior
      <4> QED
        BY <1>3, <2>2, <4>1 DEF BlocksFrom
    <3> QED
      BY <1>3, <3>1, <3>2
  <2>4. cache[k] # Prior(k)
    BY <1>3, <2>2 DEF Prior, ProjectInv, ProjectTypes
  <2>5. blocks' = HeldBefore' \cup ({reading'.block, reading'.previous} \ {NoBlock})
        /\ reading'.block # reading'.previous
    BY <1>1, <1>4, <2>1, <2>3, <2>4 DEF HeldBefore
  <2> QED
    BY <1>1, <2>5 DEF ProjectLedger, Filling, Reading, Ends
<1>7. ProjectContents' /\ ProjectRead'
  BY <1>1 DEF ProjectContents, ProjectRead, Filling, Reading
<1> QED
  BY <1>1, <1>4, <1>5, <1>6, <1>7, ProjectIdle DEF ProjectInv

(* The iterator leaves a block for the one behind it and gives back the    *)
(* one before.  If a value of the row is in that, the row goes through the *)
(* block that it leaves.                                                   *)
LEMMA ProjectReadsOn ==
  ASSUME TypeIInv, ProjectInv, NextItemBlock
  PROVE  ProjectInv'
<1>1. /\ pc = "read" /\ Reading /\ pc' = "pull" /\ Under(at.offset) = "CC"
      /\ BM!Release(reading.previous)
      /\ reading' = [block |-> NoBlock, previous |-> reading.block]
      /\ UNCHANGED <<store, cache, statement, outcome, full, read, at>>
  BY DEF NextItemBlock, Reading, GoTo
<1>2. PICK k \in DOMAIN cache, tag \in {"CC", "DD"} :
        /\ k = Len(cache) - (IF tag = "CC" THEN 1 ELSE 0)
        /\ reading.block = cache[k] /\ Closing(CellsOf(k), tag)
        /\ tag = "CC" => Tagged(CellsOf(Len(cache)), {"AA", "BB"})
        /\ at.offset \in 0 .. Len(CellsOf(k)) - 1
        /\ \A o \in 0 .. Len(CellsOf(k)) - 1 :
             /\ Under(o) = CellsOf(k)[o + 1].tag
             /\ Under(o) \in {"AA", "BB"} \/ (o = Len(CellsOf(k)) - 1 /\ Under(o) = tag)
  BY <1>1, ProjectUnder
<1>3. PICK n \in Nat \ {0} : n = Len(cache) /\ DOMAIN cache = 1 .. n
  BY <1>2 DEF ProjectInv, ProjectTypes
<1>4. tag = "CC" /\ k = n - 1 /\ n > 1 /\ at.offset = Len(CellsOf(k)) - 1
      /\ Tagged(CellsOf(n), {"AA", "BB"})
  BY <1>1, <1>2, <1>3
<1>5. \A i \in DOMAIN cache : cache[i] # NoBlock /\ cache[i] \notin HeldBefore
  BY ProjectCells DEF TypeIInv, ProjectInv
<1>6. /\ sBlockNumber' = sBlockNumber /\ HeldBefore' = HeldBefore
      /\ blocks' = blocks \ ({reading.previous} \ {NoBlock})
  BY <1>1 DEF BM!Release, BM!managerVars, HeldBefore, NoBlock
<1>7. ProjectTypes'
  <2>1. reading' \in [block : {NoBlock} \cup Own, previous : {NoBlock} \cup Own]
    BY <1>1, <1>2 DEF Own
  <2>2. HeldBefore \subseteq blocks'
    BY <1>5, <1>6 DEF ProjectInv, ProjectTypes, Own
  <2> QED
    BY <1>1, <1>6, <2>1, <2>2 DEF ProjectInv, ProjectTypes, NewerBlocks, Own
<1>8. ProjectContents'
  BY <1>1, <1>2, <1>3, <1>4 DEF ProjectInv, ProjectContents, Filling, Reading, CellsOf, Tagged, Closing
<1>9. ASSUME ProjectLedger, ProjectRead, ~ Parts
      PROVE  ProjectLedger' /\ ProjectRead'
  <2>1. /\ reading = [block |-> cache[n - 1], previous |-> Prior(n - 1)]
        /\ blocks = HeldBefore \cup BlocksFrom(n - 2)
    BY <1>1, <1>2, <1>3, <1>4, <1>9, ProjectWhere
  <2>2. full' = NoBlock
    BY <1>1 DEF ProjectInv, ProjectContents
  <2>3. OldestFilled' = n /\ Prior(n)' = cache[n - 1]
    BY <1>1, <1>3, <1>4, <2>2 DEF OldestFilled, Prior
  <2>4. BlocksFrom(n - 1) = BlocksFrom(n - 2) \ ({Prior(n - 1)} \ {NoBlock})
    <3>1. CASE n - 1 = 1
      <4>1. Prior(n - 1) = NoBlock /\ {j \in DOMAIN cache : j >= n - 2} = {j \in DOMAIN cache : j >= n - 1}
        BY <1>3, <3>1 DEF Prior
      <4> QED
        BY <4>1 DEF BlocksFrom
    <3>2. CASE n - 1 > 1
      <4>1. Prior(n - 1) = cache[n - 2] /\ n - 2 \in DOMAIN cache
        BY <1>3, <3>2 DEF Prior
      <4>2. {j \in DOMAIN cache : j >= n - 1} = {j \in DOMAIN cache : j >= n - 2} \ {n - 2}
        BY <1>3, <3>2
      <4>3. \A i \in DOMAIN cache : i # n - 2 => cache[i] # cache[n - 2]
        BY <4>1 DEF ProjectInv, ProjectTypes
      <4> QED
        BY <1>5, <4>1, <4>2, <4>3 DEF BlocksFrom
    <3> QED
      BY <1>3, <1>4, <3>1, <3>2
  <2>5. blocks' = HeldBefore' \cup BlocksFrom(n - 1)'
    <3>1. BlocksFrom(n - 1)' = BlocksFrom(n - 1)
      BY <1>1 DEF BlocksFrom
    <3>2. ({Prior(n - 1)} \ {NoBlock}) \cap HeldBefore = {}
      BY <1>3, <1>5 DEF Prior
    <3> QED
      BY <1>6, <2>1, <2>4, <3>1, <3>2
  <2>6. ProjectLedger'
    BY <1>1, <1>3, <1>4, <2>1, <2>3, <2>5 DEF ProjectLedger, Filling, Reading, Ends
  <2>7. ASSUME NEW c \in DOMAIN read, read[c].block # reading.block
        PROVE  FALSE
    <3>1. read[c].block = Prior(n - 1) /\ Prior(n - 1) # NoBlock
      BY <1>1, <1>9, <2>1, <2>7 DEF ProjectRead
    <3>2. n - 1 \in 2 .. Len(cache) - 1
      BY <1>3, <1>4, <3>1 DEF Prior
    <3>3. ASSUME NEW i \in DOMAIN CellsOf(k)
          PROVE  CellsOf(k)[i].tag \in {"AA", "CC"}
      <4>1. Len(CellsOf(k)) \in Nat \ {0} /\ i \in 1 .. Len(CellsOf(k))
        <5>1. CellsOf(k) \in Seq(Cells)
          BY ProjectCells DEF TypeIInv, ProjectInv
        <5> QED
          BY <1>2, <3>3, <5>1, CellsClosed
      <4>2. CASE i = Len(CellsOf(k))
        BY <1>2, <1>4, <4>2 DEF Closing
      <4>3. CASE i \in 1 .. at.offset
        <5>1. store[reading.block].cells[i].tag = "AA"
          BY <1>1, <1>9, <2>7, <4>3 DEF ProjectRead
        <5> QED
          BY <1>2, <5>1 DEF CellsOf
      <4> QED
        BY <1>4, <4>1, <4>2, <4>3
    <3>4. Tagged(CellsOf(n - 1), {"AA", "CC"})
      BY <1>4, <3>3 DEF Tagged
    <3> QED
      BY <1>9, <3>2, <3>4 DEF Parts
  <2>8. ProjectRead'
    BY <1>1, <1>2, <1>5, <1>9, <2>7 DEF ProjectRead, Filling
  <2> QED
    BY <2>6, <2>8
<1> QED
  BY <1>1, <1>7, <1>8, <1>9, ProjectIdle DEF ProjectInv

(* The iterator gives its two blocks back, and all has ended.              *)
LEMMA ProjectReleases ==
  ASSUME TypeIInv, ProjectInv, ReleaseRead
  PROVE  ProjectInv'
<1>1. /\ pc = "release" /\ pc' = pc /\ UNCHANGED <<store, cache, statement, outcome, full, read>>
      /\ \/ /\ reading.previous # NoBlock /\ BM!Release(reading.previous)
            /\ reading' = [reading EXCEPT !.previous = NoBlock]
         \/ /\ reading.previous = NoBlock /\ reading.block # NoBlock /\ BM!Release(reading.block)
            /\ reading' = [reading EXCEPT !.block = NoBlock]
  <2>1. reading = [block |-> reading.block, previous |-> reading.previous]
    BY DEF ProjectInv, ProjectTypes
  <2> QED
    BY <2>1 DEF ReleaseRead, commonVars, ReadReleased
<1>2. reading \in [block : {NoBlock} \cup Own, previous : {NoBlock} \cup Own]
  BY DEF ProjectInv, ProjectTypes
<1>3. PICK b \in Own : /\ blocks' = blocks \ {b} /\ sBlockNumber' = sBlockNumber /\ b # NoBlock
                       /\ \/ b = reading.previous /\ reading' = [block |-> reading.block, previous |-> NoBlock]
                          \/ /\ b = reading.block /\ reading.previous = NoBlock
                             /\ reading' = [block |-> NoBlock, previous |-> NoBlock]
  BY <1>1, <1>2 DEF BM!Release, NoBlock
<1>4. b \notin HeldBefore
  BY <1>3, ProjectCells DEF TypeIInv, ProjectInv, Own
<1>5. ProjectTypes'
  <2>1. reading' \in [block : {NoBlock} \cup Own', previous : {NoBlock} \cup Own']
    BY <1>1, <1>2, <1>3 DEF Own
  <2> QED
    BY <1>1, <1>3, <1>4, <2>1 DEF ProjectInv, ProjectTypes, NewerBlocks, Own, HeldBefore
<1>6. ASSUME ProjectLedger PROVE ProjectLedger'
  <2> SUFFICES ASSUME outcome = "eof"
               PROVE  /\ blocks' = HeldBefore \cup ({reading'.block, reading'.previous} \ {NoBlock})
                      /\ reading'.block = reading'.previous => ReadReleased'
    BY <1>1 DEF ProjectLedger, Filling, Reading, Ends, HeldBefore
  <2>1. /\ blocks = HeldBefore \cup ({reading.block, reading.previous} \ {NoBlock})
        /\ reading.block = reading.previous => ReadReleased
    BY <1>1, <1>6 DEF ProjectLedger, Ends
  <2>2. reading.block # reading.previous
    BY <1>3, <2>1 DEF ReadReleased
  <2> QED
    BY <1>3, <1>4, <2>1, <2>2 DEF ReadReleased
<1>7. ProjectContents' /\ ProjectRead'
  BY <1>1 DEF ProjectContents, ProjectRead, Filling, Reading
<1> QED
  BY <1>1, <1>5, <1>6, <1>7, ProjectIdle DEF ProjectInv

LEMMA ProjectCloses ==
  ASSUME ProjectInv, Close, UNCHANGED ownVars
  PROVE  ProjectInv'
<1>1. /\ pc = "release" /\ pc' = "closed" /\ ReadReleased /\ UNCHANGED <<copyVars, statement, outcome>>
      /\ UNCHANGED <<full, reading, read>>
  BY DEF Close, GivenBack, GoTo, commonVars, ownVars
<1>2. UNCHANGED <<sBlockNumber, blocks, store, cache>> /\ ReadReleased'
  BY <1>1 DEF copyVars, managerVars, ReadReleased
<1>3. ProjectTypes'
  BY <1>1, <1>2, ProjectSame DEF ProjectInv
<1>4. ProjectLedger => ProjectLedger'
  BY <1>1, <1>2 DEF ProjectLedger, Filling, Reading, Ends, HeldBefore
<1>5. ProjectContents' /\ ProjectRead'
  BY <1>1 DEF ProjectContents, ProjectRead, Filling, Reading
<1> QED
  BY <1>2, <1>3, <1>4, <1>5, ProjectIdle DEF ProjectInv

LEMMA ProjectKeeps ==
  ASSUME TypeIInv, ProjectInv, Projecting,
         \/ ProjectNext
         \/ (InputThrows \/ Abandon \/ Close) /\ UNCHANGED ownVars
  PROVE  ProjectInv'
BY ProjectFirst, ProjectEndings, ProjectTakes, ProjectAdds, ProjectAddsToNext, ProjectEndsRow,
  ProjectHandsFull, ProjectHandsLast, ProjectReadsEnd, ProjectReadsRow, ProjectReadsItem,
  ProjectReadsOn, ProjectReleases, ProjectCloses
  DEF ProjectNext
-----------------------------------------------------------------------------
(***************************************************************************)
(* All operators.                                                          *)
(***************************************************************************)
RowIInv ==
  /\ TypeIInv
  /\ ~ Projecting => Keeping
  /\ Projecting => ProjectInv /\ functionBlocks = <<>>

(* An operator takes its own steps only.                                   *)
LEMMA SortOnly == SortNext => Sorting
BY DEF SortNext, SortFirstBlock, SortFirstBlockThrows, SortPull, SortCopying, SortCopy,
  SortCopyThrows, SortEndRow, SortEndOfInput, Sort, SortUndefined, SortThrows,
  SortedLeft, SortedRow, SortedRowThrows, SortedEnd

LEMMA GroupOnly ==
  GroupNext => \/ Grouping \/ Aggregating
               \/ pc \in {"functions", "new", "spare", "write"} \/ functionBlocks # <<>>
BY DEF GroupNext, GroupFirstBlock, GroupFirstFunctionBlock, Pulling, GroupStep,
  GroupStepOnReleased, GroupPullNew, Cloning, CloneFunction, CloneToNextBlock, EnterGroup,
  GroupEndOfInput, SpareBlock, WritingResult, Writing, AddResult, ResultToNextBlock,
  ResultDropped, ReadReleasedResult, EndGroup, EndGroups, AsksForBlock, GroupBlockThrows,
  ReadingGroups, GroupedRow, GroupedRowThrows, GroupedEnd, ReleaseFunctionBlock

LEMMA ProjectOnly == ProjectNext => Projecting
BY DEF ProjectNext, ProjectFirstBlock, ProjectFirstBlockThrows, Preparing, ProjectRow,
  EvaluatingItem, ProjectItem, ProjectItemToNext, ProjectItemThrows, ProjectEndRow,
  HandFullBlock, HandLastBlock, AtItem, ProjectedRowThrows, ProjectedEnd, ProjectedRow,
  ReadItem, NextItemBlock, ReadItemThrows, RowRead, UseProjectedRow, ReleaseRead

LEMMA KeepingBegins == Init => Keeping
<1> SUFFICES ASSUME Init PROVE Keeping
  OBVIOUS
<1>1. statement.held \in Nat
  BY StatementTypes DEF Init, CommonInit
<1>2. Ledger
  <2>1. cache = <<>> /\ functionBlocks = <<>> /\ blocks = HeldBefore /\ sBlockNumber = statement.held
    BY DEF Init, CommonInit
  <2>2. DOMAIN cache = {} /\ DOMAIN functionBlocks = {} /\ cache \in Seq({NoBlock} \cup NewerBlocks)
        /\ functionBlocks \in Seq(NewerBlocks)
    BY <2>1
  <2> QED
    BY <1>1, <2>1, <2>2 DEF Ledger
<1>3. KeepShape
  BY DEF Init, CommonInit, KeepShape, ReadReleased, Ends, KeepsBlocks
<1> QED
  BY <1>2, <1>3 DEF Keeping

LEMMA RowBegins == Init => RowIInv
BY TypesBegin, KeepingBegins, ProjectBegins DEF RowIInv, Init

LEMMA RowSame ==
  ASSUME UNCHANGED vars
  PROVE  (Keeping => Keeping') /\ (ProjectInv => ProjectInv') /\ UNCHANGED functionBlocks
<1>1. UNCHANGED <<statement, pc, at, outcome, functionBlocks, full, reading, read, sBlockNumber,
                  blocks, store, cache>>
  BY DEF vars, ownVars, copyVars, managerVars, commonVars
<1>2. Keeping => Keeping'
  BY <1>1, LedgerSame DEF Keeping, KeepShape, ReadReleased, Grouping, Aggregating, Sorting,
    KeepsBlocks, AllReleased, Ends
<1>3. ASSUME ProjectInv PROVE ProjectInv'
  <2>1. ProjectTypes'
    BY <1>1, <1>3, ProjectSame DEF ProjectInv
  <2>2. ProjectContents'
    BY <1>1, <1>3 DEF ProjectInv, ProjectContents, Filling, Reading, CellsOf, Tagged, Closing,
      ReadReleased, HeldBefore
  <2>3. ProjectLedger => ProjectLedger'
    BY <1>1 DEF ProjectLedger, Filling, Reading, Ends, OldestFilled, Prior, BlocksFrom,
      HeldBefore, ReadReleased
  <2>4. ProjectRead => ProjectRead'
    BY <1>1 DEF ProjectRead, Filling
  <2> QED
    BY <1>1, <1>3, <2>1, <2>2, <2>3, <2>4, ProjectIdle DEF ProjectInv, ReadReleased
<1> QED
  BY <1>1, <1>2, <1>3

LEMMA RowStep == RowIInv /\ [Next]_vars => RowIInv'
<1> SUFFICES ASSUME RowIInv, [Next]_vars PROVE RowIInv'
  OBVIOUS
<1>1. TypeIInv' /\ UNCHANGED statement
  BY TypesStep, InputSteps DEF RowIInv, InputStep
<1>2. Projecting <=> Projecting'
  BY <1>1 DEF Projecting
<1>3. CASE UNCHANGED vars
  BY <1>1, <1>2, <1>3, RowSame DEF RowIInv
<1>4. CASE Projecting /\ Next /\ ~ UNCHANGED vars
  <2>1. ~ SortNext /\ ~ GroupNext /\ ~ KeepsBlocks
    BY <1>4, Kinds, SortOnly, GroupOnly DEF KeepsBlocks, RowIInv, TypeIInv, Stages, Ends
  <2>2. ~ ReleaseBlocks /\ ~ Stopped
    BY <1>4, <2>1 DEF Stopped, ReleaseBlocks
  <2>3. ProjectInv'
    BY <1>4, <2>1, <2>2, ProjectKeeps DEF Next, RowIInv
  <2>4. functionBlocks' = <<>>
    BY <1>4, <2>1 DEF Next, Stopped, ownVars, RowIInv
  <2> QED
    BY <1>1, <1>2, <1>4, <2>3, <2>4 DEF RowIInv
<1>5. CASE ~ Projecting /\ Next /\ ~ UNCHANGED vars
  <2>1. ~ ProjectNext
    BY <1>5, ProjectOnly
  <2>2. Keeping'
    BY <1>5, <2>1, SortKeeps, GroupKeeps, OthersKeep DEF Next, Stopped, RowIInv
  <2> QED
    BY <1>1, <1>2, <1>5, <2>2 DEF RowIInv
<1> QED
  BY <1>3, <1>4, <1>5

(* What is found out of a block that rows go through.                      *)
LEMMA PartsAreLarge == TypeIInv /\ ProjectTypes /\ Parts => LargeRows
BY DEF Parts, LargeRows, Tagged, CellsOf, ProjectTypes

LEMMA ReadPoints == TypeIInv /\ Projecting /\ ProjectInv => RowPointsIntoBlocks
<1> SUFFICES ASSUME TypeIInv, ProjectInv, RowRead, ~ LargeRows
             PROVE  \A c \in Items : read[c].block \in blocks
  BY DEF RowPointsIntoBlocks
<1>1. pc = "read" /\ Len(read) = Len(List) /\ ProjectLedger /\ ProjectRead
  BY PartsAreLarge DEF RowRead, ProjectInv
<1>2. PICK j \in DOMAIN cache :
        /\ reading = [block |-> cache[j], previous |-> Prior(j)]
        /\ blocks = HeldBefore \cup BlocksFrom(j - 1)
  BY <1>1 DEF ProjectLedger, Reading
<1>3. cache[j] \in blocks /\ (Prior(j) # NoBlock => Prior(j) \in blocks)
  BY <1>2 DEF BlocksFrom, Prior, ProjectInv, ProjectTypes
<1>4. Items = DOMAIN read
  BY <1>1 DEF Items, ProjectRead
<1> QED
  BY <1>1, <1>2, <1>3, <1>4 DEF ProjectRead

LEMMA BlocksAccounted == RowIInv => BlocksExplained
<1> SUFFICES ASSUME RowIInv PROVE BlocksExplained
  OBVIOUS
<1>1. CASE Projecting
  <2>1. RowPointsIntoBlocks /\ HeldBefore \subseteq blocks
    BY <1>1, ReadPoints DEF RowIInv, ProjectInv, ProjectTypes
  <2>2. ASSUME pc = "closed", blocks # HeldBefore, outcome = "eof", ~ LargeRows
        PROVE  FALSE
    <3>1. ProjectLedger /\ ReadReleased
      BY <1>1, <2>2, PartsAreLarge DEF RowIInv, ProjectInv
    <3> QED
      BY <2>2, <3>1 DEF ProjectLedger, Ends, ReadReleased
  <2> QED
    BY <1>1, <2>1, <2>2 DEF BlocksExplained
<1>2. CASE ~ Projecting
  <2>1. RowPointsIntoBlocks
    BY <1>2 DEF RowPointsIntoBlocks, RowRead
  <2>2. HeldBefore \subseteq blocks
    BY <1>2 DEF RowIInv, Keeping, Ledger
  <2>3. pc = "closed" /\ blocks # HeldBefore =>
          Aggregating /\ outcome = "failed" /\ Cardinality(blocks \ HeldBefore) <= 1
    BY <1>2, KeptReleased DEF RowIInv
  <2>4. pc = "closed" => Cardinality(blocks \ HeldBefore) <= 1
    <3>1. CASE blocks = HeldBefore
      <4>1. blocks \ HeldBefore = {}
        BY <3>1
      <4> QED
        BY <4>1, FS_EmptySet
    <3> QED
      BY <2>3, <3>1
  <2> QED
    BY <2>1, <2>2, <2>3, <2>4 DEF BlocksExplained
<1> QED
  BY <1>1, <1>2

(* Whatever the statement, its rows and the size of the blocks: at the end *)
(* of a statement all blocks that its operator took have been given back,  *)
(* except the one that a projection fills when it is not read to its end,  *)
(* those of rows that go through whole blocks, and that of an aggregation  *)
(* that fails before it has its row; a block that other operators hold is  *)
(* never given back, and a projected row points into blocks that exist.    *)
THEOREM BlocksExplainedHolds == Spec => []BlocksExplained
<1>1. Spec => []RowIInv
  BY RowBegins, RowStep, PTL DEF Spec
<1> QED
  BY <1>1, BlocksAccounted, PTL
-----------------------------------------------------------------------------
(***************************************************************************)
(* The rows that the operators below deliver.                              *)
(***************************************************************************)
From ==
  IF statement.offset < Len(statement.rows) THEN statement.offset ELSE Len(statement.rows)
UpTo ==
  IF statement.limit < 0 \/ From + statement.limit > Len(statement.rows)
  THEN Len(statement.rows) ELSE From + statement.limit
Firsts == UpTo - From
Seconds == IF statement.union THEN Len(statement.more) ELSE 0
RowNumber(k) == IF k <= Firsts THEN From + k ELSE Len(statement.rows) + (k - Firsts)

LEMMA TakenRows ==
  ASSUME statement \in Statements
  PROVE  /\ From \in Nat /\ Firsts \in Nat /\ From + Firsts <= Len(statement.rows)
         /\ Seconds \in Nat
         /\ Taken \in Seq(Nat) /\ Len(Taken) = Firsts + Seconds
         /\ \A k \in 1 .. Firsts + Seconds : Taken[k] = RowNumber(k)
<1>1. PICK n \in Nat : n = Len(statement.rows)
  BY StatementTypes
<1>2. PICK m \in Nat : m = Len(statement.more)
  BY StatementTypes
<1>3. statement.offset \in Nat /\ statement.limit \in Int
  BY StatementTypes
<1>4. From \in 0 .. n /\ UpTo \in From .. n
  BY <1>1, <1>3 DEF From, UpTo
<1>5. PICK f \in Nat : f = Firsts
  BY <1>4 DEF Firsts
<1>6. Seconds \in {0, m} /\ From + Firsts <= n
  BY <1>2, <1>4 DEF Seconds, Firsts
<1> DEFINE first == [k \in 1 .. f |-> From + k]
           second == [k \in 1 .. m |-> n + k]
           rest == IF statement.union THEN second ELSE <<>>
<1>7. first \in Seq(Nat) /\ Len(first) = f /\ \A k \in 1 .. f : first[k] = From + k
  BY <1>4
<1>8. second \in Seq(Nat) /\ Len(second) = m /\ \A k \in 1 .. m : second[k] = n + k
  OBVIOUS
<1>9. rest \in Seq(Nat) /\ Len(rest) = Seconds /\ \A k \in 1 .. Seconds : rest[k] = n + k
  BY <1>2, <1>8 DEF Seconds
<1>10. Taken = first \o rest
  BY <1>1, <1>2, <1>5 DEF Taken, Firsts, UpTo, From
<1> HIDE DEF first, second, rest
<1>11. Taken \in Seq(Nat) /\ Len(Taken) = f + Seconds
  BY <1>7, <1>9, <1>10, ConcatProperties
<1>12. ASSUME NEW k \in 1 .. f + Seconds
       PROVE  Taken[k] = RowNumber(k)
  <2>1. CASE k <= f
    <3>1. k \in 1 .. f /\ Taken[k] = first[k]
      BY <1>6, <1>7, <1>9, <1>10, <2>1
    <3> QED
      BY <1>5, <1>7, <2>1, <3>1 DEF RowNumber
  <2>2. CASE k > f
    <3>1. k - f \in 1 .. Seconds /\ Taken[k] = rest[k - f]
      BY <1>6, <1>7, <1>9, <1>10, <2>2
    <3> QED
      BY <1>1, <1>5, <1>9, <2>2, <3>1 DEF RowNumber
  <2> QED
    BY <1>6, <2>1, <2>2
<1> QED
  BY <1>4, <1>5, <1>6, <1>1, <1>11, <1>12

(* The input before its end: nothing was asked for, or the OFFSET has been *)
(* passed and the LIMIT counts down; or the union has changed over.        *)
Untouched(s) ==
  /\ s.offset = statement.offset /\ s.pos = 0
  /\ s.limit = IF statement.limit < 0 THEN -1 ELSE statement.limit + 1
Started(s, k) ==
  /\ s.offset = 0 /\ s.pos = From + k /\ k <= Firsts
  /\ s.limit = IF statement.limit < 0 THEN -1 ELSE statement.limit + 1 - k
FirstInput(s, k) ==
  /\ ~ s.firstEnded /\ s.second = 0 /\ s.ends = 0
  /\ (k = 0 /\ Untouched(s)) \/ (k > 0 /\ Started(s, k))
SecondInput(s, k) ==
  /\ s.firstEnded /\ statement.union
  /\ k = Firsts + s.second /\ s.ends = 0
Ended(s, k) == s.ends = 1 /\ k = Firsts + Seconds
InputInv ==
  /\ \A k \in DOMAIN pulled : pulled[k] = RowNumber(k)
  /\ \/ FirstInput(in, Len(pulled)) \/ SecondInput(in, Len(pulled))
     \/ Ended(in, Len(pulled))

LEMMA InputGives == InputTypes /\ InputInv => InputExplained
<1> SUFFICES ASSUME InputTypes, InputInv PROVE InputExplained
  OBVIOUS
<1>1. PICK n \in Nat : n = Len(pulled) /\ DOMAIN pulled = 1 .. n /\ pulled \in Seq(Nat)
  BY DEF InputTypes, RowNumbers
<1>2. /\ From \in Nat /\ Firsts \in Nat /\ Seconds \in Nat
      /\ Taken \in Seq(Nat) /\ Len(Taken) = Firsts + Seconds
      /\ \A k \in 1 .. Firsts + Seconds : Taken[k] = RowNumber(k)
  BY TakenRows DEF InputTypes
<1>3. n <= Firsts + Seconds /\ in.ends \in {0, 1} /\ (in.ends = 1 => n = Firsts + Seconds)
  <2>1. in.second \in 0 .. Len(statement.more)
    BY DEF InputTypes, InputStates
  <2>2. statement \in Statements
    BY DEF InputTypes
  <2>3. CASE FirstInput(in, n)
    BY <1>1, <1>2, <2>3 DEF FirstInput, Started
  <2>4. CASE SecondInput(in, n)
    BY <1>1, <1>2, <2>1, <2>2, <2>4, StatementTypes DEF SecondInput, Seconds
  <2>5. CASE Ended(in, n)
    BY <1>1, <2>5 DEF Ended
  <2> QED
    BY <1>1, <2>3, <2>4, <2>5 DEF InputInv
<1>4. ASSUME NEW k \in 1 .. n
      PROVE  pulled[k] = Taken[k]
  <2>1. k \in 1 .. Firsts + Seconds
    BY <1>2, <1>3
  <2>2. pulled[k] = RowNumber(k) /\ Taken[k] = RowNumber(k)
    BY <1>1, <1>2, <2>1 DEF InputInv
  <2> QED
    BY <2>2
<1>5. pulled = SubSeq(Taken, 1, n)
  BY <1>1, <1>2, <1>3, <1>4
<1>6. n = Firsts + Seconds => pulled = Taken
  BY <1>1, <1>2, <1>4
<1> QED
  BY <1>1, <1>2, <1>3, <1>5, <1>6 DEF InputExplained, IsPrefixOfRows

LEMMA FirstRows ==
  ASSUME statement \in Statements
  PROVE  /\ statement.offset > Len(statement.rows) => Firsts = 0
         /\ statement.offset <= Len(statement.rows) => From = statement.offset
         /\ statement.limit >= 0 => Firsts <= statement.limit
         /\ \A k \in 0 .. Firsts :
              /\ From + k = Len(statement.rows) => k = Firsts
              /\ From + k # Len(statement.rows) /\ k # statement.limit => k < Firsts
              /\ statement.limit >= 0 /\ statement.limit = k => k = Firsts
<1>1. PICK n \in Nat : n = Len(statement.rows)
  BY StatementTypes
<1>2. PICK off \in Nat, limit \in Int : off = statement.offset /\ limit = statement.limit
  BY StatementTypes
<1>3. /\ From = IF off < n THEN off ELSE n
      /\ UpTo = IF limit < 0 \/ From + limit > n THEN n ELSE From + limit
      /\ Firsts = UpTo - From
  BY <1>1, <1>2 DEF From, UpTo, Firsts
<1>4. From \in 0 .. n /\ UpTo \in Nat /\ Firsts \in Nat
  BY <1>3
<1>5. limit >= 0 => Firsts <= limit
  BY <1>3, <1>4
<1>6. (off > n => Firsts = 0) /\ (off <= n => From = off)
  BY <1>3, <1>4
<1>7. ASSUME NEW k \in 0 .. Firsts
      PROVE  /\ From + k = n => k = Firsts
             /\ From + k # n /\ k # limit => k < Firsts
             /\ limit >= 0 /\ limit = k => k = Firsts
  <2>1. UpTo <= n /\ (UpTo = n \/ (limit >= 0 /\ UpTo = From + limit))
    BY <1>3, <1>4
  <2> QED
    BY <1>3, <1>4, <1>5, <2>1
<1> QED
  BY <1>1, <1>2, <1>5, <1>6, <1>7

LEMMA LimitGives ==
  ASSUME statement \in Statements, NEW k \in Nat,
         NEW s \in InputStates(Len(statement.rows), Len(statement.more)), FirstInput(s, k)
  PROVE  LET next == LimitNext(s) IN
         /\ next.row > 0 => next.row = From + k + 1 /\ k < Firsts /\ FirstInput(next.state, k + 1)
         /\ ~ (next.row > 0) => /\ k = Firsts /\ next.state.second = 0 /\ next.state.ends = 0
                                /\ ~ next.state.firstEnded
<1>1. PICK n \in Nat : n = Len(statement.rows)
  BY StatementTypes
<1>2. PICK off \in Nat, limit \in Int : off = statement.offset /\ limit = statement.limit
  BY StatementTypes
<1>3. From \in Nat /\ Firsts \in Nat /\ From + Firsts <= n
  BY <1>1, TakenRows
<1>4. CASE s.offset > n - s.pos
  <2>1. Untouched(s) /\ k = 0
    BY <1>1, <1>3, <1>4 DEF FirstInput, Started
  <2>2. Firsts = 0
    BY <1>1, <1>4, <2>1, FirstRows DEF Untouched
  <2>3. LimitNext(s) = [state |-> [s EXCEPT !.pos = n, !.offset = @ - (n - s.pos)], row |-> 0]
    BY <1>1, <1>4 DEF LimitNext, Nothing
  <2>4. /\ LimitNext(s).row = 0 /\ LimitNext(s).state.second = s.second
        /\ LimitNext(s).state.ends = s.ends /\ LimitNext(s).state.firstEnded = s.firstEnded
    <3>1. PICK state : state = [s EXCEPT !.pos = n, !.offset = @ - (n - s.pos)]
      OBVIOUS
    <3>2. LimitNext(s).row = 0 /\ LimitNext(s).state = state
      BY <2>3, <3>1
    <3>3. state.second = s.second /\ state.ends = s.ends /\ state.firstEnded = s.firstEnded
      BY <3>1 DEF InputStates
    <3> QED
      BY <3>2, <3>3
  <2> QED
    BY <2>1, <2>2, <2>4 DEF FirstInput
<1>5. CASE ~ (s.offset > n - s.pos)
  <2> DEFINE t == IF s.offset > 0 THEN SkippedOffset(s) ELSE s
             c == [t EXCEPT !.limit = IF @ > 0 THEN @ - 1 ELSE @]
             left == IF limit < 0 THEN -1 ELSE limit + 1 - k
  <2>1. /\ t.offset = 0 /\ t.pos = From + k /\ k <= Firsts /\ t.limit = left
        /\ t.second = 0 /\ t.ends = 0 /\ ~ t.firstEnded
        /\ t \in [limit : Int, offset : Nat, pos : Nat, second : Nat, firstEnded : BOOLEAN, ends : Nat]
    <3>1. CASE Untouched(s) /\ k = 0
      <4>1. From = off
        BY <1>1, <1>2, <1>5, <3>1, FirstRows DEF Untouched
      <4>2. s.offset = off /\ s.pos = 0 /\ s.limit = left /\ s.limit \in Int
        BY <1>2, <3>1 DEF Untouched
      <4>3. SkippedOffset(s) = [s EXCEPT !.pos = @ + s.offset, !.offset = 0]
        BY DEF SkippedOffset
      <4>4. s \in [limit : Int, offset : Nat, pos : Nat, second : Nat, firstEnded : BOOLEAN, ends : Nat]
        BY <1>1, StatementTypes DEF InputStates
      <4>5. SkippedOffset(s) = [limit |-> s.limit, offset |-> 0, pos |-> s.pos + s.offset,
                                second |-> s.second, firstEnded |-> s.firstEnded, ends |-> s.ends]
        BY <4>3, <4>4
      <4>6. s.second = 0 /\ s.ends = 0 /\ ~ s.firstEnded
        BY DEF FirstInput
      <4> HIDE DEF left
      <4> QED
        BY <1>3, <3>1, <4>1, <4>2, <4>4, <4>5, <4>6
    <3>2. CASE Started(s, k) /\ k > 0
      BY <1>1, <1>2, <3>2, StatementTypes DEF Started, FirstInput, InputStates
    <3> QED
      BY <3>1, <3>2 DEF FirstInput
  <2>2. LimitNext(s) = IF t.limit = 1 THEN Nothing(c) ELSE FirstNext(c)
    BY <1>1, <1>5 DEF LimitNext
  <2> HIDE DEF t
  <2>3. /\ c.limit = (IF limit < 0 THEN -1 ELSE IF left > 0 THEN left - 1 ELSE left)
        /\ c.offset = 0 /\ c.pos = From + k /\ c.second = 0 /\ c.ends = 0 /\ ~ c.firstEnded
        /\ c \in [limit : Int, offset : Nat, pos : Nat, second : Nat, firstEnded : BOOLEAN, ends : Nat]
    BY <2>1
  <2> HIDE DEF c
  <2>4. CASE t.limit = 1
    <3>1. limit = k /\ limit >= 0
      BY <1>2, <2>1, <2>4
    <3>2. k = Firsts
      BY <1>2, <1>3, <2>1, <3>1, FirstRows
    <3> QED
      BY <2>2, <2>3, <2>4, <3>2 DEF Nothing
  <2>5. CASE t.limit # 1 /\ From + k = n
    <3>1. k = Firsts
      BY <1>1, <1>3, <2>1, <2>5, FirstRows
    <3>2. FirstNext(c) = Nothing(c)
      BY <1>1, <2>3, <2>5 DEF FirstNext
    <3> QED
      BY <2>2, <2>3, <2>5, <3>1, <3>2 DEF Nothing
  <2>6. CASE t.limit # 1 /\ From + k # n
    <3>1. k # limit
      BY <1>2, <2>1, <2>6
    <3>2. k < Firsts
      BY <1>1, <1>2, <1>3, <2>1, <2>6, <3>1, FirstRows
    <3>3. FirstNext(c) = [state |-> [c EXCEPT !.pos = @ + 1], row |-> From + k + 1]
      BY <1>1, <1>3, <2>3, <3>2 DEF FirstNext
    <3>4. limit >= 0 => left - 1 = limit + 1 - (k + 1) /\ left > 0
      BY <1>2, <1>3, <2>1, <3>2, FirstRows
    <3>5. FirstInput([c EXCEPT !.pos = @ + 1], k + 1)
      <4>1. PICK d : d = [c EXCEPT !.pos = @ + 1]
        OBVIOUS
      <4>2. /\ d.limit = c.limit /\ d.offset = 0 /\ d.pos = From + (k + 1) /\ d.second = 0
            /\ d.ends = 0 /\ ~ d.firstEnded
        BY <1>3, <2>3, <4>1
      <4>3. d.limit = IF limit < 0 THEN -1 ELSE limit + 1 - (k + 1)
        BY <2>3, <3>4, <4>2
      <4>4. k + 1 <= Firsts /\ k + 1 > 0
        BY <1>3, <3>2
      <4>5. Started(d, k + 1)
        BY <4>2, <4>3, <4>4, <1>2 DEF Started
      <4> QED
        BY <4>1, <4>2, <4>4, <4>5 DEF FirstInput
    <3> QED
      BY <1>3, <2>2, <2>6, <3>2, <3>3, <3>5
  <2> QED
    BY <2>4, <2>5, <2>6
<1> QED
  BY <1>4, <1>5

LEMMA SecondGives ==
  ASSUME statement \in Statements, NEW k \in Nat,
         NEW s \in InputStates(Len(statement.rows), Len(statement.more)), SecondInput(s, k)
  PROVE  LET next == SecondNext(s) IN
         /\ next.row > 0 => next.row = RowNumber(k + 1) /\ SecondInput(next.state, k + 1)
         /\ ~ (next.row > 0) => k = Firsts + Seconds /\ next.state.ends = 0
<1>1. PICK n \in Nat, m \in Nat : n = Len(statement.rows) /\ m = Len(statement.more)
  BY StatementTypes
<1>2. Firsts \in Nat /\ Seconds = m /\ s.second \in 0 .. m
  BY <1>1, TakenRows DEF SecondInput, Seconds, InputStates
<1>3. CASE s.second < m
  <2>1. SecondNext(s) = [state |-> [s EXCEPT !.second = @ + 1], row |-> n + s.second + 1]
    BY <1>1, <1>3 DEF SecondNext
  <2>2. PICK state : state = [s EXCEPT !.second = @ + 1]
    OBVIOUS
  <2>3. /\ state.second = s.second + 1 /\ state.ends = s.ends /\ state.firstEnded = s.firstEnded
    BY <2>2 DEF InputStates
  <2>4. SecondInput(state, k + 1)
    BY <1>2, <2>3 DEF SecondInput
  <2>5. RowNumber(k + 1) = n + s.second + 1
    <3>1. ~ (k + 1 <= Firsts) /\ (k + 1) - Firsts = s.second + 1
      BY <1>2 DEF SecondInput
    <3>2. RowNumber(k + 1) = n + ((k + 1) - Firsts)
      BY <1>1, <3>1 DEF RowNumber
    <3> QED
      BY <1>2, <3>1, <3>2
  <2>6. SecondNext(s).row = n + s.second + 1 /\ SecondNext(s).state = state
    BY <2>1, <2>2
  <2> QED
    BY <1>1, <1>2, <2>4, <2>5, <2>6
<1>4. CASE ~ (s.second < m)
  <2>1. SecondNext(s) = Nothing(s)
    BY <1>1, <1>4 DEF SecondNext
  <2> QED
    BY <1>2, <1>4, <2>1 DEF Nothing, SecondInput
<1> QED
  BY <1>3, <1>4

LEMMA InputGivesNext ==
  ASSUME InputTypes, InputInv, in.ends = 0, NEW k \in Nat, k = Len(pulled)
  PROVE  /\ InputHasRow => /\ Pulled.row = RowNumber(k + 1)
                           /\ FirstInput(Pulled.state, k + 1) \/ SecondInput(Pulled.state, k + 1)
         /\ ~ InputHasRow => k = Firsts + Seconds /\ Pulled.state.ends = 0
<1>1. PICK n \in Nat, m \in Nat : n = Len(statement.rows) /\ m = Len(statement.more)
  BY StatementTypes DEF InputTypes
<1>2. Firsts \in Nat /\ From \in Nat /\ statement \in Statements
      /\ in \in InputStates(Len(statement.rows), Len(statement.more))
  BY TakenRows DEF InputTypes
<1>3. CASE SecondInput(in, k)
  <2>1. Pulled = SecondNext(in)
    BY <1>3 DEF Pulled, UnionNext, SecondInput
  <2> QED
    BY <1>2, <1>3, <2>1, SecondGives DEF InputHasRow
<1>4. CASE FirstInput(in, k)
  <2> DEFINE first == LimitNext(in)
  <2>1. /\ first.row > 0 => first.row = From + k + 1 /\ k < Firsts /\ FirstInput(first.state, k + 1)
        /\ ~ (first.row > 0) => /\ k = Firsts /\ first.state.second = 0 /\ first.state.ends = 0
                                /\ ~ first.state.firstEnded
    BY <1>2, <1>4, LimitGives
  <2>2. first.state \in InputStates(n, m)
    BY <1>1, <1>2, LimitTypes
  <2>3. Pulled = IF first.row > 0 \/ ~ statement.union THEN first
                 ELSE SecondNext([first.state EXCEPT !.firstEnded = TRUE])
    BY <1>4 DEF Pulled, UnionNext, FirstInput
  <2> HIDE DEF first
  <2>4. CASE first.row > 0
    <3>1. RowNumber(k + 1) = From + (k + 1)
      <4>1. k + 1 <= Firsts
        BY <1>2, <2>1, <2>4
      <4> QED
        BY <4>1 DEF RowNumber
    <3> QED
      BY <1>2, <2>1, <2>3, <2>4, <3>1 DEF InputHasRow
  <2>5. CASE ~ (first.row > 0) /\ ~ statement.union
    BY <1>2, <2>1, <2>3, <2>5 DEF InputHasRow, Seconds
  <2>6. CASE ~ (first.row > 0) /\ statement.union
    <3>1. PICK state : state = [first.state EXCEPT !.firstEnded = TRUE]
      OBVIOUS
    <3>2. state \in InputStates(n, m) /\ state.firstEnded /\ state.second = 0 /\ state.ends = 0
      BY <2>1, <2>2, <2>6, <3>1 DEF InputStates
    <3>3. SecondInput(state, k)
      BY <1>2, <2>1, <2>6, <3>2 DEF SecondInput
    <3>4. Pulled = SecondNext(state)
      BY <2>3, <2>6, <3>1
    <3> QED
      BY <1>1, <1>2, <3>2, <3>3, <3>4, SecondGives DEF InputHasRow
  <2> QED
    BY <2>4, <2>5, <2>6
<1> QED
  BY <1>2, <1>3, <1>4 DEF InputInv, Ended

LEMMA InputNumbersSame ==
  ASSUME UNCHANGED statement
  PROVE  /\ From' = From /\ Firsts' = Firsts /\ Seconds' = Seconds /\ UpTo' = UpTo
         /\ \A k : RowNumber(k)' = RowNumber(k)
         /\ \A s, k : FirstInput(s, k)' = FirstInput(s, k) /\ SecondInput(s, k)' = SecondInput(s, k)
                      /\ Ended(s, k)' = Ended(s, k)
<1>1. From' = From /\ UpTo' = UpTo /\ Firsts' = Firsts /\ Seconds' = Seconds
  BY DEF From, UpTo, Firsts, Seconds
<1> QED
  BY <1>1 DEF RowNumber, FirstInput, Untouched, Started, SecondInput, Ended

LEMMA InputTakes ==
  ASSUME InputTypes, InputInv, in.ends = 0, TakeRow \/ TakeEnd, UNCHANGED statement
  PROVE  InputInv' /\ in'.ends = (IF TakeRow THEN 0 ELSE 1)
<1>1. PICK k \in Nat : k = Len(pulled) /\ DOMAIN pulled = 1 .. k /\ pulled \in Seq(Nat)
  BY DEF InputTypes, RowNumbers
<1>2. \A i \in 1 .. k : pulled[i] = RowNumber(i)
  BY <1>1 DEF InputInv
<1>3. CASE TakeRow
  <2>1. /\ Pulled.row = RowNumber(k + 1) /\ Pulled.row \in Nat
        /\ FirstInput(in', k + 1) \/ SecondInput(in', k + 1)
        /\ pulled' = Append(pulled, Pulled.row)
    BY <1>1, <1>3, InputGivesNext, PulledTypes, StatementTypes DEF TakeRow, InputTypes
  <2>2. /\ Len(pulled') = k + 1 /\ DOMAIN pulled' = 1 .. k + 1 /\ pulled'[k + 1] = RowNumber(k + 1)
        /\ \A i \in 1 .. k : pulled'[i] = RowNumber(i)
    BY <1>1, <1>2, <2>1
  <2>3. \A i \in 1 .. k + 1 : pulled'[i] = RowNumber(i)
    BY <2>2
  <2> QED
    BY <1>3, <2>1, <2>2, <2>3, InputNumbersSame DEF InputInv, FirstInput, SecondInput
<1>4. CASE TakeEnd /\ ~ TakeRow
  <2>1. k = Firsts + Seconds /\ Pulled.state.ends = 0 /\ in' = [Pulled.state EXCEPT !.ends = @ + 1]
        /\ pulled' = pulled
    BY <1>1, <1>4, InputGivesNext DEF TakeEnd
  <2>2. Pulled.state \in InputStates(Len(statement.rows), Len(statement.more))
    BY PulledTypes
  <2>3. in'.ends = 1
    BY <2>1, <2>2 DEF InputStates
  <2>4. Ended(in', k)
    BY <2>1, <2>3 DEF Ended
  <2> QED
    BY <1>1, <1>2, <1>4, <2>1, <2>3, <2>4, InputNumbersSame DEF InputInv
<1> QED
  BY <1>3, <1>4

(* Who pulls a row has not been told the end.                              *)
Asking == pc \in {"first", "functions", "pull", "copy", "item", "new"}
EndKnown ==
  /\ Asking => in.ends = 0
  /\ Projecting /\ Reading /\ in.ends # 0 => Closing(CellsOf(Len(cache)), "DD")

InputPulled ==
  \/ UNCHANGED <<in, pulled>> /\ (Asking' => Asking)
  \/ pc = "pull" /\ TakeRow
  \/ pc = "pull" /\ TakeEnd /\ ~ Asking'

LEMMA SortPulls == SortNext => InputPulled
BY DEF SortNext, InputPulled, Asking, commonVars, Destroy, Crash, GoTo, SortFirstBlock,
  SortFirstBlockThrows, SortPull, SortCopy, SortCopying, SortCopyThrows, SortEndRow,
  SortEndOfInput, Sort, SortUndefined, SortThrows, SortedLeft, SortedRow, SortedRowThrows,
  SortedEnd

LEMMA GroupPulls == GroupNext => InputPulled
BY DEF GroupNext, InputPulled, Asking, commonVars, Destroy, Crash, GoTo, GroupFirstBlock,
  GroupFirstFunctionBlock, Pulling, GroupStep, GroupStepOnReleased, GroupPullNew, Cloning,
  CloneFunction, CloneToNextBlock, EnterGroup, GroupEndOfInput, SpareBlock, WritingResult,
  Writing, AddResult, ResultToNextBlock, ResultDropped, ReadReleasedResult, EndGroup,
  EndGroups, AsksForBlock, GroupBlockThrows, ReadingGroups, GroupedRow, GroupedRowThrows,
  GroupedEnd, ReleaseFunctionBlock

LEMMA ProjectPulls ==
  ProjectNext => InputPulled \/ (NextItemBlock /\ UNCHANGED <<in, pulled>>)
BY DEF ProjectNext, InputPulled, Asking, commonVars, Destroy, GoTo, ProjectFirstBlock,
  ProjectFirstBlockThrows, Preparing, ProjectRow, EvaluatingItem, ProjectItem,
  ProjectItemToNext, ProjectItemThrows, ProjectEndRow, Handed, HandFullBlock, HandLastBlock,
  AtItem, ProjectedRowThrows, ProjectedEnd, ProjectedRow, ReadItem, NextItemBlock,
  ReadItemThrows, RowRead, UseProjectedRow, ReleaseRead

LEMMA InputPulls ==
  [Next]_vars => InputPulled \/ (NextItemBlock /\ UNCHANGED <<in, pulled>>)
<1>1. InputThrows \/ Abandon \/ ReleaseBlocks \/ Close => InputPulled
  BY DEF InputThrows, Abandon, ReleaseBlocks, Close, Destroy, GoTo, InputPulled, Asking, commonVars
<1>2. UNCHANGED vars => InputPulled
  BY DEF vars, commonVars, InputPulled, Asking
<1> QED
  BY <1>1, <1>2, SortPulls, GroupPulls, ProjectPulls DEF Next, Stopped

LEMMA NextBlockNotLast ==
  ASSUME TypeIInv, ProjectInv, NextItemBlock
  PROVE  ~ Closing(CellsOf(Len(cache)), "DD")
<1>1. Reading /\ Under(at.offset) = "CC"
  BY DEF NextItemBlock, Reading
<1>2. PICK k \in DOMAIN cache, tag \in {"CC", "DD"} :
        /\ tag = "CC" => Tagged(CellsOf(Len(cache)), {"AA", "BB"})
        /\ at.offset \in 0 .. Len(CellsOf(k)) - 1
        /\ \A o \in 0 .. Len(CellsOf(k)) - 1 :
             /\ Under(o) = CellsOf(k)[o + 1].tag
             /\ Under(o) \in {"AA", "BB"} \/ (o = Len(CellsOf(k)) - 1 /\ Under(o) = tag)
  BY <1>1, ProjectUnder
<1>3. Tagged(CellsOf(Len(cache)), {"AA", "BB"})
  BY <1>1, <1>2
<1>4. Len(cache) \in DOMAIN cache
  BY <1>2 DEF ProjectInv, ProjectTypes
<1>5. CellsOf(Len(cache)) \in Seq(Cells)
  BY <1>4, ProjectCells DEF TypeIInv, ProjectInv
<1> QED
  BY <1>3, <1>5, CellsClosed DEF Closing, Tagged

(* How rows are read, and what is read when a block has been handed over.  *)
LEMMA ReadingBegins ==
  ASSUME TypeIInv, ProjectInv, ProjectNext, Reading'
  PROVE  \/ HandFullBlock \/ HandLastBlock
         \/ Reading /\ UNCHANGED <<store, cache>>
BY DEF ProjectNext, Reading, GoTo, Destroy, copyVars, ProjectFirstBlock,
  ProjectFirstBlockThrows, Preparing, ProjectRow, EvaluatingItem, ProjectItem,
  ProjectItemToNext, ProjectItemThrows, ProjectEndRow,
  AtItem, ProjectedRowThrows, ProjectedEnd, ProjectedRow, ReadItem, NextItemBlock,
  ReadItemThrows, RowRead, UseProjectedRow, ReleaseRead

LEMMA LastBlockCloses ==
  ASSUME TypeIInv, ProjectInv, ProjectInv', HandLastBlock
  PROVE  Closing(CellsOf(Len(cache)), "DD")'
<1>1. Reading' /\ reading'.block = cache[Len(cache)] /\ cache' = cache
  <2>1. cache # <<>> /\ cache \in Seq(NewerBlocks)
    BY DEF HandLastBlock, Preparing, ProjectInv, ProjectContents, ProjectTypes, Filling
  <2> QED
    BY <2>1 DEF HandLastBlock, Handed, GoTo, Reading, Filled, Last, ProjectInv, ProjectTypes
<1>2. Len(cache) > 1 => cache[Len(cache)] # cache[Len(cache) - 1]
  BY DEF ProjectInv, ProjectTypes
<1> QED
  BY <1>1, <1>2 DEF ProjectInv, ProjectContents, Reading

LEMMA EndKnownStep ==
  ASSUME RowIInv, RowIInv', InputInv, EndKnown, [Next]_vars
  PROVE  InputInv' /\ EndKnown'
<1>1. InputTypes /\ TypeIInv /\ UNCHANGED statement /\ (Projecting' => Projecting)
  BY InputSteps DEF RowIInv, TypeIInv, InputStep, Projecting
<1>2. CASE UNCHANGED <<in, pulled>> /\ (Asking' => Asking)
  <2>1. InputInv'
    BY <1>1, <1>2, InputNumbersSame DEF InputInv
  <2>2. Asking' => in'.ends = 0
    BY <1>2 DEF EndKnown
  <2>3. ASSUME Projecting', Reading', in'.ends # 0 PROVE Closing(CellsOf(Len(cache)), "DD")'
    <3>1. Projecting /\ in.ends # 0 /\ ProjectInv /\ ProjectInv' /\ functionBlocks = <<>>
      BY <1>1, <1>2, <2>3 DEF RowIInv
    <3>2. ProjectNext \/ UNCHANGED <<store, cache, pc>>
      <4>1. ~ SortNext /\ ~ GroupNext
        BY <1>1, <3>1, Kinds, SortOnly, GroupOnly DEF TypeIInv, Stages, Ends
      <4>2. InputThrows \/ Abandon \/ ReleaseBlocks \/ Close => ~ Reading'
        BY DEF InputThrows, Abandon, ReleaseBlocks, Close, Destroy, GoTo, Reading
      <4>3. UNCHANGED vars => UNCHANGED <<store, cache, pc>>
        BY DEF vars, copyVars
      <4> QED
        BY <2>3, <4>1, <4>2, <4>3 DEF Next, Stopped
    <3>3. CASE UNCHANGED <<store, cache, pc>> \/ (Reading /\ UNCHANGED <<store, cache>>)
      <4>1. Reading /\ UNCHANGED <<store, cache>>
        BY <2>3, <3>3 DEF Reading
      <4> QED
        BY <3>1, <4>1 DEF EndKnown, CellsOf, Closing
    <3>4. CASE HandFullBlock
      BY <3>1, <3>4 DEF HandFullBlock, EndKnown, Asking
    <3>5. CASE HandLastBlock
      BY <1>1, <3>1, <3>5, LastBlockCloses
    <3> QED
      BY <1>1, <2>3, <3>1, <3>2, <3>3, <3>4, <3>5, ReadingBegins
  <2> QED
    BY <2>1, <2>2, <2>3 DEF EndKnown
<1>3. CASE pc = "pull" /\ (TakeRow \/ (TakeEnd /\ ~ Asking'))
  <2>1. in.ends = 0
    BY <1>3 DEF EndKnown, Asking
  <2>2. InputInv' /\ in'.ends = (IF TakeRow THEN 0 ELSE 1)
    BY <1>1, <1>3, <2>1, InputTakes
  <2>3. Asking' => in'.ends = 0
    BY <1>3, <2>2
  <2>4. ASSUME Projecting', Reading', in'.ends # 0 PROVE Closing(CellsOf(Len(cache)), "DD")'
    <3>1. Projecting /\ ProjectInv /\ ProjectInv' /\ functionBlocks = <<>> /\ TakeEnd /\ ~ TakeRow
      BY <1>1, <1>3, <2>2, <2>4 DEF RowIInv
    <3>2. ProjectNext
      <4>1. ~ SortNext /\ ~ GroupNext
        BY <1>1, <3>1, Kinds, SortOnly, GroupOnly DEF TypeIInv, Stages, Ends
      <4>2. InputThrows \/ Abandon \/ ReleaseBlocks \/ Close => ~ Reading'
        BY DEF InputThrows, Abandon, ReleaseBlocks, Close, Destroy, GoTo, Reading
      <4>3. UNCHANGED vars => pc' = pc
        BY DEF vars
      <4>4. pc' # pc
        BY <1>3, <2>4 DEF Reading
      <4> QED
        BY <4>1, <4>2, <4>3, <4>4, <2>4 DEF Next, Stopped
    <3>3. HandLastBlock
      <4>1. ~ Reading
        BY <1>3 DEF Reading
      <4>2. ~ HandFullBlock
        <5>1. HandFullBlock => in' = in
          BY DEF HandFullBlock
        <5> QED
          BY <2>1, <2>4, <5>1
      <4> QED
        BY <1>1, <2>4, <3>1, <3>2, <4>1, <4>2, ReadingBegins
    <3> QED
      BY <1>1, <3>1, <3>3, LastBlockCloses
  <2> QED
    BY <2>2, <2>3, <2>4 DEF EndKnown
<1>4. CASE NextItemBlock /\ UNCHANGED <<in, pulled>>
  <2>1. InputInv'
    BY <1>1, <1>4, InputNumbersSame DEF InputInv
  <2>2. Projecting /\ Reading /\ ~ Reading'
    BY <1>4 DEF NextItemBlock, Reading, GoTo
  <2>3. in.ends = 0
    BY <1>1, <1>4, <2>2, NextBlockNotLast DEF EndKnown, RowIInv
  <2> QED
    BY <1>4, <2>1, <2>2, <2>3 DEF EndKnown
<1>5. InputPulled \/ (NextItemBlock /\ UNCHANGED <<in, pulled>>)
  BY InputPulls
<1>6. InputPulled => \/ UNCHANGED <<in, pulled>> /\ (Asking' => Asking)
                     \/ pc = "pull" /\ (TakeRow \/ (TakeEnd /\ ~ Asking'))
  BY DEF InputPulled
<1> QED
  BY <1>2, <1>3, <1>4, <1>5, <1>6

LEMMA InputBegins == Init => InputInv /\ EndKnown
<1> SUFFICES ASSUME Init PROVE InputInv /\ EndKnown
  OBVIOUS
<1>1. statement \in Statements /\ pulled = <<>> /\ pc = "first"
      /\ in = [limit |-> IF statement.limit < 0 THEN -1 ELSE statement.limit + 1,
               offset |-> statement.offset, pos |-> 0, second |-> 0,
               firstEnded |-> FALSE, ends |-> 0]
  BY DEF Init, CommonInit
<1>2. Len(pulled) = 0 /\ DOMAIN pulled = {}
  BY <1>1
<1>3. FirstInput(in, 0)
  <2>1. /\ in.limit = (IF statement.limit < 0 THEN -1 ELSE statement.limit + 1)
        /\ in.offset = statement.offset /\ in.pos = 0 /\ in.second = 0
        /\ in.firstEnded = FALSE /\ in.ends = 0
    BY <1>1
  <2> QED
    BY <2>1 DEF FirstInput, Untouched
<1> QED
  BY <1>1, <1>2, <1>3 DEF InputInv, EndKnown, Reading

(* For every statement: the rows that sort, grouping, aggregation and      *)
(* projection pull are those that OFFSET, LIMIT and UNION leave, in their  *)
(* order and complete when the end is reported, and after that nobody asks *)
(* for another.                                                            *)
THEOREM InputExplainedHolds == Spec => []InputExplained
<1> DEFINE I == RowIInv /\ InputInv /\ EndKnown
<1>1. Init => I
  BY RowBegins, InputBegins
<1>2. I /\ [Next]_vars => I'
  BY RowStep, EndKnownStep
<1>3. I => InputExplained
  BY InputGives DEF RowIInv, TypeIInv
<1> QED
  BY <1>1, <1>2, <1>3, PTL DEF Spec
-----------------------------------------------------------------------------
(***************************************************************************)
(* The sort.  First its order: where no value is NULL the comparator       *)
(* compares the rows at the first of the orders in which they differ.      *)
(***************************************************************************)
OrderPlaces == DOMAIN statement.orders
Ranked(r) == \A k \in OrderPlaces : ~ Cell(r, statement.orders[k].index).null
Rank(r, k) ==
  LET n == Cell(r, statement.orders[k].index).n
  IN  IF statement.orders[k].descending THEN - n ELSE n
FirstLess(i, j) ==
  \E k \in OrderPlaces : Rank(i, k) < Rank(j, k) /\ \A m \in 1 .. k - 1 : Rank(i, m) = Rank(j, m)
Alike(i, j) == \A k \in OrderPlaces : Rank(i, k) = Rank(j, k)

LEMMA LeastNat ==
  ASSUME NEW S, S \subseteq Nat, S # {}
  PROVE  \E x \in S : \A y \in S : x <= y
<1>1. IsWellFoundedOn(Below, Nat)
  <2>1. Below = OpToRel(<, Nat)
    BY DEF Below, OpToRel
  <2> QED
    BY <2>1, NatLessThanWellFounded
<1>2. PICK x \in S : \A y \in S : ~ (<<y, x>> \in Below)
  BY <1>1, WFMin
<1>3. ASSUME NEW y \in S PROVE x <= y
  <2>1. x \in Nat /\ y \in Nat
    OBVIOUS
  <2>2. y < x => <<y, x>> \in Below
    BY <2>1 DEF Below
  <2> QED
    BY <1>2, <2>1, <2>2
<1> QED
  BY <1>2, <1>3

OrderTypes == [index : Columns, descending : BOOLEAN]
LEMMA RankTypes ==
  ASSUME statement \in Statements, Sorting
  PROVE  /\ \E n \in Nat : OrderPlaces = 1 .. n
         /\ \A k \in OrderPlaces : statement.orders[k] \in OrderTypes
         /\ \A r \in RowNumbers, k \in OrderPlaces :
              /\ Cell(r, statement.orders[k].index).n \in Int
              /\ Rank(r, k) \in Int
<1>1. statement.orders \in Seq(OrderTypes)
  BY StatementsAssumption DEF Sorting, ColumnsOf, Columns, Width, OrderTypes
<1>2. Len(statement.orders) \in Nat /\ OrderPlaces = 1 .. Len(statement.orders)
  BY <1>1 DEF OrderPlaces
<1>3. \A k \in OrderPlaces : statement.orders[k] \in OrderTypes
  BY <1>1, <1>2
<1>4. ASSUME NEW r \in RowNumbers, NEW k \in OrderPlaces
      PROVE  Cell(r, statement.orders[k].index).n \in Int
  <2>1. statement.orders[k].index \in Columns
    BY <1>3 DEF OrderTypes
  <2> QED
    BY <2>1, CellTypes DEF CellValues
<1>5. \A r \in RowNumbers, k \in OrderPlaces : Rank(r, k) \in Int
  BY <1>4 DEF Rank
<1> QED
  BY <1>2, <1>3, <1>4, <1>5

LEMMA InOrderByRank ==
  ASSUME statement \in Statements, Sorting, NEW i \in RowNumbers, NEW j \in RowNumbers,
         Ranked(i), Ranked(j), NEW k \in OrderPlaces
  PROVE  InOrder(i, j, statement.orders[k]) <=> Rank(i, k) < Rank(j, k)
<1>1. PICK v \in Int : v = Cell(i, statement.orders[k].index).n
  BY RankTypes
<1>2. PICK w \in Int : w = Cell(j, statement.orders[k].index).n
  BY RankTypes
<1>3. /\ Less(Cell(i, statement.orders[k].index), Cell(j, statement.orders[k].index)) <=> v < w
      /\ Less(Cell(j, statement.orders[k].index), Cell(i, statement.orders[k].index)) <=> w < v
  BY <1>1, <1>2 DEF Less, Ranked
<1> QED
  BY <1>1, <1>2, <1>3 DEF InOrder, Rank

LEMMA SortByRank ==
  ASSUME statement \in Statements, Sorting, NEW i \in RowNumbers, NEW j \in RowNumbers,
         Ranked(i), Ranked(j)
  PROVE  SortOperation(i, j) <=> FirstLess(i, j)
<1>1. PICK n \in Nat : OrderPlaces = 1 .. n
  BY RankTypes
<1>2. \A k \in OrderPlaces : Rank(i, k) \in Int /\ Rank(j, k) \in Int
  BY RankTypes
<1>3. \A k \in OrderPlaces :
        /\ InOrder(i, j, statement.orders[k]) <=> Rank(i, k) < Rank(j, k)
        /\ InOrder(j, i, statement.orders[k]) <=> Rank(j, k) < Rank(i, k)
  BY InOrderByRank
<1>4. \A k \in OrderPlaces : \A m \in 1 .. k - 1 : m \in OrderPlaces
  BY <1>1
<1>5. \A m \in OrderPlaces :
        ~ InOrder(j, i, statement.orders[m]) /\ ~ InOrder(i, j, statement.orders[m])
          <=> Rank(i, m) = Rank(j, m)
  BY <1>2, <1>3
<1> QED
  BY <1>3, <1>4, <1>5 DEF SortOperation, FirstLess, OrderPlaces

LEMMA LeastDifference ==
  ASSUME statement \in Statements, Sorting, NEW i, NEW j, ~ Alike(i, j)
  PROVE  \E k \in OrderPlaces : Rank(i, k) # Rank(j, k) /\ \A m \in 1 .. k - 1 : Rank(i, m) = Rank(j, m)
<1> DEFINE S == {k \in OrderPlaces : Rank(i, k) # Rank(j, k)}
<1>1. PICK n \in Nat : OrderPlaces = 1 .. n
  BY RankTypes
<1>2. S \subseteq Nat /\ S # {}
  BY <1>1 DEF Alike
<1>3. PICK k \in S : \A m \in S : k <= m
  BY <1>2, LeastNat
<1>4. ASSUME NEW m \in 1 .. k - 1 PROVE Rank(i, m) = Rank(j, m)
  <2>1. m \in OrderPlaces /\ ~ (k <= m)
    BY <1>1
  <2> QED
    BY <1>3, <2>1
<1> QED
  BY <1>4

(* Rows that are alike are not before each other, of others one is.        *)
LEMMA OneIsFirst ==
  ASSUME statement \in Statements, Sorting, NEW i \in RowNumbers, NEW j \in RowNumbers
  PROVE  /\ Alike(i, j) => ~ FirstLess(i, j) /\ ~ FirstLess(j, i)
         /\ ~ Alike(i, j) => FirstLess(i, j) \/ FirstLess(j, i)
<1>1. \A k \in OrderPlaces : Rank(i, k) \in Int /\ Rank(j, k) \in Int
  BY RankTypes
<1>2. ASSUME Alike(i, j) PROVE ~ FirstLess(i, j) /\ ~ FirstLess(j, i)
  BY <1>1, <1>2 DEF Alike, FirstLess
<1>3. ASSUME ~ Alike(i, j) PROVE FirstLess(i, j) \/ FirstLess(j, i)
  <2>1. PICK k \in OrderPlaces :
          Rank(i, k) # Rank(j, k) /\ \A m \in 1 .. k - 1 : Rank(i, m) = Rank(j, m)
    BY <1>3, LeastDifference
  <2>2. \/ Rank(i, k) < Rank(j, k) /\ \A m \in 1 .. k - 1 : Rank(i, m) = Rank(j, m)
        \/ Rank(j, k) < Rank(i, k) /\ \A m \in 1 .. k - 1 : Rank(j, m) = Rank(i, m)
    BY <1>1, <2>1
  <2> QED
    BY <2>2 DEF FirstLess
<1> QED
  BY <1>2, <1>3

LEMMA FirstLessOnward ==
  ASSUME statement \in Statements, Sorting, NEW i \in RowNumbers, NEW j \in RowNumbers,
         NEW l \in RowNumbers, FirstLess(i, j), FirstLess(j, l)
  PROVE  FirstLess(i, l)
<1>1. PICK n \in Nat : OrderPlaces = 1 .. n
  BY RankTypes
<1>2. \A k \in OrderPlaces : Rank(i, k) \in Int /\ Rank(j, k) \in Int /\ Rank(l, k) \in Int
  BY RankTypes
<1>3. PICK a \in OrderPlaces :
        Rank(i, a) < Rank(j, a) /\ \A m \in 1 .. a - 1 : Rank(i, m) = Rank(j, m)
  BY DEF FirstLess
<1>4. PICK b \in OrderPlaces :
        Rank(j, b) < Rank(l, b) /\ \A m \in 1 .. b - 1 : Rank(j, m) = Rank(l, m)
  BY DEF FirstLess
<1>5. PICK k \in OrderPlaces : k = IF a < b THEN a ELSE b
  OBVIOUS
<1>6. a \in 1 .. n /\ b \in 1 .. n /\ k <= a /\ k <= b
  BY <1>1, <1>5
<1>7. \A m \in 1 .. k - 1 : m \in 1 .. a - 1 /\ m \in 1 .. b - 1
  BY <1>6, <1>5
<1>8. \A m \in 1 .. k - 1 : Rank(i, m) = Rank(l, m)
  BY <1>3, <1>4, <1>7
<1>9. Rank(i, k) < Rank(l, k)
  <2>1. CASE a < b
    <3>1. a \in 1 .. b - 1 /\ k = a
      BY <1>5, <1>6, <2>1
    <3> QED
      BY <1>2, <1>3, <1>4, <3>1
  <2>2. CASE b < a
    <3>1. b \in 1 .. a - 1 /\ k = b
      BY <1>5, <1>6, <2>2
    <3> QED
      BY <1>2, <1>3, <1>4, <3>1
  <2>3. CASE a = b
    BY <1>2, <1>3, <1>4, <1>5, <2>3
  <2> QED
    BY <1>6, <2>1, <2>2, <2>3
<1> QED
  BY <1>8, <1>9 DEF FirstLess

(* Without NULLs the comparator is what std::sort() asks for, and a row    *)
(* that belongs before another is less.                                    *)
RankedRows == \A p \in DOMAIN positions :
                positions[p].row \in RowNumbers /\ Ranked(positions[p].row)

LEMMA RanksAreOrder ==
  ASSUME statement \in Statements, Sorting, RankedRows
  PROVE  StrictWeakOrder
<1> DEFINE S == {positions[p].row : p \in DOMAIN positions}
<1>1. \A i \in S : i \in RowNumbers /\ Ranked(i)
  BY DEF RankedRows
<1> HIDE DEF S
<1>2. ASSUME NEW i \in S PROVE ~ SortOperation(i, i)
  <2>1. Alike(i, i)
    BY DEF Alike
  <2> QED
    BY <1>1, <2>1, OneIsFirst, SortByRank
<1>3. ASSUME NEW i \in S, NEW j \in S, NEW k \in S, SortOperation(i, j), SortOperation(j, k)
      PROVE  SortOperation(i, k)
  BY <1>1, <1>3, SortByRank, FirstLessOnward
<1>4. ASSUME NEW i \in S, NEW j \in S, ~ SortOperation(i, j), ~ SortOperation(j, i)
      PROVE  Alike(i, j)
  BY <1>1, <1>4, SortByRank, OneIsFirst
<1>5. ASSUME NEW i \in S, NEW j \in S, NEW k \in S,
             ~ SortOperation(i, j), ~ SortOperation(j, i),
             ~ SortOperation(j, k), ~ SortOperation(k, j)
      PROVE  ~ SortOperation(i, k) /\ ~ SortOperation(k, i)
  <2>1. Alike(i, j) /\ Alike(j, k)
    BY <1>4, <1>5
  <2>2. Alike(i, k)
    BY <2>1 DEF Alike
  <2> QED
    BY <1>1, <2>2, OneIsFirst, SortByRank
<1>6. \A i, j, k \in S :
        /\ ~ SortOperation(i, i)
        /\ SortOperation(i, j) /\ SortOperation(j, k) => SortOperation(i, k)
        /\ (~ SortOperation(i, j) /\ ~ SortOperation(j, i))
           /\ (~ SortOperation(j, k) /\ ~ SortOperation(k, j))
           => ~ SortOperation(i, k) /\ ~ SortOperation(k, i)
  BY <1>2, <1>3, <1>5
<1> QED
  BY <1>6 DEF StrictWeakOrder, S

LEMMA BeforeIsLess ==
  ASSUME statement \in Statements, Sorting, NEW i \in RowNumbers, NEW j \in RowNumbers,
         Ranked(i), Ranked(j), Before(i, j)
  PROVE  SortOperation(i, j)
<1> DEFINE n(r, k) == Cell(r, statement.orders[k].index).n
           D == {k \in OrderPlaces : n(i, k) # n(j, k)}
           d == CHOOSE k \in D : \A m \in D : k <= m
<1>1. D # {} /\ ((n(i, d) < n(j, d)) # statement.orders[d].descending)
  BY DEF Before, OrderPlaces
<1>2. D \subseteq Nat
  BY RankTypes
<1>3. d \in D /\ \A m \in D : d <= m
  <2>1. \E k \in D : \A m \in D : k <= m
    BY <1>1, <1>2, LeastNat
  <2> HIDE DEF D
  <2> QED
    BY <2>1
<1>4. PICK e \in OrderPlaces : e = d /\ n(i, e) # n(j, e)
  BY <1>3
<1>5. \A k \in OrderPlaces : n(i, k) \in Int /\ n(j, k) \in Int
  BY RankTypes
<1> HIDE DEF d
<1>6. Rank(i, e) < Rank(j, e)
  <2>1. statement.orders[e].descending \in BOOLEAN
    BY RankTypes DEF OrderTypes
  <2> QED
    BY <1>1, <1>4, <1>5, <2>1 DEF Rank
<1>7. ASSUME NEW m \in 1 .. e - 1 PROVE Rank(i, m) = Rank(j, m)
  <2>1. m \in OrderPlaces /\ ~ (e <= m)
    BY RankTypes
  <2>2. n(i, m) = n(j, m)
    BY <1>3, <1>4, <2>1
  <2> QED
    BY <2>2 DEF Rank
<1> QED
  BY <1>6, <1>7, SortByRank DEF FirstLess
-----------------------------------------------------------------------------
(***************************************************************************)
(* The rows that are sorted: each was pulled once, its position leads to   *)
(* its values, and what is delivered are the first of them.                *)
(***************************************************************************)
Sizes(r) == [c \in Columns |-> Cell(r, c).size]
SortReads == pc \in {"pull", "copy", "sort", "next"}
PositionTypes ==
  /\ positions \in Seq([row : RowNumbers, at : Positions])
  /\ SortReads => Held /\ cache # <<>>

(* Each row once, and until they are sorted in the order of the input.     *)
EachOnce ==
  /\ \A p \in DOMAIN positions : \E k \in DOMAIN pulled : pulled[k] = positions[p].row
  /\ \A k \in DOMAIN pulled : \E p \in DOMAIN positions : pulled[k] = positions[p].row
  /\ \A p, q \in DOMAIN positions : positions[p].row = positions[q].row => p = q
AsPulled ==
  /\ pc = "first" => pulled = <<>>
  /\ pc \in {"first", "pull", "copy", "sort"} =>
    /\ Len(positions) = Len(pulled)
    /\ \A k \in DOMAIN pulled : positions[k].row = pulled[k]
    /\ delivered = <<>>
Arranged ==
  StrictWeakOrder =>
    \A p, q \in DOMAIN positions :
      p < q => ~ SortOperation(positions[q].row, positions[p].row)
WhenSorted ==
  /\ pc \in {"sort", "next"} \/ delivered # <<>> \/ outcome = "eof" => in.ends = 1
  /\ pc = "next" \/ delivered # <<>> => Arranged

(* The rows that were copied, and the one that is being copied.            *)
RowsStand ==
  /\ SortReads =>
       \A p \in DOMAIN positions :
         \/ pc = "copy" /\ p = Len(positions)
         \/ Stands(Memory, positions[p].at, positions[p].row, Sizes(positions[p].row))
  /\ pc = "copy" =>
       /\ col \in 1 .. Width + 1
       /\ Copied(Memory, positions[Len(positions)].at, Row, Sizes(Row), col - 1)
DeliveredRows ==
  /\ delivered = [k \in 1 .. Len(delivered) |-> [c \in Columns |-> <<positions[k].row, c>>]]
  /\ Len(delivered) \in Nat /\ Len(delivered) <= Len(positions)
  /\ outcome = "eof" => Len(delivered) = Len(positions)

(* What made it fail.                                                      *)
Troubles ==
  /\ totalBlocks \in Nat /\ sBlockNumber <= totalBlocks
  /\ outcome = "threw" /\ BM!Refused = 0 => LostValue
  /\ fault = "order" => OrderedNulls

SortInv ==
  /\ PositionTypes /\ EachOnce /\ AsPulled /\ WhenSorted /\ RowsStand /\ DeliveredRows
  /\ Troubles

LEMMA SizesTypes ==
  ASSUME statement \in Statements, NEW r \in RowNumbers
  PROVE  /\ Sizes(r) \in Seq(Nat) \ {<<>>} /\ Len(Sizes(r)) = Width
         /\ \A c \in Columns : Sizes(r)[c] = Cell(r, c).size
<1>1. \A c \in Columns : Cell(r, c).size \in Nat
  BY CellTypes DEF CellValues
<1>2. PICK n \in Nat \ {0} : n = Width /\ Columns = 1 .. n
  BY StatementTypes DEF Columns
<1>3. Sizes(r) \in [1 .. n -> Nat]
  BY <1>1, <1>2 DEF Sizes
<1> QED
  BY <1>2, <1>3 DEF Sizes

LEMMA FiledByLedger == TypeIInv /\ Keeping => Filed /\ Stored
<1> SUFFICES ASSUME TypeIInv, Keeping PROVE Filed /\ Stored
  OBVIOUS
<1>1. sBlockNumber \in Nat /\ Stored
  BY DEF TypeIInv, StoreTypes, Stored
<1>2. {NoBlock} \cup NewerBlocks \subseteq 0 .. sBlockNumber
  BY <1>1, StatementTypes DEF NoBlock, BM!NoBlock, NewerBlocks, TypeIInv, Stages
<1>3. cache \in Seq(0 .. sBlockNumber)
  <2>1. PICK S : S = {NoBlock} \cup NewerBlocks
    OBVIOUS
  <2>2. PICK U : U = 0 .. sBlockNumber
    OBVIOUS
  <2>3. cache \in Seq(S) /\ S \subseteq U
    BY <1>2, <2>1, <2>2 DEF Keeping, Ledger
  <2>4. PICK n \in Nat : cache \in [1 .. n -> S]
    BY <2>3
  <2>5. cache \in [1 .. n -> U]
    BY <2>3, <2>4
  <2>6. cache \in Seq(U)
    BY <2>5
  <2> QED
    BY <2>2, <2>6
<1> QED
  BY <1>1, <1>3 DEF Filed, Keeping, Ledger

(* A row whose values all fit is read; one that is not read lost a value.  *)
LEMMA IncompleteLost ==
  ASSUME statement \in Statements, PositionTypes, RowsStand, pc \in {"sort", "next"},
         NEW p \in DOMAIN positions
  PROVE  /\ Complete(positions[p].at, Width) =>
              RowAt(positions[p].at, Width) = [c \in Columns |-> <<positions[p].row, c>>]
         /\ ~ Complete(positions[p].at, Width) => LostValue
<1>1. PICK place \in Positions, r \in RowNumbers :
        place = positions[p].at /\ r = positions[p].row
  <2>1. PICK T : T = [row : RowNumbers, at : Positions]
    OBVIOUS
  <2>2. positions \in Seq(T)
    BY <2>1 DEF PositionTypes
  <2>3. positions[p] \in T
    BY <2>2
  <2> QED
    BY <2>1, <2>3
<1>2. Stands(Memory, place, r, Sizes(r))
  BY <1>1 DEF RowsStand, SortReads
<1>3. PICK sizes \in Seq(Nat) \ {<<>>} :
        sizes = Sizes(r) /\ Len(sizes) = Width /\ \A c \in Columns : sizes[c] = Cell(r, c).size
  BY SizesTypes
<1>4. /\ Complete(place, Width) <=> Fit(sizes, Width)
      /\ Complete(place, Width) => RowAt(place, Width) = [c \in 1 .. Width |-> <<r, c>>]
  BY <1>2, <1>3, ReadsStanding
<1>5. ASSUME ~ Fit(sizes, Width) PROVE LostValue
  <2>1. PICK c \in Columns : ~ HasSizeFor(Empty, sizes[c])
    BY <1>5 DEF Fit, Columns
  <2>2. Lost(Cell(r, c).size)
    BY <1>3, <2>1 DEF Lost
  <2>3. r \in DOMAIN Rows
    <3>1. PICK T : statement.rows \in Seq(T) /\ statement.more \in Seq(T)
      BY StatementsAssumption DEF InputRows
    <3>2. Rows \in Seq(T)
      BY <3>1 DEF Rows
    <3> QED
      BY <3>2 DEF RowNumbers
  <2> QED
    BY <2>2, <2>3 DEF LostValue
<1> QED
  BY <1>1, <1>4, <1>5 DEF Columns

LEMMA SameOrder ==
  ASSUME UNCHANGED <<statement, positions>>
  PROVE  (StrictWeakOrder' <=> StrictWeakOrder) /\ (Arranged' <=> Arranged)
<1>1. \A i, j : SortOperation(i, j)' <=> SortOperation(i, j)
  BY DEF SortOperation, InOrder, Less, Cell, Rows
<1>2. StrictWeakOrder' <=> StrictWeakOrder
  <2>1. PICK S : S = {positions[p].row : p \in DOMAIN positions}
    OBVIOUS
  <2>2. {positions[p].row : p \in DOMAIN positions}' = S
    BY <2>1
  <2> QED
    BY <1>1, <2>1, <2>2 DEF StrictWeakOrder
<1> QED
  BY <1>1, <1>2 DEF Arranged

(* Where nothing is written and no row comes or goes.                      *)
LEMMA SortInvStays ==
  ASSUME SortInv, pc' \in Ends \/ pc' = pc,
         outcome' \in {outcome, "failed", "abandoned"},
         outcome' # outcome => outcome = "open",
         pc' = pc => outcome' = outcome,
         UNCHANGED <<statement, positions, delivered, pulled, in, fault, col, totalBlocks,
                     sBlockNumber>>,
         pc' = pc /\ pc \notin Ends => UNCHANGED <<cache, store>>
  PROVE  SortInv'
<1>1. PositionTypes'
  BY DEF SortInv, PositionTypes, SortReads, Ends, Held, NoBlock, BM!NoBlock, RowNumbers, Rows
<1>2. EachOnce'
  BY DEF SortInv, EachOnce
<1>3. AsPulled'
  BY DEF SortInv, AsPulled, Ends
<1>4. Arranged => Arranged'
  BY SameOrder
<1>5. WhenSorted'
  BY <1>4 DEF SortInv, WhenSorted, Ends
<1>6. RowsStand'
  <2>1. CASE pc' \in Ends
    BY <2>1 DEF RowsStand, SortReads, Ends
  <2>2. CASE pc' = pc /\ pc \notin Ends
    <3>1. Memory' = Memory /\ Row' = Row /\ Width' = Width
      BY <2>2 DEF Memory, Row, Width
    <3>2. \A r : Sizes(r)' = Sizes(r)
      BY DEF Sizes, Cell, Rows, Columns, Width
    <3> QED
      BY <2>2, <3>1, <3>2 DEF SortInv, RowsStand, SortReads
  <2> QED
    BY <2>1, <2>2
<1>7. DeliveredRows'
  BY DEF SortInv, DeliveredRows, Columns, Width
<1>8. Troubles'
  BY DEF SortInv, Troubles, BM!Refused, LostValue, Lost, OrderedNulls, Rows, Columns, Width, Cell, Taken
<1> QED
  BY <1>1, <1>2, <1>3, <1>5, <1>6, <1>7, <1>8 DEF SortInv

PulledApart ==
  /\ \A j, k \in DOMAIN pulled : pulled[j] = pulled[k] => j = k
  /\ \A k \in DOMAIN pulled : pulled[k] \in RowNumbers

LEMMA PulledOnce == InputTypes /\ InputInv => PulledApart
<1> SUFFICES ASSUME InputTypes, InputInv PROVE PulledApart
  OBVIOUS
<1>1. PICK n \in Nat : n = Len(pulled) /\ DOMAIN pulled = 1 .. n
  BY DEF InputTypes
<1>2. From \in Nat /\ Firsts \in Nat /\ From + Firsts <= Len(statement.rows)
      /\ Len(statement.rows) \in Nat
  BY TakenRows, StatementTypes DEF InputTypes
<1>3. \A k \in 1 .. n : pulled[k] = RowNumber(k)
  BY <1>1 DEF InputInv
<1>4. \A j, k \in 1 .. n : RowNumber(j) = RowNumber(k) => j = k
  BY <1>2 DEF RowNumber
<1>5. \A k \in 1 .. n : pulled[k] \in RowNumbers
  BY <1>1 DEF InputTypes
<1> QED
  BY <1>1, <1>3, <1>4, <1>5 DEF PulledApart

LEMMA PulledTaken ==
  ASSUME InputTypes, InputInv
  PROVE  /\ \A k \in DOMAIN pulled : pulled[k] \in ToSet(Taken)
         /\ in.ends = 1 => pulled = Taken
<1>1. InputExplained
  BY InputGives
<1>2. PICK n \in Nat : n = Len(pulled) /\ DOMAIN pulled = 1 .. n
  BY DEF InputTypes
<1>3. Taken \in Seq(Nat) /\ n <= Len(Taken) /\ pulled = SubSeq(Taken, 1, n)
  BY <1>1, <1>2, TakenRows DEF InputExplained, IsPrefixOfRows, InputTypes
<1>4. \A k \in 1 .. n : k \in DOMAIN Taken /\ pulled[k] = Taken[k]
  BY <1>3
<1> QED
  BY <1>1, <1>2, <1>4 DEF InputExplained, ToSet

(* A permutation of the rows has each of them.                             *)
Reaches(s, t, n, f) ==
  /\ t = [k \in 1 .. n |-> s[f[k]]]
  /\ \A j, k \in 1 .. n : f[j] = f[k] => j = k
  /\ \A p \in 1 .. n : \E k \in 1 .. n : f[k] = p
LEMMA OrderingsReach ==
  ASSUME NEW s, NEW n \in Nat, DOMAIN s = 1 .. n, NEW t \in Orderings(s)
  PROVE  \E f \in [1 .. n -> 1 .. n] : Reaches(s, t, n, f)
<1>1. PICK f \in [1 .. n -> 1 .. n] : IsInjective(f) /\ t = [k \in 1 .. n |-> s[f[k]]]
  BY DEF Orderings
<1>2. PICK S : S = 1 .. n /\ IsFiniteSet(S)
  BY FS_Interval
<1>3. f \in Injection(S, S)
  BY <1>1, <1>2 DEF Injection
<1>4. f \in Surjection(S, S)
  BY <1>2, <1>3, FS_Injection
<1>5. \A p \in S : \E k \in S : f[k] = p
  BY <1>4 DEF Surjection
<1>6. \A j, k \in 1 .. n : f[j] = f[k] => j = k
  BY <1>1 DEF IsInjective
<1> QED
  BY <1>1, <1>2, <1>5, <1>6 DEF Reaches

(* Without NULLs in the orders those are rows that have their places.      *)
LEMMA RowsRanked ==
  ASSUME InputTypes, InputInv, EachOnce, ~ OrderedNulls
  PROVE  RankedRows
<1>1. ASSUME NEW p \in DOMAIN positions
      PROVE  positions[p].row \in RowNumbers /\ Ranked(positions[p].row)
  <2>1. PICK k \in DOMAIN pulled : pulled[k] = positions[p].row
    BY DEF EachOnce
  <2>2. pulled[k] \in RowNumbers /\ pulled[k] \in ToSet(Taken)
    BY PulledOnce, PulledTaken DEF PulledApart
  <2>3. Ranked(pulled[k])
    BY <2>2 DEF OrderedNulls, Ranked, OrderPlaces
  <2> QED
    BY <2>1, <2>2, <2>3
<1> QED
  BY <1>1 DEF RankedRows

LEMMA PositionType ==
  ASSUME PositionTypes
  PROVE  \E n \in Nat :
           /\ n = Len(positions) /\ DOMAIN positions = 1 .. n
           /\ \A p \in 1 .. n : positions[p].row \in RowNumbers /\ positions[p].at \in Positions
<1>1. PICK T : T = [row : RowNumbers, at : Positions]
  OBVIOUS
<1>2. positions \in Seq(T)
  BY <1>1 DEF PositionTypes
<1>3. PICK n \in Nat : n = Len(positions) /\ DOMAIN positions = 1 .. n
  BY <1>2
<1>4. \A p \in 1 .. n : positions[p] \in T
  BY <1>2, <1>3
<1> QED
  BY <1>1, <1>3, <1>4

(* What is explained of a sort follows.                                    *)
LEMMA SortGives == InputTypes /\ InputInv /\ Sorting /\ SortInv => SortExplained
<1> SUFFICES ASSUME InputTypes, InputInv, Sorting, SortInv PROVE SortExplained
  OBVIOUS
<1>1. PICK n \in Nat :
        /\ n = Len(positions) /\ DOMAIN positions = 1 .. n
        /\ \A p \in 1 .. n : positions[p].row \in RowNumbers /\ positions[p].at \in Positions
  BY PositionType DEF SortInv
<1>2. PICK m \in Nat : m = Len(delivered) /\ m <= n
  BY <1>1 DEF SortInv, DeliveredRows
<1>3. delivered = [k \in 1 .. m |-> [c \in Columns |-> <<positions[k].row, c>>]]
  BY <1>2 DEF SortInv, DeliveredRows
<1>4. DOMAIN delivered = 1 .. m /\ 1 \in Columns
  <2>1. 1 \in Columns
    BY StatementTypes DEF Columns, InputTypes
  <2> QED
    BY <1>3, <2>1
<1> DEFINE rows == [k \in DOMAIN delivered |-> delivered[k][1][1]]
<1>5. rows = [k \in 1 .. m |-> positions[k].row]
  <2>1. \A k \in 1 .. m : delivered[k] = [c \in Columns |-> <<positions[k].row, c>>]
    BY <1>3
  <2>2. \A k \in 1 .. m : delivered[k][1] = <<positions[k].row, 1>>
    BY <1>4, <2>1
  <2>3. \A k \in 1 .. m : delivered[k][1][1] = positions[k].row
    BY <2>2
  <2> QED
    BY <1>4, <2>3
<1> HIDE DEF rows
<1>6. delivered = Rowed(rows)
  <2>1. DOMAIN rows = 1 .. m /\ \A k \in 1 .. m : rows[k] = positions[k].row
    BY <1>5
  <2>2. Rowed(rows) = [k \in 1 .. m |-> [c \in Columns |-> <<positions[k].row, c>>]]
    BY <2>1 DEF Rowed
  <2> QED
    BY <1>3, <2>2
<1>7. ASSUME NEW j \in DOMAIN rows, NEW k \in DOMAIN rows, j < k
      PROVE  rows[j] # rows[k] /\ (OrderedNulls \/ ~ Before(rows[k], rows[j]))
  <2>1. j \in 1 .. n /\ k \in 1 .. n /\ rows[j] = positions[j].row /\ rows[k] = positions[k].row
        /\ m # 0
    BY <1>2, <1>5, <1>7
  <2>2. rows[j] # rows[k]
    BY <1>1, <1>7, <2>1 DEF SortInv, EachOnce
  <2>3. ASSUME ~ OrderedNulls PROVE ~ Before(rows[k], rows[j])
    <3>1. RankedRows
      BY <2>3, RowsRanked DEF SortInv
    <3>2. StrictWeakOrder /\ Arranged
      <4>1. delivered # <<>>
        BY <1>2, <2>1
      <4> QED
        BY <3>1, <4>1, RanksAreOrder DEF SortInv, WhenSorted, InputTypes
    <3>3. ~ SortOperation(rows[k], rows[j])
      BY <1>1, <1>7, <2>1, <3>2 DEF Arranged
    <3>4. rows[j] \in RowNumbers /\ rows[k] \in RowNumbers /\ Ranked(rows[j]) /\ Ranked(rows[k])
      BY <1>1, <2>1, <3>1 DEF RankedRows
    <3> QED
      BY <3>3, <3>4, BeforeIsLess DEF InputTypes
  <2> QED
    BY <2>2, <2>3
<1>8. ASSUME outcome = "eof" PROVE ToSet(rows) = ToSet(Taken)
  <2>1. m = n /\ pulled = Taken
    BY <1>1, <1>2, <1>8, PulledTaken DEF SortInv, WhenSorted, DeliveredRows
  <2>2. ToSet(rows) = {positions[k].row : k \in 1 .. n}
    BY <1>5, <2>1 DEF ToSet
  <2>3. ToSet(Taken) = {pulled[k] : k \in DOMAIN pulled}
    BY <2>1 DEF ToSet
  <2> QED
    BY <1>1, <2>2, <2>3 DEF SortInv, EachOnce
<1> QED
  BY <1>6, <1>7, <1>8 DEF SortExplained, rows

SortPremise ==
  /\ TypeIInv /\ Keeping /\ InputInv /\ EndKnown /\ SortInv /\ Sorting
  /\ TypeIInv' /\ InputInv' /\ UNCHANGED statement

LEMMA SameRows ==
  ASSUME UNCHANGED statement
  PROVE  /\ Columns' = Columns /\ Width' = Width /\ RowNumbers' = RowNumbers
         /\ \A r : Sizes(r)' = Sizes(r)
         /\ OrderedNulls' = OrderedNulls /\ LostValue' = LostValue
<1>1. Columns' = Columns /\ Width' = Width /\ Rows' = Rows
  BY DEF Columns, Width, Rows
<1> QED
  BY <1>1 DEF RowNumbers, Sizes, Cell, OrderedNulls, Taken, LostValue, Lost

(* The rows that were there stand where they were.                         *)
LEMMA StillStand ==
  ASSUME InputTypes, SortInv, SortReads, UNCHANGED statement, Grows(Memory, Memory'),
         NEW p \in DOMAIN positions, ~ (pc = "copy" /\ p = Len(positions))
  PROVE  Stands(Memory', positions[p].at, positions[p].row, Sizes(positions[p].row))
<1>1. PICK place \in Positions, r \in RowNumbers :
        place = positions[p].at /\ r = positions[p].row
  BY PositionType DEF SortInv
<1>2. Stands(Memory, place, r, Sizes(r))
  BY <1>1 DEF SortInv, RowsStand
<1>3. Sizes(r) \in Seq(Nat)
  BY SizesTypes DEF InputTypes
<1> QED
  BY <1>1, <1>2, <1>3, StandsGrows

(* It has failed, or ended: the rows are no longer looked at.              *)
LEMMA SortEnds ==
  ASSUME SortPremise, pc' \in Ends \cup {"crashed"},
         UNCHANGED <<positions, delivered, pulled, in>>,
         outcome' = "eof" =>
           in.ends = 1 /\ (outcome = "eof" \/ Len(delivered) = Len(positions)),
         Troubles'
  PROVE  SortInv'
<1>1. PositionTypes' /\ EachOnce' /\ AsPulled' /\ RowsStand'
  BY SameRows DEF SortPremise, SortInv, PositionTypes, EachOnce, AsPulled, RowsStand, SortReads, Ends
<1>2. WhenSorted'
  BY SameOrder DEF SortPremise, SortInv, WhenSorted, Ends
<1>3. DeliveredRows'
  BY SameRows DEF SortPremise, SortInv, DeliveredRows
<1> QED
  BY <1>1, <1>2, <1>3 DEF SortInv

LEMMA TroublesStay ==
  ASSUME Troubles, UNCHANGED <<statement, totalBlocks, sBlockNumber, fault>>,
         outcome' = outcome \/ outcome' # "threw" \/ LostValue
  PROVE  Troubles'
BY SameRows DEF Troubles, BM!Refused

LEMMA TroublesPush ==
  ASSUME TypeIInv, Troubles, BM!CreateBlock, UNCHANGED <<statement, outcome, fault>>,
         outcome = "open"
  PROVE  Troubles'
<1>1. totalBlocks' = totalBlocks + 1 /\ sBlockNumber' = sBlockNumber + 1
  BY DEF BM!CreateBlock, BM!CountRequest
<1>2. sBlockNumber \in Nat
  BY DEF TypeIInv, StoreTypes
<1> QED
  BY <1>1, <1>2, SameRows DEF Troubles

LEMMA TroublesRefuse ==
  ASSUME TypeIInv, Troubles, BM!CreateBlockThrows, UNCHANGED <<statement, fault>>
  PROVE  Troubles'
<1>1. totalBlocks' = totalBlocks + 1 /\ sBlockNumber' = sBlockNumber
  BY DEF BM!CreateBlockThrows, BM!CountRequest
<1>2. sBlockNumber \in Nat /\ totalBlocks \in Nat /\ sBlockNumber <= totalBlocks
  BY DEF TypeIInv, StoreTypes, Troubles
<1>3. BM!Refused' # 0 /\ totalBlocks' \in Nat /\ sBlockNumber' <= totalBlocks'
  BY <1>1, <1>2 DEF BM!Refused
<1> QED
  BY <1>3, SameRows DEF Troubles

LEMMA SortOpen ==
  ASSUME SortPremise, pc \notin Ends
  PROVE  outcome = "open"
BY DEF SortPremise, TypeIInv, Stages

(* The first block.                                                        *)
LEMMA SortFirst ==
  ASSUME SortPremise, SortFirstBlock
  PROVE  SortInv'
<1>1. /\ pc = "first" /\ pc' = "pull" /\ PushBlock(Empty)
      /\ UNCHANGED <<statement, in, pulled, col, delivered, outcome, fault, positions>>
  BY DEF SortFirstBlock, GoTo, commonVars
<1>2. outcome = "open"
  BY <1>1, SortOpen DEF Ends
<1>3. cache = <<>> /\ Held /\ Filed /\ Stored
  <2>1. cache = <<>>
    BY <1>1 DEF SortPremise, Keeping, KeepShape
  <2> QED
    BY <2>1, FiledByLedger DEF SortPremise, Held
<1>4. Held' /\ cache' # <<>>
  <2>1. PICK content : content = Empty
    OBVIOUS
  <2>2. content.cells \in Seq(Cells)
    BY <2>1, EmptySeq DEF Empty
  <2> QED
    BY <1>1, <1>3, <2>1, <2>2, PushWrites
<1>5. PositionTypes'
  BY <1>1, <1>4, SameRows DEF SortPremise, SortInv, PositionTypes
<1>6. EachOnce' /\ AsPulled'
  BY <1>1 DEF SortPremise, SortInv, EachOnce, AsPulled
<1>7. pulled = <<>> /\ delivered = <<>> /\ DOMAIN positions = {}
  <2>1. pulled = <<>> /\ delivered = <<>> /\ Len(positions) = Len(pulled)
    BY <1>1 DEF SortPremise, SortInv, AsPulled
  <2> QED
    BY <2>1, PositionType DEF SortPremise, SortInv
<1>8. WhenSorted'
  BY <1>1, <1>2, <1>7 DEF WhenSorted
<1>9. RowsStand'
  BY <1>1, <1>7 DEF RowsStand
<1>10. DeliveredRows'
  BY <1>1, SameRows DEF SortPremise, SortInv, DeliveredRows
<1>11. Troubles'
  BY <1>1, <1>2, TroublesPush DEF PushBlock, SortPremise, SortInv
<1> QED
  BY <1>5, <1>6, <1>8, <1>9, <1>10, <1>11 DEF SortInv

(* A row comes: it begins where the next value is put.                     *)
LEMMA SortTakes ==
  ASSUME SortPremise, SortPull
  PROVE  SortInv'
<1>1. /\ pc = "pull" /\ pc' = "copy" /\ TakeRow /\ col' = 1
      /\ positions' = Append(positions, [row |-> Pulled.row, at |-> Here])
      /\ UNCHANGED <<copyVars, statement, delivered, outcome, fault>>
  BY DEF SortPull, GoTo
<1>2. outcome = "open"
  BY <1>1, SortOpen DEF Ends
<1>3. Held /\ cache # <<>> /\ Filed /\ Stored
  BY <1>1, FiledByLedger DEF SortPremise, SortInv, PositionTypes, SortReads
<1>4. Memory' = Memory /\ Held' /\ cache' # <<>> /\ UNCHANGED <<totalBlocks, sBlockNumber>>
  BY <1>1, <1>3 DEF Memory, copyVars, managerVars, Held, NoBlock, BM!NoBlock
<1>5. PICK here \in Positions : here = Here /\ here = EndOf(Memory)
  BY <1>3, MemoryTypes, EndPosition
<1>6. PICK row \in RowNumbers : row = Pulled.row /\ Row' = row /\ pulled' = Append(pulled, row)
  BY <1>1, RowTaken DEF SortPremise, TypeIInv, TakeRow
<1>7. PICK n \in Nat :
        /\ n = Len(positions) /\ DOMAIN positions = 1 .. n
        /\ \A p \in 1 .. n : positions[p].row \in RowNumbers /\ positions[p].at \in Positions
  BY PositionType DEF SortPremise, SortInv
<1>8. /\ Len(pulled) = n /\ DOMAIN pulled = 1 .. n /\ delivered = <<>>
      /\ \A k \in 1 .. n : positions[k].row = pulled[k]
  <2>1. pulled \in Seq(RowNumbers)
    BY DEF SortPremise, TypeIInv, InputTypes
  <2> QED
    BY <1>1, <1>7, <2>1 DEF SortPremise, SortInv, AsPulled
<1>9. PICK T : T = [row : RowNumbers, at : Positions]
  OBVIOUS
<1>10. PICK new \in T : new = [row |-> row, at |-> here]
  BY <1>9
<1>11. positions \in Seq(T) /\ positions' = Append(positions, new)
  BY <1>1, <1>5, <1>6, <1>9, <1>10 DEF SortPremise, SortInv, PositionTypes
<1>12. /\ positions' \in Seq(T) /\ Len(positions') = n + 1 /\ DOMAIN positions' = 1 .. n + 1
       /\ positions'[n + 1] = new /\ \A p \in 1 .. n : positions'[p] = positions[p]
  BY <1>7, <1>11
<1>13. PositionTypes'
  BY <1>4, <1>9, <1>12, SameRows DEF SortPremise, PositionTypes
<1>14. /\ Len(pulled') = n + 1 /\ DOMAIN pulled' = 1 .. n + 1
       /\ \A k \in 1 .. n + 1 : positions'[k].row = pulled'[k]
  <2>1. pulled \in Seq(RowNumbers)
    BY DEF SortPremise, TypeIInv, InputTypes
  <2>2. /\ Len(pulled') = n + 1 /\ DOMAIN pulled' = 1 .. n + 1 /\ pulled'[n + 1] = row
        /\ \A k \in 1 .. n : pulled'[k] = pulled[k]
    BY <1>6, <1>8, <2>1
  <2>3. new.row = row
    BY <1>10
  <2> QED
    BY <1>8, <1>12, <2>2, <2>3
<1>15. EachOnce' /\ AsPulled'
  <2>1. EachOnce'
    <3>1. PulledApart'
      BY PulledOnce, PTL DEF SortPremise, TypeIInv
    <3> QED
      BY <1>12, <1>14, <3>1 DEF EachOnce, PulledApart
  <2> QED
    BY <1>1, <1>8, <1>12, <1>14, <2>1 DEF AsPulled
<1>16. WhenSorted'
  BY <1>1, <1>2, <1>8 DEF WhenSorted
<1>17. RowsStand'
  <2>1. ASSUME NEW p \in 1 .. n
        PROVE  Stands(Memory, positions[p].at, positions[p].row, Sizes(positions[p].row))'
    <3>1. Stands(Memory, positions[p].at, positions[p].row, Sizes(positions[p].row))
      BY <1>1, <1>7 DEF SortPremise, SortInv, RowsStand, SortReads
    <3> QED
      BY <1>4, <1>12, <3>1, SameRows DEF SortPremise
  <2>2. Copied(Memory', positions'[n + 1].at, Row', Sizes(Row)', 0)
    <3>1. positions'[n + 1].at = EndOf(Memory)
      BY <1>5, <1>10, <1>12
    <3> QED
      BY <1>3, <1>4, <3>1, MemoryTypes, CopyStarts
  <2>3. col' \in 1 .. Width' + 1 /\ col' - 1 = 0
    BY <1>1, StatementTypes, SameRows DEF SortPremise, TypeIInv, InputTypes
  <2> QED
    BY <1>1, <1>12, <2>1, <2>2, <2>3 DEF RowsStand, SortReads
<1>18. DeliveredRows'
  <2>1. delivered' = <<>> /\ outcome' # "eof"
    BY <1>1, <1>2, <1>8
  <2>2. Len(delivered') = 0 /\ 1 .. 0 = {}
    BY <2>1
  <2> QED
    BY <1>12, <2>1, <2>2 DEF DeliveredRows
<1>19. Troubles'
  BY <1>1, <1>4, TroublesStay DEF SortPremise, SortInv
<1> QED
  BY <1>13, <1>15, <1>16, <1>17, <1>18, <1>19 DEF SortInv

(* While a row is copied it is the last one.                               *)
LEMMA RowCopied ==
  ASSUME SortPremise, pc = "copy"
  PROVE  \E n \in Nat \ {0} :
           /\ n = Len(positions) /\ DOMAIN positions = 1 .. n
           /\ Row \in RowNumbers /\ positions[n].row = Row /\ positions[n].at \in Positions
           /\ \A p \in 1 .. n : positions[p].row \in RowNumbers /\ positions[p].at \in Positions
           /\ col \in 1 .. Width + 1
           /\ Copied(Memory, positions[n].at, Row, Sizes(Row), col - 1)
           /\ delivered = <<>> /\ outcome = "open" /\ Held /\ cache # <<>> /\ Filed /\ Stored
<1>1. PICK n \in Nat :
        /\ n = Len(positions) /\ DOMAIN positions = 1 .. n
        /\ \A p \in 1 .. n : positions[p].row \in RowNumbers /\ positions[p].at \in Positions
  BY PositionType DEF SortPremise, SortInv
<1>2. pulled \in Seq(RowNumbers) /\ pulled # <<>>
  BY DEF SortPremise, TypeIInv, InputTypes
<1>3. Len(pulled) = n /\ (\A k \in DOMAIN pulled : positions[k].row = pulled[k]) /\ delivered = <<>>
  BY <1>1 DEF SortPremise, SortInv, AsPulled
<1>4. n # 0 /\ DOMAIN pulled = 1 .. n /\ n \in 1 .. n
  BY <1>1, <1>2, <1>3
<1>5. positions[n].row = Row
  BY <1>3, <1>4 DEF Row, Last
<1>6. /\ col \in 1 .. Width + 1
      /\ Copied(Memory, positions[n].at, Row, Sizes(Row), col - 1)
  BY <1>1 DEF SortPremise, SortInv, RowsStand
<1>7. outcome = "open"
  BY SortOpen DEF Ends
<1>8. Held /\ cache # <<>> /\ Filed /\ Stored
  BY FiledByLedger DEF SortPremise, SortInv, PositionTypes, SortReads
<1> QED
  BY <1>1, <1>3, <1>4, <1>5, <1>6, <1>7, <1>8

(* The rows that are not being copied, when only the blocks grew.          *)
LEMMA SortGrows ==
  ASSUME SortPremise, SortReads, pc' \in {"pull", "copy", "sort"}, pc \in {"pull", "copy"},
         Grows(Memory, Memory'), Held', cache' # <<>>,
         UNCHANGED <<positions, pulled, delivered, outcome, fault>>, Troubles',
         pc' = "sort" => in'.ends = 1,
         pc' # "copy" =>
           \A p \in DOMAIN positions : pc = "copy" /\ p = Len(positions) =>
             Stands(Memory', positions[p].at, positions[p].row, Sizes(positions[p].row)),
         pc' = "copy" =>
           /\ pc = "copy" /\ col' \in 1 .. Width + 1
           /\ Copied(Memory', positions[Len(positions)].at, Row, Sizes(Row), col' - 1)
  PROVE  SortInv'
<1>1. PositionTypes'
  BY SameRows DEF SortPremise, SortInv, PositionTypes, SortReads
<1>2. EachOnce' /\ AsPulled'
  BY DEF SortPremise, SortInv, EachOnce, AsPulled
<1>3. outcome = "open" /\ delivered = <<>>
  BY SortOpen DEF SortPremise, SortInv, AsPulled, Ends
<1>4. WhenSorted'
  BY <1>3 DEF WhenSorted
<1>5. ASSUME NEW p \in DOMAIN positions, ~ (pc' = "copy" /\ p = Len(positions))
      PROVE  Stands(Memory', positions[p].at, positions[p].row, Sizes(positions[p].row))
  <2>1. CASE pc = "copy" /\ p = Len(positions)
    BY <1>5, <2>1
  <2>2. CASE ~ (pc = "copy" /\ p = Len(positions))
    BY <2>2, StillStand DEF SortPremise, TypeIInv
  <2> QED
    BY <2>1, <2>2
<1>6. RowsStand'
  <2>1. ASSUME NEW p \in DOMAIN positions, ~ (pc' = "copy" /\ p = Len(positions))
        PROVE  Stands(Memory, positions[p].at, positions[p].row, Sizes(positions[p].row))'
    BY <1>5, <2>1, SameRows DEF SortPremise
  <2>2. Row' = Row
    BY DEF Row
  <2>3. pc' = "copy" =>
          /\ col' \in 1 .. Width' + 1
          /\ Copied(Memory, positions[Len(positions)].at, Row, Sizes(Row), col - 1)'
    BY <2>2, SameRows DEF SortPremise
  <2> QED
    BY <2>1, <2>3 DEF RowsStand
<1>7. DeliveredRows'
  BY SameRows DEF SortPremise, SortInv, DeliveredRows
<1> QED
  BY <1>1, <1>2, <1>4, <1>6, <1>7 DEF SortInv

LEMMA SortCopies ==
  ASSUME SortPremise, SortCopy
  PROVE  SortInv'
<1>1. /\ pc = "copy" /\ pc' = "copy" /\ col \in Columns /\ col' = col + 1
      /\ AddToCurrent(Row, col, SortSize) \/ AddToNext(Row, col, SortSize)
      /\ UNCHANGED <<statement, in, pulled, delivered, outcome, fault, positions>>
  BY DEF SortCopy, SortCopying
<1>2. PICK n \in Nat \ {0} :
        /\ n = Len(positions) /\ DOMAIN positions = 1 .. n
        /\ Row \in RowNumbers /\ positions[n].row = Row /\ positions[n].at \in Positions
        /\ Copied(Memory, positions[n].at, Row, Sizes(Row), col - 1)
        /\ outcome = "open" /\ Held /\ cache # <<>> /\ Filed /\ Stored
  BY <1>1, RowCopied
<1>3. PICK place \in Positions : place = positions[n].at
  BY <1>2
<1>4. PICK row \in Nat : row = Row
  BY <1>2, StatementTypes DEF RowNumbers, SortPremise, TypeIInv, InputTypes
<1>5. PICK sizes \in Seq(Nat) :
        sizes = Sizes(Row) /\ Len(sizes) = Width /\ \A c \in Columns : sizes[c] = Cell(Row, c).size
  BY <1>2, SizesTypes DEF SortPremise, TypeIInv, InputTypes
<1>6. PICK c \in Nat : col = c + 1 /\ col - 1 = c /\ c + 1 \in Columns
  <2>1. col - 1 \in Nat /\ col = (col - 1) + 1
    BY <1>1, StatementTypes DEF Columns, SortPremise, TypeIInv, InputTypes
  <2> QED
    BY <1>1, <2>1
<1>7. sizes[c + 1] = SortSize /\ sizes[c + 1] \in Nat
  BY <1>1, <1>5, <1>6, StatementTypes DEF SortSize, Columns, SortPremise, TypeIInv, InputTypes
<1>8. Copied(Memory, place, row, sizes, c)
  BY <1>2, <1>3, <1>4, <1>5, <1>6
<1>9. /\ Copied(Memory', place, row, sizes, c + 1) /\ Held' /\ cache' # <<>>
      /\ Grows(Memory, Memory') /\ Troubles'
  <2>1. CASE AddToCurrent(Row, col, SortSize)
    <3>1. AddToCurrent(row, c + 1, sizes[c + 1])
      BY <1>4, <1>6, <1>7, <2>1
    <3>2. Copied(Memory', place, row, sizes, c + 1) /\ Held' /\ cache' # <<>>
      BY <1>2, <1>7, <1>8, <3>1, CopiedAdds
    <3>3. Grows(Memory, Memory')
      <4>1. PICK d \in Nat : d = c + 1
        OBVIOUS
      <4> QED
        BY <1>2, <3>1, <4>1, AddGrows
    <3>4. Troubles'
      BY <1>1, <2>1, TroublesStay DEF AddToCurrent, managerVars, SortPremise, SortInv
    <3> QED
      BY <3>2, <3>3, <3>4
  <2>2. CASE AddToNext(Row, col, SortSize)
    <3>1. AddToNext(row, c + 1, sizes[c + 1])
      BY <1>4, <1>6, <1>7, <2>2
    <3>2. Copied(Memory', place, row, sizes, c + 1) /\ Held' /\ cache' # <<>>
      BY <1>2, <1>8, <3>1, CopiedNext
    <3>3. Grows(Memory, Memory')
      <4>1. PICK d \in Nat : d = c + 1
        OBVIOUS
      <4> QED
        BY <1>2, <1>7, <3>1, <4>1, NextGrows
    <3>4. Troubles'
      BY <1>1, <1>2, <2>2, TroublesPush DEF AddToNext, PushBlock, SortPremise, SortInv
    <3> QED
      BY <3>2, <3>3, <3>4
  <2> QED
    BY <1>1, <2>1, <2>2
<1>10. col' \in 1 .. Width + 1 /\ col' - 1 = c + 1
  BY <1>1, <1>6, StatementTypes DEF Columns, SortPremise, TypeIInv, InputTypes
<1>11. Copied(Memory', positions[n].at, Row, Sizes(Row), col' - 1)
  BY <1>3, <1>4, <1>5, <1>9, <1>10
<1> QED
  BY <1>1, <1>2, <1>9, <1>10, <1>11, SortGrows DEF SortReads

LEMMA SortEndsRow ==
  ASSUME SortPremise, SortEndRow
  PROVE  SortInv'
<1>1. /\ pc = "copy" /\ pc' = "pull" /\ col \notin Columns /\ WriteMark("BB")
      /\ UNCHANGED <<statement, in, pulled, delivered, outcome, fault, positions>>
  BY DEF SortEndRow, GoTo, commonVars
<1>2. PICK n \in Nat \ {0} :
        /\ n = Len(positions) /\ DOMAIN positions = 1 .. n
        /\ Row \in RowNumbers /\ positions[n].row = Row /\ positions[n].at \in Positions
        /\ col \in 1 .. Width + 1
        /\ Copied(Memory, positions[n].at, Row, Sizes(Row), col - 1)
        /\ outcome = "open" /\ Held /\ cache # <<>> /\ Filed /\ Stored
  BY <1>1, RowCopied
<1>3. PICK place \in Positions : place = positions[n].at
  BY <1>2
<1>4. PICK sizes \in Seq(Nat) : sizes = Sizes(Row) /\ Len(sizes) = Width
  BY <1>2, SizesTypes DEF SortPremise, TypeIInv, InputTypes
<1>5. col - 1 = Len(sizes)
  BY <1>1, <1>2, <1>4, StatementTypes DEF Columns, SortPremise, TypeIInv, InputTypes
<1>6. Stands(Memory', place, Row, sizes)
  BY <1>1, <1>2, <1>3, <1>4, <1>5, CopiedEnds
<1>7. Held' /\ cache' # <<>> /\ Grows(Memory, Memory')
  BY <1>1, <1>2, MarkWrites, MarkGrows DEF WriteMark
<1>8. Troubles'
  BY <1>1, TroublesStay DEF WriteMark, managerVars, SortPremise, SortInv
<1>9. Stands(Memory', positions[n].at, positions[n].row, Sizes(positions[n].row))
  BY <1>2, <1>3, <1>4, <1>6
<1> QED
  BY <1>1, <1>2, <1>7, <1>8, <1>9, SortGrows DEF SortReads

LEMMA SortEndsInput ==
  ASSUME SortPremise, SortEndOfInput
  PROVE  SortInv'
<1>1. /\ pc = "pull" /\ pc' = "sort" /\ TakeEnd /\ WriteMark("DD")
      /\ UNCHANGED <<statement, pulled, delivered, outcome, fault, positions>>
  BY DEF SortEndOfInput, GoTo, TakeEnd
<1>2. Held /\ cache # <<>> /\ Filed /\ Stored
  BY <1>1, FiledByLedger DEF SortPremise, SortInv, PositionTypes, SortReads
<1>3. Held' /\ cache' # <<>> /\ Grows(Memory, Memory')
  BY <1>1, <1>2, MarkWrites, MarkGrows DEF WriteMark
<1>4. Troubles'
  BY <1>1, TroublesStay DEF WriteMark, managerVars, SortPremise, SortInv
<1>5. in'.ends = 1
  <2>1. in.ends = 0 /\ ~ TakeRow
    BY <1>1 DEF SortPremise, EndKnown, Asking, TakeEnd, TakeRow
  <2> QED
    BY <1>1, <2>1, InputTakes DEF SortPremise, TypeIInv
<1> QED
  BY <1>1, <1>3, <1>4, <1>5, SortGrows DEF SortReads

(* The rows take the places that the comparator gives them.                *)
LEMMA SortArranges ==
  ASSUME SortPremise, Sort
  PROVE  SortInv'
<1>1. /\ pc = "sort" /\ pc' = "next" /\ positions' \in Orderings(positions)
      /\ StrictWeakOrder =>
           \A p, q \in DOMAIN positions :
             p < q => ~ SortOperation(positions'[q].row, positions'[p].row)
      /\ UNCHANGED <<copyVars, commonVars>>
  BY DEF Sort, GoTo
<1>2. UNCHANGED <<statement, in, pulled, delivered, outcome, fault, cache, store, totalBlocks,
                  sBlockNumber>>
  BY <1>1 DEF copyVars, managerVars, commonVars
<1>3. PICK T : T = [row : RowNumbers, at : Positions]
  OBVIOUS
<1>4. positions \in Seq(T)
  BY <1>3 DEF SortPremise, SortInv, PositionTypes
<1>5. PICK n \in Nat : n = Len(positions) /\ DOMAIN positions = 1 .. n /\ positions \in [1 .. n -> T]
  BY <1>4
<1>6. PICK f \in [1 .. n -> 1 .. n] :
        /\ positions' = [k \in 1 .. n |-> positions[f[k]]]
        /\ \A j, k \in 1 .. n : f[j] = f[k] => j = k
        /\ \A p \in 1 .. n : \E k \in 1 .. n : f[k] = p
  <2>1. PICK s, t : s = positions /\ t = positions'
    OBVIOUS
  <2>2. t \in Orderings(s) /\ DOMAIN s = 1 .. n
    BY <1>1, <1>5, <2>1
  <2>3. PICK f \in [1 .. n -> 1 .. n] : Reaches(s, t, n, f)
    BY <2>2, OrderingsReach
  <2> QED
    BY <2>1, <2>3 DEF Reaches
<1>7. positions' \in Seq(T) /\ Len(positions') = n /\ DOMAIN positions' = 1 .. n
  <2>1. positions' \in [1 .. n -> T]
    BY <1>5, <1>6
  <2> QED
    BY <2>1
<1>8. \A k \in 1 .. n : positions'[k] = positions[f[k]] /\ f[k] \in 1 .. n
  BY <1>6
<1>9. Memory' = Memory /\ (Held' <=> Held)
  BY <1>2 DEF Memory, Held, NoBlock, BM!NoBlock
<1>10. PositionTypes'
  BY <1>1, <1>2, <1>3, <1>7, <1>9, SameRows DEF SortPremise, SortInv, PositionTypes, SortReads
<1>11. EachOnce'
  <2>1. \A p \in 1 .. n : \E k \in DOMAIN pulled : pulled[k] = positions[p].row
    BY <1>5 DEF SortPremise, SortInv, EachOnce
  <2>2. \A k \in DOMAIN pulled : \E p \in 1 .. n : pulled[k] = positions[p].row
    BY <1>5 DEF SortPremise, SortInv, EachOnce
  <2>3. \A p, q \in 1 .. n : positions[p].row = positions[q].row => p = q
    BY <1>5 DEF SortPremise, SortInv, EachOnce
  <2>4. \A p \in 1 .. n : \E k \in DOMAIN pulled : pulled[k] = positions'[p].row
    BY <1>8, <2>1
  <2>5. ASSUME NEW k \in DOMAIN pulled PROVE \E p \in 1 .. n : pulled[k] = positions'[p].row
    <3>1. PICK q \in 1 .. n : pulled[k] = positions[q].row
      BY <2>2
    <3>2. PICK p \in 1 .. n : f[p] = q
      BY <1>6
    <3> QED
      BY <1>8, <3>1, <3>2
  <2>6. ASSUME NEW p \in 1 .. n, NEW q \in 1 .. n, positions'[p].row = positions'[q].row
        PROVE  p = q
    <3>1. f[p] = f[q]
      BY <1>8, <2>3, <2>6
    <3> QED
      BY <1>6, <3>1
  <2> QED
    BY <1>2, <1>7, <2>4, <2>5, <2>6 DEF EachOnce
<1>12. AsPulled'
  BY <1>1 DEF AsPulled
<1>13. WhenSorted'
  <2>1. StrictWeakOrder' => StrictWeakOrder
    <3>1. {positions'[p].row : p \in 1 .. n} = {positions[p].row : p \in 1 .. n}
      <4>1. \A p \in 1 .. n : \E q \in 1 .. n : positions'[p].row = positions[q].row
        BY <1>8
      <4>2. ASSUME NEW q \in 1 .. n PROVE \E p \in 1 .. n : positions'[p].row = positions[q].row
        <5>1. PICK p \in 1 .. n : f[p] = q
          BY <1>6
        <5> QED
          BY <1>8, <5>1
      <4>3. PICK A, B : A = {positions'[p].row : p \in 1 .. n} /\ B = {positions[p].row : p \in 1 .. n}
        OBVIOUS
      <4>4. A \subseteq B
        BY <4>1, <4>3
      <4>5. B \subseteq A
        BY <4>2, <4>3
      <4> QED
        BY <4>3, <4>4, <4>5
    <3>2. \A i, j : SortOperation(i, j)' <=> SortOperation(i, j)
      BY <1>2 DEF SortOperation, InOrder, Less, Cell, Rows
    <3>3. {positions[p].row : p \in DOMAIN positions}' = {positions[p].row : p \in DOMAIN positions}
      BY <1>5, <1>7, <3>1
    <3> QED
      BY <3>2, <3>3 DEF StrictWeakOrder
  <2>2. \A i, j : SortOperation(i, j)' <=> SortOperation(i, j)
    BY <1>2 DEF SortOperation, InOrder, Less, Cell, Rows
  <2>3. Arranged'
    BY <1>1, <1>5, <1>7, <2>1, <2>2 DEF Arranged
  <2>4. in'.ends = 1
    BY <1>1, <1>2 DEF SortPremise, SortInv, WhenSorted
  <2> QED
    BY <2>3, <2>4 DEF WhenSorted
<1>14. RowsStand'
  <2>1. \A p \in 1 .. n : Stands(Memory, positions[p].at, positions[p].row, Sizes(positions[p].row))
    BY <1>1, <1>5 DEF SortPremise, SortInv, RowsStand, SortReads
  <2>2. ASSUME NEW p \in 1 .. n
        PROVE  Stands(Memory, positions[p].at, positions[p].row, Sizes(positions[p].row))'
    BY <1>8, <1>9, <2>1, SameRows DEF SortPremise
  <2> QED
    BY <1>1, <1>7, <2>2 DEF RowsStand
<1>15. delivered = <<>> /\ outcome = "open"
  BY <1>1, SortOpen DEF SortPremise, SortInv, AsPulled, Ends
<1>16. DeliveredRows'
  <2>1. Len(delivered') = 0 /\ 1 .. 0 = {} /\ delivered' = <<>> /\ outcome' # "eof"
    BY <1>2, <1>15
  <2> QED
    BY <1>7, <2>1 DEF DeliveredRows
<1>17. Troubles'
  BY <1>2, TroublesStay DEF SortPremise, SortInv
<1> QED
  BY <1>10, <1>11, <1>12, <1>13, <1>14, <1>16, <1>17 DEF SortInv

LEMMA SortUndone ==
  ASSUME SortPremise, SortUndefined
  PROVE  SortInv'
<1>1. /\ pc = "sort" /\ pc' = "crashed" /\ ~ StrictWeakOrder /\ fault' = "order"
      /\ UNCHANGED <<copyVars, in, pulled, delivered, outcome, positions>>
  BY DEF SortUndefined, Crash, GoTo
<1>2. outcome = "open" /\ UNCHANGED <<totalBlocks, sBlockNumber>>
  BY <1>1, SortOpen DEF copyVars, managerVars, Ends
<1>3. OrderedNulls
  BY <1>1, RowsRanked, RanksAreOrder DEF SortPremise, TypeIInv, InputTypes, SortInv
<1>4. Troubles'
  BY <1>1, <1>2, <1>3, SameRows DEF SortPremise, SortInv, Troubles
<1> QED
  BY <1>1, <1>2, <1>4, SortEnds

(* What fails or ends.                                                     *)
LEMMA SortStops ==
  ASSUME SortPremise,
         \/ SortFirstBlockThrows \/ SortCopyThrows \/ SortThrows \/ SortedRowThrows \/ SortedEnd
  PROVE  SortInv'
<1>1. /\ pc' = "release" /\ outcome' \in {"threw", "eof"}
      /\ UNCHANGED <<in, pulled, delivered, fault, positions>>
  BY DEF SortFirstBlockThrows, SortCopyThrows, SortThrows, SortedRowThrows, SortedEnd, Destroy, GoTo
<1>2. CASE SortFirstBlockThrows \/ SortCopyThrows
  <2>1. BM!CreateBlockThrows /\ outcome' = "threw"
    BY <1>2 DEF SortFirstBlockThrows, SortCopyThrows, AddThrows, Destroy
  <2> QED
    BY <1>1, <2>1, TroublesRefuse, SortEnds DEF Ends, SortPremise, SortInv
<1>3. CASE SortThrows \/ SortedRowThrows
  <2>1. outcome' = "threw" /\ UNCHANGED <<totalBlocks, sBlockNumber>>
    BY <1>3 DEF SortThrows, SortedRowThrows, Destroy, copyVars, managerVars
  <2>2. PICK p \in DOMAIN positions : pc \in {"sort", "next"} /\ ~ Complete(positions[p].at, Width)
    <3>1. CASE SortThrows
      BY <3>1 DEF SortThrows, Comparable
    <3>2. CASE SortedRowThrows
      <4>1. /\ pc = "next" /\ Len(delivered) < Len(positions)
            /\ ~ Complete(positions[Len(delivered) + 1].at, Width)
        BY <3>2 DEF SortedRowThrows, SortedLeft, NextPosition
      <4>2. Len(delivered) + 1 \in DOMAIN positions
        BY <4>1, PositionType DEF SortPremise, SortInv, DeliveredRows
      <4> QED
        BY <4>1, <4>2
    <3> QED
      BY <1>3, <3>1, <3>2
  <2>3. LostValue
    BY <2>2, IncompleteLost DEF SortPremise, SortInv, TypeIInv, InputTypes
  <2>4. Troubles'
    BY <1>1, <2>1, <2>3, TroublesStay DEF SortPremise, SortInv
  <2> QED
    BY <1>1, <2>1, <2>4, SortEnds DEF Ends
<1>4. CASE SortedEnd
  <2>1. /\ pc = "next" /\ Len(delivered) = Len(positions) /\ outcome' = "eof"
        /\ UNCHANGED <<totalBlocks, sBlockNumber>>
    BY <1>4 DEF SortedEnd, Destroy, copyVars, managerVars
  <2>2. Troubles'
    BY <1>1, <2>1, TroublesStay DEF SortPremise, SortInv
  <2>3. in.ends = 1
    BY <2>1 DEF SortPremise, SortInv, WhenSorted
  <2> QED
    BY <1>1, <2>1, <2>2, <2>3, SortEnds DEF Ends
<1> QED
  BY <1>2, <1>3, <1>4

(* A row is read from its position.                                        *)
LEMMA SortDelivers ==
  ASSUME SortPremise, SortedRow
  PROVE  SortInv'
<1>1. /\ pc = "next" /\ pc' = pc /\ Len(delivered) < Len(positions)
      /\ Complete(NextPosition, Width)
      /\ delivered' = Append(delivered, RowAt(NextPosition, Width))
      /\ UNCHANGED <<copyVars, in, pulled, outcome, fault, positions>>
  BY DEF SortedRow, SortedLeft
<1>2. UNCHANGED <<cache, store, totalBlocks, sBlockNumber>>
  BY <1>1 DEF copyVars, managerVars
<1>3. PICK m \in Nat : m = Len(delivered)
  BY DEF SortPremise, SortInv, DeliveredRows
<1>4. m + 1 \in DOMAIN positions /\ Len(positions) \in Nat
  BY <1>1, <1>3, PositionType DEF SortPremise, SortInv
<1>5. PICK row : row = [c \in Columns |-> <<positions[m + 1].row, c>>]
  OBVIOUS
<1>6. RowAt(NextPosition, Width) = row
  BY <1>1, <1>3, <1>4, <1>5, IncompleteLost DEF NextPosition, SortPremise, SortInv, TypeIInv, InputTypes
<1>7. delivered = [k \in 1 .. m |-> [c \in Columns |-> <<positions[k].row, c>>]]
  BY <1>3 DEF SortPremise, SortInv, DeliveredRows
<1>8. delivered' = [k \in 1 .. m + 1 |-> [c \in Columns |-> <<positions[k].row, c>>]]
  <2>1. delivered' = [k \in 1 .. m + 1 |-> IF k = m + 1 THEN row ELSE delivered[k]]
    <3>1. PICK S : S = {delivered[k] : k \in 1 .. m} \cup {row}
      OBVIOUS
    <3>2. delivered \in [1 .. m -> S] /\ row \in S
      BY <1>7, <3>1
    <3>3. delivered \in Seq(S)
      BY <3>2
    <3>4. PICK d : d = delivered' /\ d = Append(delivered, row)
      BY <1>1, <1>6
    <3>5. d \in Seq(S) /\ Len(d) = m + 1
      BY <1>3, <3>2, <3>3, <3>4
    <3>6. \A k \in 1 .. m + 1 : d[k] = IF k = m + 1 THEN row ELSE delivered[k]
      BY <1>3, <3>2, <3>3, <3>4
    <3>7. d = [k \in 1 .. m + 1 |-> d[k]]
      BY <3>5
    <3> QED
      BY <3>4, <3>6, <3>7
  <2>2. \A k \in 1 .. m + 1 :
          (IF k = m + 1 THEN row ELSE delivered[k]) = [c \in Columns |-> <<positions[k].row, c>>]
    BY <1>5, <1>7
  <2> QED
    BY <2>1, <2>2
<1>9. Len(delivered') = m + 1
  BY <1>1, <1>3, <1>6
<1>10. outcome = "open"
  BY <1>1, SortOpen DEF Ends
<1>11. DeliveredRows'
  BY <1>1, <1>3, <1>4, <1>8, <1>9, <1>10, SameRows DEF DeliveredRows, SortPremise
<1>12. Memory' = Memory /\ (Held' <=> Held) /\ Row' = Row
  BY <1>1, <1>2 DEF Memory, Held, NoBlock, BM!NoBlock, Row
<1>13. PositionTypes' /\ EachOnce' /\ AsPulled'
  BY <1>1, <1>2, <1>12, SameRows DEF SortPremise, SortInv, PositionTypes, SortReads, EachOnce, AsPulled
<1>14. WhenSorted'
  BY <1>1, SameOrder DEF SortPremise, SortInv, WhenSorted
<1>15. RowsStand'
  <2>1. ASSUME NEW p \in DOMAIN positions
        PROVE  Stands(Memory, positions[p].at, positions[p].row, Sizes(positions[p].row))'
    BY <1>1, <1>12, SameRows DEF SortPremise, SortInv, RowsStand, SortReads
  <2> QED
    BY <1>1, <2>1 DEF RowsStand
<1>16. Troubles'
  BY <1>1, <1>2, TroublesStay DEF SortPremise, SortInv
<1> QED
  BY <1>11, <1>13, <1>14, <1>15, <1>16 DEF SortInv

LEMMA SortSteps ==
  ASSUME SortPremise, SortNext
  PROVE  SortInv'
BY SortFirst, SortTakes, SortCopies, SortEndsRow, SortEndsInput, SortArranges, SortUndone,
  SortStops, SortDelivers DEF SortNext

(* The steps that are not the sort's own.                                  *)
LEMMA SortOthers ==
  ASSUME SortPremise, [Next]_vars, ~ SortNext
  PROVE  SortInv'
<1>1. functionBlocks = <<>> /\ ~ Grouping /\ ~ Aggregating /\ ~ Projecting
  BY Kinds DEF SortPremise, TypeIInv, Stages, Keeping, KeepShape
<1>2. ~ GroupNext /\ ~ ProjectNext
  <2>1. pc \notin {"functions", "new", "spare", "write"}
    BY <1>1 DEF SortPremise, TypeIInv, Stages, StagesOf, Sorting, Ends
  <2> QED
    BY <1>1, <2>1, GroupOnly, ProjectOnly
<1>3. CASE InputThrows \/ Abandon
  <2>1. /\ pc' = "release" /\ outcome' \in {"failed", "abandoned"}
        /\ UNCHANGED <<in, pulled, delivered, fault, totalBlocks, sBlockNumber>>
    BY <1>3 DEF InputThrows, Abandon, Destroy, GoTo, copyVars, managerVars
  <2>2. UNCHANGED positions
    BY <1>2, <1>3 DEF Next, ownVars, Stopped, vars, SortPremise, InputThrows, Abandon
  <2>3. Troubles'
    BY <2>1, TroublesStay DEF SortPremise, SortInv
  <2> QED
    BY <2>1, <2>2, <2>3, SortEnds DEF Ends
<1>4. CASE UNCHANGED vars
  <2>1. UNCHANGED <<pc, outcome, statement, positions, delivered, pulled, in, fault, col,
                    totalBlocks, sBlockNumber, cache, store>>
    BY <1>4 DEF vars, ownVars, commonVars, copyVars, managerVars
  <2> QED
    BY <2>1, SortInvStays DEF SortPremise
<1>5. CASE (ReleaseBlocks \/ Close) /\ UNCHANGED ownVars
  <2>1. /\ pc' \in Ends /\ pc \in Ends
        /\ UNCHANGED <<outcome, in, pulled, delivered, fault, totalBlocks, sBlockNumber, positions>>
    BY <1>5 DEF ReleaseBlocks, Close, GoTo, ReleaseNext, BM!Release, copyVars, managerVars,
      commonVars, ownVars, Ends, BM!managerVars
  <2>2. Troubles'
    BY <2>1, TroublesStay DEF SortPremise, SortInv
  <2>3. outcome = "eof" => in.ends = 1
    BY DEF SortPremise, SortInv, WhenSorted
  <2> QED
    BY <2>1, <2>2, <2>3, SortEnds
<1> QED
  BY <1>2, <1>3, <1>4, <1>5 DEF Next, Stopped

LEMMA SortBegins == Init => (Sorting => SortInv) /\ fault # "order"
<1> SUFFICES ASSUME Init PROVE SortInv /\ fault # "order"
  OBVIOUS
<1>1. /\ statement \in Statements /\ pc = "first" /\ pulled = <<>> /\ positions = <<>>
      /\ delivered = <<>> /\ outcome = "open" /\ fault = "none" /\ cache = <<>>
      /\ totalBlocks = statement.held /\ sBlockNumber = statement.held
  BY DEF Init, CommonInit
<1>2. DOMAIN positions = {} /\ DOMAIN pulled = {} /\ Len(positions) = 0 /\ Len(pulled) = 0
      /\ Len(delivered) = 0 /\ 1 .. 0 = {} /\ positions \in Seq([row : RowNumbers, at : Positions])
  BY <1>1
<1>3. PositionTypes /\ EachOnce /\ AsPulled /\ WhenSorted /\ RowsStand
  BY <1>1, <1>2 DEF PositionTypes, SortReads, EachOnce, AsPulled, WhenSorted, RowsStand
<1>4. DeliveredRows
  BY <1>1, <1>2 DEF DeliveredRows
<1>5. Troubles
  BY <1>1, StatementTypes DEF Troubles
<1> QED
  BY <1>1, <1>3, <1>4, <1>5 DEF SortInv

SortIInv ==
  /\ RowIInv /\ InputInv /\ EndKnown
  /\ Sorting => SortInv
  /\ ~ Sorting => fault # "order"

LEMMA SortIBegins == Init => SortIInv
BY RowBegins, InputBegins, SortBegins DEF SortIInv

LEMMA SortIStep == SortIInv /\ [Next]_vars => SortIInv'
<1> SUFFICES ASSUME SortIInv, [Next]_vars PROVE SortIInv'
  OBVIOUS
<1>1. RowIInv' /\ InputInv' /\ EndKnown'
  BY RowStep, EndKnownStep DEF SortIInv
<1>2. UNCHANGED statement /\ (Sorting' <=> Sorting)
  BY InputSteps DEF SortIInv, RowIInv, InputStep, Sorting
<1>3. CASE Sorting
  <2>1. SortPremise
    BY <1>1, <1>2, <1>3, Kinds DEF SortPremise, SortIInv, RowIInv, TypeIInv, Stages
  <2> QED
    BY <1>1, <1>2, <1>3, <2>1, SortSteps, SortOthers DEF SortIInv
<1>4. CASE ~ Sorting
  <2>1. fault' \in {fault, "kept"}
    <3>1. ~ SortNext
      BY <1>4, SortOnly
    <3>2. GroupNext => fault' \in {fault, "kept"}
      BY DEF GroupNext, GroupFirstBlock, GroupFirstFunctionBlock, Pulling, GroupStep, Crash,
        GroupStepOnReleased, GroupPullNew, Cloning, CloneFunction, CloneToNextBlock, EnterGroup,
        GroupEndOfInput, SpareBlock, WritingResult, Writing, AddResult, ResultToNextBlock,
        ResultDropped, ReadReleasedResult, EndGroup, EndGroups, AsksForBlock, GroupBlockThrows,
        ReadingGroups, GroupedRow, GroupedRowThrows, GroupedEnd, ReleaseFunctionBlock, commonVars
    <3>3. ProjectNext => fault' = fault
      BY DEF ProjectNext, ProjectFirstBlock, ProjectFirstBlockThrows, Preparing, ProjectRow,
        EvaluatingItem, ProjectItem, ProjectItemToNext, ProjectItemThrows, ProjectEndRow,
        HandFullBlock, HandLastBlock, AtItem, ProjectedRowThrows, ProjectedEnd, ProjectedRow,
        ReadItem, NextItemBlock, ReadItemThrows, RowRead, UseProjectedRow, ReleaseRead, commonVars
    <3>4. InputThrows \/ Abandon \/ ReleaseBlocks \/ Close \/ UNCHANGED vars => fault' = fault
      BY DEF InputThrows, Abandon, ReleaseBlocks, Close, vars, commonVars
    <3> QED
      BY <3>1, <3>2, <3>3, <3>4 DEF Next, Stopped
  <2> QED
    BY <1>1, <1>2, <1>4, <2>1 DEF SortIInv
<1> QED
  BY <1>3, <1>4

(* For every statement with an ORDER BY, every size of the blocks and any  *)
(* cut of the rows by them: the rows that are delivered are rows of the    *)
(* input, whole, each once, none before one that belongs in front of it,   *)
(* and all of them when the end is reported; a sort that throws with no    *)
(* block refused has a value that fits into no block; and the comparator   *)
(* is no order only if there is a NULL among the values that are ordered.  *)
THEOREM SortExplainedHolds ==
  Spec => [](/\ Sorting => SortExplained
             /\ Sorting /\ outcome = "threw" /\ BM!Refused = 0 => LostValue
             /\ fault = "order" => OrderedNulls)
<1>1. SortIInv => /\ Sorting => SortExplained
                  /\ Sorting /\ outcome = "threw" /\ BM!Refused = 0 => LostValue
                  /\ fault = "order" => OrderedNulls
  BY SortGives DEF SortIInv, RowIInv, TypeIInv, SortInv, Troubles
<1> QED
  BY <1>1, SortIBegins, SortIStep, PTL DEF Spec
-----------------------------------------------------------------------------
(***************************************************************************)
(* The rows of a projection: where each one begins and ends in the blocks, *)
(* and how far the iterator has read.                                      *)
(***************************************************************************)
ListSizes(r) == [c \in Items |-> Cell(r, List[c]).size]
ListRow(r) == [c \in Items |-> <<r, c>>]

(* A row begins behind the marker of the one before it.                    *)
RowBegin(ends, k) == IF k = 1 THEN Start ELSE After(ends[k - 1])
NextBegin(ends) == RowBegin(ends, Len(ends) + 1)

(* The rows that were evaluated are in the blocks, one behind the other;   *)
(* then there is what comes next: the row that is being evaluated, or the  *)
(* end.                                                                    *)
Evaluated == IF pc = "item" THEN Len(pulled) - 1 ELSE Len(pulled)
RowsEvaluated(ends) ==
  /\ ends \in Seq(Positions) /\ Len(ends) = Evaluated
  /\ \A k \in 1 .. Len(ends) :
       Spans(Memory, RowBegin(ends, k), ends[k], pulled[k], ListSizes(pulled[k]))
RowFollows(ends) ==
  IF pc = "item"
  THEN /\ col \in 1 .. Len(List) + 1
       /\ Copied(Memory, NextBegin(ends), Row, ListSizes(Row), col - 1)
  ELSE IF in.ends = 0 THEN NextBegin(ends) = EndOf(Memory)
  ELSE IsIn(Memory, NextBegin(ends)) /\ CellIn(Memory, NextBegin(ends)).tag = "DD"

(* The iterator, in the block k, has read a part of a row.                 *)
Spot(k) == [block |-> k, offset |-> at.offset]
RowPart(ends, pos) ==
  /\ Len(read) \in Nat /\ Len(read) <= Len(List) /\ Len(delivered) < Len(ends)
  /\ Chain(Memory, pos, Len(read), RowBegin(ends, Len(delivered) + 1))
  /\ \A c \in 1 .. Len(read) :
       read[c] = [block |-> cache[pos[c].block], offset |-> pos[c].offset]
ReaderAt(ends, pos) == Behind(pos, Len(read), RowBegin(ends, Len(delivered) + 1))
BetweenRows(ends) ==
  \E k \in DOMAIN cache :
    /\ reading.block = cache[k]
    /\ IF delivered = <<>> THEN Spot(k) = Start
       ELSE /\ Spot(k) = ends[Len(delivered)] /\ at.offset # 0
            /\ CellIn(Memory, Spot(k)).tag = "BB"
WithinRow(ends) ==
  \E k \in DOMAIN cache : \E pos :
    /\ reading.block = cache[k] /\ RowPart(ends, pos)
    /\ IsIn(Memory, ReaderAt(ends, pos))
    /\ Spot(k) \in {ReaderAt(ends, pos), Onward(Memory, ReaderAt(ends, pos))}
Suspended(ends) ==
  LET k == OldestFilled - 1 IN
  \E pos :
    /\ RowPart(ends, pos) /\ Len(read) < Len(List)
    /\ ReaderAt(ends, pos) = Spot(k)
    /\ IsIn(Memory, Spot(k)) /\ CellIn(Memory, Spot(k)).tag = "CC"
RowReader(ends) ==
  /\ pc = "next" => BetweenRows(ends)
  /\ pc = "read" => WithinRow(ends)
  /\ Filling => IF OldestFilled = 1 THEN delivered = <<>> ELSE Suspended(ends)
ItemRows(ends) == RowsEvaluated(ends) /\ RowFollows(ends) /\ RowReader(ends)

DeliveredItems ==
  /\ pc = "first" => pulled = <<>> /\ delivered = <<>>
  /\ Len(delivered) \in Nat /\ Len(delivered) <= Len(pulled)
  /\ delivered = [k \in 1 .. Len(delivered) |-> ListRow(pulled[k])]
  /\ outcome = "eof" => in.ends = 1 /\ Len(delivered) = Len(pulled)
ItemInv ==
  \/ Parts
  \/ /\ DeliveredItems /\ Troubles
     /\ Filling \/ Reading => \E ends : ItemRows(ends)

LEMMA ListTypes ==
  ASSUME statement \in Statements, Projecting
  PROVE  Len(List) \in Nat \ {0} /\ List \in Seq(Columns)
<1>1. /\ statement.list \in Seq(ColumnsOf(statement)) /\ statement.list # <<>>
      /\ ColumnsOf(statement) = Columns
  BY StatementsAssumption DEF Projecting, Columns, Width, ColumnsOf
<1>2. PICK S : S = Columns
  OBVIOUS
<1>3. List \in Seq(S) /\ List # <<>>
  BY <1>1, <1>2 DEF List
<1> QED
  BY <1>2, <1>3

LEMMA ListSizesTypes ==
  ASSUME statement \in Statements, Projecting, NEW r \in RowNumbers
  PROVE  /\ ListSizes(r) \in Seq(Nat) \ {<<>>} /\ Len(ListSizes(r)) = Len(List)
         /\ \A c \in Items : ListSizes(r)[c] = Cell(r, List[c]).size
         /\ ~ Fit(ListSizes(r), Len(List)) => LostValue
<1>1. PICK n \in Nat \ {0} : n = Len(List) /\ Items = 1 .. n
  BY ListTypes DEF Items
<1>2. \A c \in Items : List[c] \in Columns
  BY <1>1, ListTypes
<1>3. \A c \in Items : Cell(r, List[c]).size \in Nat
  BY <1>2, CellTypes DEF CellValues
<1>4. ListSizes(r) \in [1 .. n -> Nat]
  BY <1>1, <1>3 DEF ListSizes
<1>5. PICK sizes \in Seq(Nat) \ {<<>>} : sizes = ListSizes(r) /\ Len(sizes) = n
  BY <1>1, <1>4
<1>6. \A c \in Items : sizes[c] = Cell(r, List[c]).size
  BY <1>5 DEF ListSizes
<1>7. ASSUME ~ Fit(sizes, n) PROVE LostValue
  <2>1. PICK c \in Items : ~ HasSizeFor(Empty, sizes[c])
    BY <1>1, <1>7 DEF Fit
  <2>2. Lost(Cell(r, List[c]).size) /\ List[c] \in Columns
    BY <1>2, <1>6, <2>1 DEF Lost
  <2>3. r \in DOMAIN Rows
    <3>1. PICK T : statement.rows \in Seq(T) /\ statement.more \in Seq(T)
      BY StatementsAssumption DEF InputRows
    <3>2. Rows \in Seq(T)
      BY <3>1 DEF Rows
    <3> QED
      BY <3>2 DEF RowNumbers
  <2> QED
    BY <2>2, <2>3 DEF LostValue
<1> QED
  BY <1>1, <1>5, <1>6, <1>7

LEMMA SameList ==
  ASSUME UNCHANGED statement
  PROVE  /\ List' = List /\ Items' = Items
         /\ \A r : ListSizes(r)' = ListSizes(r) /\ ListRow(r)' = ListRow(r)
<1>1. List' = List /\ Items' = Items /\ Rows' = Rows
  BY DEF List, Items, Rows
<1> QED
  BY <1>1 DEF ListSizes, ListRow, Cell

LEMMA RowBeginTypes ==
  ASSUME NEW ends \in Seq(Positions), NEW k \in 1 .. Len(ends) + 1
  PROVE  RowBegin(ends, k) \in Positions
<1>1. Start \in Positions
  BY DEF Start, Positions
<1>2. CASE k # 1
  <2>1. ends[k - 1] \in Positions
    BY <1>2
  <2> QED
    BY <1>2, <2>1, OnwardTypes DEF RowBegin
<1> QED
  BY <1>1, <1>2 DEF RowBegin

(* The places that a row begins at stay when rows are added.               *)
Extends(ends, new) ==
  /\ ends \in Seq(Positions) /\ new \in Seq(Positions) /\ Len(ends) <= Len(new)
  /\ \A k \in 1 .. Len(ends) : new[k] = ends[k]

LEMMA RowBeginStays ==
  ASSUME NEW ends, NEW new, Extends(ends, new), NEW k \in 1 .. Len(ends) + 1
  PROVE  RowBegin(new, k) = RowBegin(ends, k) /\ RowBegin(ends, k) \in Positions
<1>1. k # 1 => k - 1 \in 1 .. Len(ends)
  BY DEF Extends
<1> QED
  BY <1>1, RowBeginTypes DEF Extends, RowBegin

LEMMA FiledByProject ==
  ASSUME TypeIInv, ProjectInv
  PROVE  Filed /\ Stored /\ Held
<1>1. sBlockNumber \in Nat /\ Stored
  BY DEF TypeIInv, StoreTypes, Stored
<1>2. NewerBlocks \subseteq 0 .. sBlockNumber
  BY <1>1, StatementTypes DEF NewerBlocks, TypeIInv, Stages
<1>3. cache \in Seq(0 .. sBlockNumber)
  <2>1. PICK S : S = NewerBlocks
    OBVIOUS
  <2>2. PICK U : U = 0 .. sBlockNumber
    OBVIOUS
  <2>3. cache \in Seq(S) /\ S \subseteq U
    BY <1>2, <2>1, <2>2 DEF ProjectInv, ProjectTypes
  <2>4. PICK n \in Nat : cache \in [1 .. n -> S]
    BY <2>3
  <2>5. cache \in [1 .. n -> U]
    BY <2>3, <2>4
  <2>6. cache \in Seq(U)
    BY <2>5
  <2> QED
    BY <2>2, <2>6
<1>4. Held
  BY ProjectCells DEF Held, TypeIInv, ProjectInv
<1> QED
  BY <1>1, <1>3, <1>4 DEF Filed, ProjectInv, ProjectTypes

(* How a chain of values goes on where a row was written: to its end, and  *)
(* what is met then is its marker; or to its next value.                   *)
LEMMA RowChain ==
  ASSUME NEW p \in Positions, NEW q \in Positions, NEW r, NEW sizes \in Seq(Nat),
         Spans(Memory, p, q, r, sizes), NEW n \in Nat \ {0}, n = Len(sizes),
         NEW c \in 0 .. n, NEW pos, Chain(Memory, pos, c, p)
  PROVE  LET here == Behind(pos, c, p) IN
         /\ c = n => /\ \A i \in 1 .. n : CellIn(Memory, pos[i]) = Value(r, i)
                     /\ q = here /\ q.offset # 0 /\ CellIn(Memory, q).tag = "BB"
         /\ c < n /\ Fit(sizes, n) => Link(Memory, here, Onward(Memory, here))
<1> DEFINE place == ValuePositions(p, n)
           here == Behind(pos, c, p)
<1>1. /\ pos \in [1 .. c -> Positions]
      /\ \A i \in 1 .. c : place[i] = pos[i] /\ TagAt(pos[i]) = "AA"
  <2>1. pos \in [1 .. c -> Positions]
    BY DEF Chain
  <2>2. n \in Nat
    OBVIOUS
  <2>3. \A i \in 1 .. c : ValuePositions(p, n)[i] = pos[i] /\ TagAt(pos[i]) = "AA"
    <3> HIDE DEF place, here
    <3> QED
      BY <2>2, ReadsChain
  <2> QED
    BY <2>1, <2>3
<1> HIDE DEF place
<1>2. CASE Fit(sizes, n)
  <2>1. PICK all \in [1 .. n -> Positions] :
          /\ Chain(Memory, all, n, p) /\ Holds(Memory, all, n, r)
          /\ q = Behind(all, n, p) /\ IsIn(Memory, q) /\ CellIn(Memory, q).tag = "BB"
    BY <1>2 DEF Spans, Whole
  <2>2. \A i \in 1 .. n : place[i] = all[i]
    <3>1. n \in 0 .. n
      OBVIOUS
    <3> QED
      BY <2>1, <3>1, ReadsChain DEF place
  <2>3. \A i \in 1 .. c : all[i] = pos[i]
    BY <1>1, <2>2
  <2>4. Behind(all, c, p) = here
    BY <2>3 DEF Behind
  <2>5. c = n => /\ \A i \in 1 .. n : CellIn(Memory, pos[i]) = Value(r, i)
                 /\ q = here /\ q.offset # 0 /\ CellIn(Memory, q).tag = "BB"
    <3>1. all[n] \in Positions
      OBVIOUS
    <3>2. q = After(all[n])
      BY <2>1 DEF Behind
    <3>3. q.offset # 0
      BY <3>1, <3>2 DEF After, Positions
    <3> QED
      BY <2>1, <2>3, <2>4, <3>3 DEF Holds
  <2>6. c < n => Link(Memory, here, Onward(Memory, here))
    <3>1. c < n => c + 1 \in 1 .. n /\ (c + 1) - 1 = c
      OBVIOUS
    <3>2. c < n => Link(Memory, here, all[c + 1])
      BY <2>1, <2>4, <3>1 DEF Chain
    <3> QED
      BY <3>2 DEF Link
  <2> QED
    BY <2>5, <2>6
<1>3. CASE ~ Fit(sizes, n)
  <2>1. PICK m \in 0 .. n - 1 : \E some \in [1 .. m -> Positions] :
          Chain(Memory, some, m, p) /\ Stuck(Memory, Behind(some, m, p))
    BY <1>3 DEF Spans, Cut
  <2>2. PICK some \in [1 .. m -> Positions] :
          Chain(Memory, some, m, p) /\ Stuck(Memory, Behind(some, m, p))
    BY <2>1
  <2>3. m \in Nat /\ m \in 0 .. n /\ m < n /\ m + 1 \in 1 .. n
    OBVIOUS
  <2>4. PICK s \in Positions : s = Behind(some, m, p)
    BY <2>3, BehindTypes
  <2>5. place[m + 1] = Skipped(s)
    BY <2>2, <2>3, <2>4, ReadsChain DEF place
  <2>6. Skipped(s) = Onward(Memory, s) /\ Onward(Memory, s) \in Positions
    BY <2>2, <2>4, SeesMemory, OnwardTypes DEF Stuck
  <2>7. TagAt(place[m + 1]) # "AA"
    BY <2>2, <2>4, <2>5, <2>6, SeesMemory DEF Stuck, TagAt
  <2>8. c # n
    BY <1>1, <2>3, <2>7
  <2> QED
    BY <1>3, <2>8
<1> QED
  BY <1>2, <1>3

ItemPremise ==
  /\ TypeIInv /\ ProjectInv /\ InputInv /\ EndKnown /\ Projecting
  /\ ItemInv /\ DeliveredItems /\ Troubles /\ ~ Parts
  /\ TypeIInv' /\ ProjectInv' /\ InputInv' /\ EndKnown' /\ ~ Parts'
  /\ UNCHANGED statement

LEMMA PulledRows ==
  ASSUME TypeIInv
  PROVE  /\ pulled \in Seq(RowNumbers) /\ Len(pulled) \in Nat
         /\ \A k \in 1 .. Len(pulled) : pulled[k] \in RowNumbers
         /\ pc = "item" => pulled # <<>>
BY DEF TypeIInv, InputTypes

LEMMA EvaluatedTypes ==
  ASSUME TypeIInv, NEW ends, RowsEvaluated(ends)
  PROVE  /\ ends \in Seq(Positions) /\ Len(ends) \in Nat /\ Len(ends) = Evaluated
         /\ Len(ends) <= Len(pulled) /\ Len(ends) + 1 \in 1 .. Len(ends) + 1
         /\ Extends(ends, ends)
         /\ NextBegin(ends) \in Positions
         /\ pc = "item" => Len(pulled) = Len(ends) + 1
<1>1. ends \in Seq(Positions) /\ Len(ends) = Evaluated /\ Len(ends) \in Nat
  BY DEF RowsEvaluated
<1>2. NextBegin(ends) \in Positions
  BY <1>1, RowBeginTypes DEF NextBegin
<1> QED
  BY <1>1, <1>2, PulledRows DEF Evaluated, Extends

(* The blocks grow: rows that are there stay there.                        *)
LEMMA RowsStay ==
  ASSUME ItemPremise, Grows(Memory, Memory'), NEW ends, RowsEvaluated(ends),
         NEW k \in 1 .. Len(ends)
  PROVE  Spans(Memory', RowBegin(ends, k), ends[k], pulled[k], ListSizes(pulled[k]))
<1>1. ends \in Seq(Positions) /\ Len(ends) \in Nat /\ Len(ends) <= Len(pulled) /\ Extends(ends, ends)
  BY EvaluatedTypes DEF ItemPremise
<1>2. PICK p \in Positions, q \in Positions : p = RowBegin(ends, k) /\ q = ends[k]
  <2>1. ends[k] \in Positions /\ k \in 1 .. Len(ends) + 1
    BY <1>1
  <2> QED
    BY <1>1, <2>1, RowBeginTypes
<1>3. PICK r \in RowNumbers : r = pulled[k]
  BY <1>1, PulledRows DEF ItemPremise
<1>4. PICK sizes \in Seq(Nat) : sizes = ListSizes(r)
  BY ListSizesTypes DEF ItemPremise, TypeIInv, InputTypes
<1>5. Spans(Memory, p, q, r, sizes)
  BY <1>2, <1>3, <1>4 DEF RowsEvaluated
<1>6. Spans(Memory', p, q, r, sizes)
  BY <1>5, SpanGrows
<1> QED
  BY <1>2, <1>3, <1>4, <1>6

LEMMA EvaluatedStays ==
  ASSUME ItemPremise, Grows(Memory, Memory'), NEW ends, RowsEvaluated(ends),
         Evaluated' = Evaluated,
         \A k \in 1 .. Len(ends) : pulled'[k] = pulled[k]
  PROVE  RowsEvaluated(ends)'
<1>1. ends \in Seq(Positions) /\ Len(ends) = Evaluated'
  BY DEF RowsEvaluated
<1>2. ASSUME NEW k \in 1 .. Len(ends)
      PROVE  Spans(Memory', RowBegin(ends, k), ends[k], pulled'[k], ListSizes(pulled[k])')
  <2>1. Spans(Memory', RowBegin(ends, k), ends[k], pulled[k], ListSizes(pulled[k]))
    BY RowsStay
  <2>2. pulled'[k] = pulled[k]
    OBVIOUS
  <2>3. ListSizes(pulled[k])' = ListSizes(pulled[k])
    BY <2>2, SameList DEF ItemPremise, ListSizes, Items, List, Cell, Rows
  <2> QED
    BY <2>1, <2>2, <2>3
<1> QED
  BY <1>1, <1>2 DEF RowsEvaluated, Start

(* What was read of a row stays.                                           *)
LEMMA PartStays ==
  ASSUME Grows(Memory, Memory'), NEW ends, NEW new, Extends(ends, new), NEW pos,
         RowPart(ends, pos),
         \A k \in DOMAIN cache : cache'[k] = cache[k],
         UNCHANGED <<statement, delivered, read>>, Len(delivered) \in Nat
  PROVE  /\ RowPart(new, pos)' /\ ReaderAt(new, pos)' = ReaderAt(ends, pos)
         /\ ReaderAt(ends, pos) \in Positions
<1>1. PICK n \in Nat : n = Len(read) /\ n <= Len(List)
  BY DEF RowPart
<1>2. PICK d \in Nat : d = Len(delivered) /\ d < Len(ends)
  BY DEF RowPart
<1>3. Len(ends) \in Nat /\ Len(new) \in Nat /\ d < Len(new) /\ d + 1 \in 1 .. Len(ends) + 1
  BY <1>2 DEF Extends
<1>4. PICK p \in Positions : p = RowBegin(ends, d + 1) /\ p = RowBegin(new, d + 1)
  BY <1>3, RowBeginStays
<1>5. Chain(Memory, pos, n, p) /\ \A c \in 1 .. n : read[c] = [block |-> cache[pos[c].block], offset |-> pos[c].offset]
  BY <1>1, <1>2, <1>4 DEF RowPart
<1>6. Chain(Memory', pos, n, p)
  BY <1>5, ChainGrows
<1>7. \A c \in 1 .. n : pos[c].block \in DOMAIN cache
  BY <1>5 DEF Chain, Link, IsIn, Memory
<1>8. RowPart(new, pos)'
  <2>1. Len(List)' = Len(List)
    BY DEF List
  <2>2. RowBegin(new, d + 1)' = p
    BY <1>4 DEF RowBegin, Start
  <2>3. /\ Len(read') = n /\ Len(delivered') = d
    BY <1>1, <1>2
  <2>4. Chain(Memory', pos, Len(read'), RowBegin(new, Len(delivered') + 1))
    BY <1>4, <1>6, <2>3
  <2>5. \A c \in 1 .. n : read'[c] = [block |-> cache'[pos[c].block], offset |-> pos[c].offset]
    BY <1>5, <1>7
  <2> QED
    BY <1>1, <1>2, <1>3, <2>1, <2>3, <2>4, <2>5 DEF RowPart
<1>9. ReaderAt(new, pos)' = ReaderAt(ends, pos)
  BY <1>1, <1>2, <1>4 DEF ReaderAt
<1>10. ReaderAt(ends, pos) \in Positions
  <2>1. pos \in [1 .. n -> Positions] /\ n \in 0 .. n
    BY <1>5 DEF Chain
  <2> QED
    BY <1>1, <1>2, <1>4, <2>1, BehindTypes DEF ReaderAt
<1> QED
  BY <1>8, <1>9, <1>10

(* While blocks are filled the reader stays where it is.                   *)
LEMMA FillingStays ==
  ASSUME ItemPremise, Filling, Filling', Grows(Memory, Memory'),
         NEW ends, NEW new, Extends(ends, new), RowReader(ends),
         \A k \in DOMAIN cache : cache'[k] = cache[k],
         UNCHANGED <<delivered, read, at>>, OldestFilled' = OldestFilled,
         OldestFilled \in Nat \ {0}
  PROVE  RowReader(new)'
<1>1. CASE OldestFilled = 1
  BY <1>1 DEF RowReader, Filling
<1>2. CASE OldestFilled # 1
  <2>1. PICK k \in Nat \ {0} : k = OldestFilled - 1
    BY <1>2
  <2>2. PICK pos : /\ RowPart(ends, pos) /\ Len(read) < Len(List)
                   /\ ReaderAt(ends, pos) = Spot(k)
                   /\ IsIn(Memory, Spot(k)) /\ CellIn(Memory, Spot(k)).tag = "CC"
    BY <1>2, <2>1 DEF RowReader, Suspended
  <2>3. Spot(k)' = Spot(k) /\ Spot(k) \in Positions
    BY DEF Spot, Positions, ItemPremise, TypeIInv, PlaceTypes, Places
  <2>4. IsIn(Memory', Spot(k)) /\ CellIn(Memory', Spot(k)).tag = "CC"
    BY <2>2, <2>3 DEF Grows
  <2>5. RowPart(new, pos)' /\ ReaderAt(new, pos)' = Spot(k)
    BY <2>2, PartStays DEF ItemPremise, DeliveredItems
  <2>6. Len(List)' = Len(List) /\ OldestFilled' # 1 /\ k = OldestFilled' - 1 /\ Len(read)' = Len(read)
    BY <1>2, <2>1 DEF List, ItemPremise
  <2>7. Suspended(new)'
    BY <2>1, <2>2, <2>3, <2>4, <2>5, <2>6 DEF Suspended
  <2> QED
    BY <2>6, <2>7 DEF RowReader, Filling
<1> QED
  BY <1>1, <1>2

(* The iterator is given the oldest of the blocks that it has not had.     *)
LEMMA Resumes ==
  ASSUME ItemPremise, Filling, Grows(Memory, Memory'), NEW ends, Extends(ends, ends),
         RowReader(ends), UNCHANGED <<cache, delivered, read>>,
         OldestFilled \in DOMAIN cache, Handed(cache[OldestFilled])
  PROVE  RowReader(ends)'
<1>1. PICK o \in Nat \ {0} : o = OldestFilled /\ o \in DOMAIN cache
  BY DEF ItemPremise, ProjectInv, ProjectTypes
<1>2. /\ reading' = [reading EXCEPT !.block = cache[o]] /\ at' = [block |-> 1, offset |-> 0]
      /\ pc' = (IF reading.previous = NoBlock THEN "next" ELSE "read")
  BY <1>1 DEF Handed, GoTo
<1>3. reading.previous = Prior(o)
  BY <1>1 DEF ItemPremise, ProjectInv, ProjectLedger
<1>4. reading'.block = cache'[o] /\ o \in DOMAIN cache'
  BY <1>1, <1>2 DEF ItemPremise, ProjectInv, ProjectTypes
<1>5. Spot(o)' = [block |-> o, offset |-> 0]
  BY <1>2 DEF Spot
<1>6. CASE o = 1
  <2>1. delivered' = <<>> /\ pc' = "next"
    BY <1>1, <1>2, <1>3, <1>6 DEF RowReader, Prior
  <2>2. Spot(o)' = Start
    BY <1>5, <1>6 DEF Start
  <2> QED
    BY <1>4, <2>1, <2>2 DEF RowReader, BetweenRows, Filling, Start
<1>7. CASE o # 1
  <2>1. PICK k \in Nat \ {0} : k = o - 1 /\ k \in DOMAIN cache
    <3>1. o - 1 \in 1 .. Len(cache) /\ o - 1 \in Nat \ {0}
      BY <1>1, <1>7 DEF ItemPremise, ProjectInv, ProjectTypes
    <3>2. DOMAIN cache = 1 .. Len(cache)
      BY DEF ItemPremise, ProjectInv, ProjectTypes
    <3> QED
      BY <3>1, <3>2
  <2>2. pc' = "read"
    <3>1. Prior(o) = cache[k]
      BY <1>1, <1>7, <2>1 DEF Prior
    <3> QED
      BY <1>2, <1>3, <2>1, <3>1, ProjectCells DEF ItemPremise, TypeIInv, ProjectInv
  <2>3. PICK pos : /\ RowPart(ends, pos) /\ Len(read) < Len(List)
                   /\ ReaderAt(ends, pos) = Spot(k)
                   /\ IsIn(Memory, Spot(k)) /\ CellIn(Memory, Spot(k)).tag = "CC"
    BY <1>1, <1>7, <2>1 DEF RowReader, Suspended
  <2>4. Spot(k) \in Positions
    BY DEF Spot, Positions, ItemPremise, TypeIInv, PlaceTypes, Places
  <2>5. IsIn(Memory', Spot(k)) /\ CellIn(Memory', Spot(k)).tag = "CC"
    BY <2>3, <2>4 DEF Grows
  <2>6. RowPart(ends, pos)' /\ ReaderAt(ends, pos)' = Spot(k)
    BY <2>3, PartStays DEF ItemPremise, DeliveredItems
  <2>7. Onward(Memory', Spot(k)) = Spot(o)'
    <3>1. Spot(k).block + 1 = o
      BY <1>7, <2>1 DEF Spot
    <3> QED
      BY <1>5, <2>5, <3>1 DEF Onward
  <2>8. WithinRow(ends)'
    BY <1>4, <2>5, <2>6, <2>7 DEF WithinRow
  <2> QED
    BY <2>2, <2>8 DEF RowReader, Filling
<1> QED
  BY <1>6, <1>7

LEMMA ItemOpen ==
  ASSUME ItemPremise, pc \notin Ends
  PROVE  outcome = "open"
BY DEF ItemPremise, TypeIInv, Stages

(* A projection that goes on, or ends with what it has delivered.          *)
LEMMA DeliveredStay ==
  ASSUME ItemPremise, pc' # "first", UNCHANGED delivered,
         \/ pulled' = pulled
         \/ \E r \in RowNumbers : pulled' = Append(pulled, r),
         outcome' = "eof" => in'.ends = 1 /\ Len(delivered) = Len(pulled')
  PROVE  DeliveredItems'
<1>1. PICK d \in Nat : d = Len(delivered) /\ d <= Len(pulled)
  BY DEF ItemPremise, DeliveredItems
<1>2. pulled \in Seq(RowNumbers) /\ Len(pulled) \in Nat
  BY PulledRows DEF ItemPremise
<1>3. /\ d <= Len(pulled')
      /\ \A k \in 1 .. d : pulled'[k] = pulled[k]
  <2>1. CASE pulled' = pulled
    BY <1>1, <2>1
  <2>2. CASE pulled' # pulled
    <3>1. PICK r \in RowNumbers : pulled' = Append(pulled, r)
      BY <2>2
    <3> QED
      BY <1>1, <1>2, <3>1
  <2> QED
    BY <2>1, <2>2
<1>4. delivered' = [k \in 1 .. d |-> ListRow(pulled[k])']
  <2>1. delivered = [k \in 1 .. d |-> ListRow(pulled[k])]
    BY <1>1 DEF ItemPremise, DeliveredItems
  <2>2. \A k \in 1 .. d : ListRow(pulled[k])' = ListRow(pulled[k])
    BY <1>3 DEF ListRow, Items, List, ItemPremise
  <2> QED
    BY <2>1, <2>2
<1> QED
  BY <1>1, <1>3, <1>4 DEF DeliveredItems

LEMMA ItemStops ==
  ASSUME ItemPremise, pc' \in Ends, UNCHANGED <<delivered, pulled, in>>,
         outcome' = "eof" => in.ends = 1 /\ Len(delivered) = Len(pulled),
         Troubles'
  PROVE  ItemInv'
<1>1. pc' # "first" /\ ~ Filling' /\ ~ Reading'
  BY DEF Ends, Filling, Reading
<1> QED
  BY <1>1, DeliveredStay DEF ItemInv

LEMMA ItemFirst ==
  ASSUME ItemPremise, ProjectFirstBlock
  PROVE  ItemInv'
<1>1. /\ pc = "first" /\ pc' = "pull" /\ PushBlock(Empty)
      /\ UNCHANGED <<statement, in, pulled, delivered, outcome, fault, full, reading, read>>
  BY DEF ProjectFirstBlock, GoTo, commonVars
<1>2. outcome = "open" /\ pulled = <<>> /\ delivered = <<>>
  BY <1>1, ItemOpen DEF Ends, ItemPremise, DeliveredItems
<1>3. cache = <<>> /\ full = NoBlock /\ Filed /\ Stored /\ Held
  BY <1>1, FiledByProject DEF ItemPremise, ProjectInv, ProjectContents
<1>4. Memory' = Append(<<>>, <<>>)
  <2>1. PICK content : content = Empty
    OBVIOUS
  <2>2. content.cells \in Seq(Cells) /\ content.cells = <<>>
    BY <2>1, EmptySeq DEF Empty
  <2> QED
    BY <1>1, <1>3, <2>1, <2>2, PushWrites
<1>5. EndOf(Memory') = Start
  BY <1>4 DEF EndOf, Start
<1>6. OldestFilled' = 1
  <2>1. cache' = Append(<<>>, sBlockNumber')
    BY <1>1, <1>3 DEF PushBlock
  <2> QED
    BY <1>1, <1>3, <2>1 DEF OldestFilled
<1>7. PICK ends \in Seq(Positions) : ends = <<>> /\ Len(ends) = 0
  BY EmptySeq
<1>8. RowsEvaluated(ends)'
  BY <1>1, <1>2, <1>7 DEF RowsEvaluated, Evaluated
<1>9. RowFollows(ends)'
  <2>1. in'.ends = 0
    BY <1>1 DEF ItemPremise, EndKnown, Asking
  <2> QED
    BY <1>1, <1>5, <1>7, <2>1 DEF RowFollows, NextBegin, RowBegin, Start
<1>10. RowReader(ends)'
  BY <1>1, <1>2, <1>6 DEF RowReader, Filling
<1>11. Troubles'
  BY <1>1, <1>2, TroublesPush DEF PushBlock, ItemPremise
<1>12. DeliveredItems'
  BY <1>1, <1>2, DeliveredStay
<1> QED
  BY <1>8, <1>9, <1>10, <1>11, <1>12 DEF ItemInv, ItemRows

(* The rows while blocks are filled.                                       *)
LEMMA ItemFilling ==
  ASSUME ItemPremise, Filling
  PROVE  /\ outcome = "open" /\ Filed /\ Stored /\ Held /\ cache # <<>>
         /\ Memory \in Memories /\ Memory # <<>> /\ EndOf(Memory) \in Positions
         /\ OldestFilled \in Nat \ {0} /\ OldestFilled \in DOMAIN cache
         /\ in.ends = 0
         /\ \E ends : ItemRows(ends)
         /\ Len(cache) \in Nat \ {0} /\ DOMAIN cache = 1 .. Len(cache)
<1>7. \E ends : ItemRows(ends)
  BY DEF ItemPremise, ItemInv
<1>1. outcome = "open" /\ Filed /\ Stored /\ Held
  BY ItemOpen, FiledByProject DEF Filling, Ends, ItemPremise
<1>2. cache # <<>> /\ (full # NoBlock => Len(cache) > 1)
  BY DEF ItemPremise, ProjectInv, ProjectContents
<1>3. Len(cache) \in Nat \ {0} /\ DOMAIN cache = 1 .. Len(cache)
  BY <1>2 DEF ItemPremise, ProjectInv, ProjectTypes
<1>4. OldestFilled \in Nat \ {0} /\ OldestFilled \in DOMAIN cache
  BY <1>2, <1>3 DEF OldestFilled
<1>5. Memory \in Memories /\ Memory # <<>> /\ EndOf(Memory) \in Positions
  BY <1>1, <1>2, MemoryTypes, EndPosition
<1>6. in.ends = 0
  BY DEF ItemPremise, EndKnown, Asking, Filling
<1> QED
  BY <1>1, <1>2, <1>3, <1>4, <1>5, <1>6, <1>7

LEMMA ItemTakes ==
  ASSUME ItemPremise, ProjectRow
  PROVE  ItemInv'
<1>1. /\ pc = "pull" /\ pc' = "item" /\ TakeRow /\ col' = 1
      /\ UNCHANGED <<copyVars, statement, at, delivered, outcome, fault, full, reading, read>>
  BY DEF ProjectRow, Preparing, GoTo
<1>2. Filling /\ Filling' /\ UNCHANGED <<cache, store, totalBlocks, sBlockNumber>>
  BY <1>1 DEF Filling, copyVars, managerVars
<1>3. PICK ends : ItemRows(ends)
  BY <1>2 DEF ItemInv, ItemPremise
<1>4. /\ outcome = "open" /\ Memory \in Memories /\ Memory # <<>> /\ in.ends = 0
      /\ OldestFilled \in Nat \ {0}
  BY <1>2, ItemFilling DEF ItemInv, ItemPremise
<1>5. PICK row \in RowNumbers : Row' = row /\ pulled' = Append(pulled, row)
  BY <1>1, RowTaken DEF ItemPremise, TypeIInv, TakeRow
<1>6. pulled \in Seq(RowNumbers) /\ Len(pulled) \in Nat
  BY PulledRows DEF ItemPremise
<1>7. /\ ends \in Seq(Positions) /\ Len(ends) = Len(pulled) /\ NextBegin(ends) = EndOf(Memory)
      /\ Extends(ends, ends)
  BY <1>1, <1>3, <1>4, EvaluatedTypes DEF ItemRows, Evaluated, RowFollows, ItemPremise
<1>8. Memory' = Memory /\ Grows(Memory, Memory')
  BY <1>2 DEF Memory, Grows
<1>9. RowsEvaluated(ends)'
  <2>1. Evaluated' = Evaluated /\ \A k \in 1 .. Len(ends) : pulled'[k] = pulled[k]
    BY <1>1, <1>5, <1>6, <1>7 DEF Evaluated
  <2> QED
    BY <1>3, <1>8, <2>1, EvaluatedStays DEF ItemRows
<1>10. RowFollows(ends)'
  <2>1. Copied(Memory', EndOf(Memory), Row', ListSizes(Row)', 0)
    BY <1>4, <1>8, CopyStarts
  <2>2. NextBegin(ends)' = EndOf(Memory)
    BY <1>7 DEF NextBegin, RowBegin, Start
  <2>3. col' - 1 = 0 /\ col' \in 1 .. Len(List') + 1
    <3>1. Len(List) \in Nat \ {0} /\ List' = List
      BY ListTypes, SameList DEF ItemPremise, TypeIInv, InputTypes
    <3> QED
      BY <1>1, <3>1
  <2> QED
    BY <1>1, <2>1, <2>2, <2>3 DEF RowFollows
<1>11. RowReader(ends)'
  <2>1. OldestFilled' = OldestFilled
    BY <1>1, <1>2 DEF OldestFilled
  <2> QED
    BY <1>1, <1>2, <1>3, <1>4, <1>7, <1>8, <2>1, FillingStays DEF ItemRows
<1>12. Troubles'
  BY <1>1, <1>2, TroublesStay DEF ItemPremise
<1>13. DeliveredItems'
  BY <1>1, <1>4, <1>5, DeliveredStay
<1> QED
  BY <1>9, <1>10, <1>11, <1>12, <1>13 DEF ItemInv, ItemRows

(* The row that is evaluated.                                              *)
LEMMA ItemEvaluated ==
  ASSUME ItemPremise, pc = "item", NEW ends, ItemRows(ends)
  PROVE  /\ Row \in RowNumbers /\ Row \in Nat /\ Row = pulled[Len(ends) + 1]
         /\ Len(pulled) = Len(ends) + 1 /\ Len(ends) \in Nat
         /\ col \in 1 .. Len(List) + 1 /\ Len(List) \in Nat \ {0}
         /\ NextBegin(ends) \in Positions /\ Extends(ends, ends)
         /\ Copied(Memory, NextBegin(ends), Row, ListSizes(Row), col - 1)
         /\ ListSizes(Row) \in Seq(Nat) /\ Len(ListSizes(Row)) = Len(List)
         /\ \A c \in Items : ListSizes(Row)[c] = Cell(Row, List[c]).size
<1>1. /\ NextBegin(ends) \in Positions /\ Extends(ends, ends) /\ Len(ends) \in Nat
      /\ Len(pulled) = Len(ends) + 1
  BY EvaluatedTypes DEF ItemPremise, ItemRows
<1>2. pulled \in Seq(RowNumbers) /\ pulled # <<>>
  BY PulledRows DEF ItemPremise
<1>3. Row \in RowNumbers /\ Row = pulled[Len(ends) + 1] /\ Row \in Nat
  <2>1. Row = pulled[Len(pulled)]
    BY <1>2 DEF Row, Last
  <2> QED
    BY <1>1, <1>2, <2>1 DEF RowNumbers
<1>4. /\ col \in 1 .. Len(List) + 1
      /\ Copied(Memory, NextBegin(ends), Row, ListSizes(Row), col - 1)
  BY DEF ItemRows, RowFollows
<1>5. Len(List) \in Nat \ {0} /\ ListSizes(Row) \in Seq(Nat) /\ Len(ListSizes(Row)) = Len(List)
      /\ \A c \in Items : ListSizes(Row)[c] = Cell(Row, List[c]).size
  BY <1>3, ListTypes, ListSizesTypes DEF ItemPremise, TypeIInv, InputTypes
<1> QED
  BY <1>1, <1>3, <1>4, <1>5

(* An element of the select list is added, here or in a new block.         *)
LEMMA ItemAdds ==
  ASSUME ItemPremise, ProjectItem \/ ProjectItemToNext
  PROVE  ItemInv'
<1>1. /\ pc = "item" /\ pc' = "item" /\ col \in Items /\ col' = col + 1
      /\ \/ AddToCurrent(Row, col, ItemSize) /\ UNCHANGED full
         \/ AddToNext(Row, col, ItemSize) /\ full' = Filled
      /\ UNCHANGED <<statement, in, pulled, at, delivered, outcome, fault, reading, read>>
  BY DEF ProjectItem, ProjectItemToNext, EvaluatingItem
<1>2. Filling /\ Filling'
  BY <1>1 DEF Filling
<1>3. PICK ends : ItemRows(ends)
  BY <1>2 DEF ItemInv, ItemPremise
<1>4. /\ outcome = "open" /\ Filed /\ Stored /\ Held /\ cache # <<>>
      /\ OldestFilled \in Nat \ {0} /\ in.ends = 0
      /\ Len(cache) \in Nat \ {0} /\ DOMAIN cache = 1 .. Len(cache)
  BY <1>2, ItemFilling
<1>5. /\ Row \in RowNumbers /\ Row \in Nat
      /\ Len(List) \in Nat \ {0}
      /\ NextBegin(ends) \in Positions /\ Extends(ends, ends)
      /\ Copied(Memory, NextBegin(ends), Row, ListSizes(Row), col - 1)
      /\ ListSizes(Row) \in Seq(Nat) /\ Len(ListSizes(Row)) = Len(List)
      /\ \A c \in Items : ListSizes(Row)[c] = Cell(Row, List[c]).size
  BY <1>1, <1>3, ItemEvaluated
<1>6. PICK place \in Positions, row \in Nat, sizes \in Seq(Nat), c \in Nat :
        /\ place = NextBegin(ends) /\ row = Row /\ sizes = ListSizes(Row)
        /\ col = c + 1 /\ col - 1 = c /\ c + 1 \in Items
  <2>1. col - 1 \in Nat /\ col = (col - 1) + 1
    BY <1>1, <1>5 DEF Items
  <2> QED
    BY <1>1, <1>5, <2>1
<1>7. sizes[c + 1] = ItemSize /\ sizes[c + 1] \in Nat
  BY <1>1, <1>5, <1>6 DEF ItemSize, Items
<1>8. Copied(Memory, place, row, sizes, c)
  BY <1>5, <1>6
<1>9. /\ Copied(Memory', place, row, sizes, c + 1) /\ cache' # <<>>
      /\ Grows(Memory, Memory') /\ Troubles'
      /\ \A k \in DOMAIN cache : cache'[k] = cache[k]
      /\ OldestFilled' = OldestFilled
  <2>1. CASE AddToCurrent(Row, col, ItemSize) /\ UNCHANGED full
    <3>1. AddToCurrent(row, c + 1, sizes[c + 1])
      BY <1>6, <1>7, <2>1
    <3>2. Copied(Memory', place, row, sizes, c + 1) /\ cache' # <<>>
      BY <1>4, <1>7, <1>8, <3>1, CopiedAdds
    <3>3. Grows(Memory, Memory')
      <4>1. PICK d \in Nat : d = c + 1
        OBVIOUS
      <4> QED
        BY <1>4, <3>1, <4>1, AddGrows
    <3>4. Troubles' /\ cache' = cache
      BY <1>1, <2>1, TroublesStay DEF AddToCurrent, managerVars, ItemPremise
    <3> QED
      BY <2>1, <3>2, <3>3, <3>4 DEF OldestFilled
  <2>2. CASE AddToNext(Row, col, ItemSize) /\ full' = Filled
    <3>1. AddToNext(row, c + 1, sizes[c + 1])
      BY <1>6, <1>7, <2>2
    <3>2. Copied(Memory', place, row, sizes, c + 1) /\ cache' # <<>>
      BY <1>4, <1>8, <3>1, CopiedNext
    <3>3. Grows(Memory, Memory')
      <4>1. PICK d \in Nat : d = c + 1
        OBVIOUS
      <4> QED
        BY <1>4, <1>7, <3>1, <4>1, NextGrows
    <3>4. Troubles'
      BY <1>1, <1>4, <2>2, TroublesPush DEF AddToNext, PushBlock, ItemPremise
    <3>5. PICK content \in Contents : PushBlock(content)
      <4>1. Opened(row, c + 1, sizes[c + 1]) \in Contents
        BY <1>6, <1>7, ContentTypes
      <4> QED
        BY <3>1, <4>1 DEF AddToNext
    <3>6. full' \in {NoBlock} \cup Own
      BY <2>2, <1>4 DEF Filled, Last, Own
    <3>7. /\ Len(cache') = Len(cache) + 1
          /\ \A k \in 1 .. Len(cache) : cache'[k] = cache[k]
          /\ \A k \in {Len(cache)} \ {0} : CellsOf(k)' = Append(CellsOf(k), Mark("CC", 0, 0))
      BY <1>1, <3>5, <3>6, ProjectPushes DEF ItemPremise, TypeIInv, ProjectInv
    <3>8. full' # NoBlock
      <4>1. cache[Len(cache)] # NoBlock
        BY <1>4, ProjectCells DEF ItemPremise, TypeIInv, ProjectInv
      <4> QED
        BY <2>2, <4>1 DEF Filled, Last
    <3>9. full = NoBlock
      <4>1. SUFFICES ASSUME full # NoBlock PROVE Parts'
        BY DEF ItemPremise
      <4>2. Len(cache) > 1 /\ Tagged(CellsOf(Len(cache)), {"AA"})
        BY <1>1, <1>2, <4>1 DEF ItemPremise, ProjectInv, ProjectContents
      <4>3. CellsOf(Len(cache)) \in Seq(Cells)
        BY <1>4, ProjectCells DEF ItemPremise, TypeIInv, ProjectInv
      <4>4. Tagged(Append(CellsOf(Len(cache)), Mark("CC", 0, 0)), {"AA", "CC"})
        <5>1. PICK cells \in Seq(Cells), cell \in Cells :
                cells = CellsOf(Len(cache)) /\ cell = Mark("CC", 0, 0) /\ cell.tag = "CC"
          BY <4>3, CellTags
        <5>2. Tagged(cells, {"AA", "CC"})
          BY <4>2, <5>1 DEF Tagged
        <5>3. Tagged(Append(cells, cell), {"AA", "CC"})
          BY <5>1, <5>2, CellsPut
        <5> QED
          BY <5>1, <5>3
      <4>5. PICK n \in Nat : n = Len(cache) /\ n > 1
        BY <1>4, <4>2
      <4>6. n \in 2 .. Len(cache') - 1
        BY <3>7, <4>5
      <4>7. Tagged(CellsOf(n)', {"AA", "CC"})
        <5>1. n \in {Len(cache)} \ {0}
          BY <4>5
        <5>2. CellsOf(n)' = Append(CellsOf(n), Mark("CC", 0, 0))
          BY <3>7, <5>1
        <5>3. Tagged(Append(CellsOf(n), Mark("CC", 0, 0)), {"AA", "CC"})
          BY <4>4, <4>5
        <5> QED
          BY <5>2, <5>3
      <4> QED
        BY <4>6, <4>7 DEF Parts, Tagged
    <3>10. OldestFilled' = OldestFilled
      BY <1>4, <3>7, <3>8, <3>9 DEF OldestFilled
    <3> QED
      BY <1>4, <3>2, <3>3, <3>4, <3>7, <3>10
  <2> QED
    BY <1>1, <2>1, <2>2
<1>10. RowsEvaluated(ends)'
  <2>1. Evaluated' = Evaluated
    BY <1>1 DEF Evaluated
  <2> QED
    BY <1>1, <1>3, <1>9, <2>1, EvaluatedStays DEF ItemRows
<1>11. RowFollows(ends)'
  <2>1. /\ Row' = Row /\ ListSizes(Row)' = ListSizes(Row) /\ List' = List
    BY <1>1 DEF Row, ListSizes, Items, List, Cell, Rows
  <2>2. NextBegin(ends)' = NextBegin(ends)
    BY DEF NextBegin, RowBegin, Start
  <2>3. col' \in 1 .. Len(List) + 1 /\ col' - 1 = c + 1
    BY <1>1, <1>5, <1>6 DEF Items
  <2> QED
    BY <1>1, <1>6, <1>9, <2>1, <2>2, <2>3 DEF RowFollows
<1>12. RowReader(ends)'
  BY <1>1, <1>2, <1>3, <1>4, <1>5, <1>9, FillingStays DEF ItemRows
<1>13. DeliveredItems'
  BY <1>1, <1>4, DeliveredStay
<1> QED
  BY <1>9, <1>10, <1>11, <1>12, <1>13 DEF ItemInv, ItemRows

(* The row is complete: the next one begins behind its marker.             *)
LEMMA ItemEndsRow ==
  ASSUME ItemPremise, ProjectEndRow
  PROVE  ItemInv'
<1>1. /\ pc = "item" /\ pc' = "pull" /\ col \notin Items /\ WriteMark("BB")
      /\ UNCHANGED <<statement, in, pulled, at, delivered, outcome, fault, full, reading, read>>
  BY DEF ProjectEndRow, GoTo, commonVars
<1>2. Filling /\ Filling'
  BY <1>1 DEF Filling
<1>3. PICK ends : ItemRows(ends)
  BY <1>2, ItemFilling
<1>4. /\ outcome = "open" /\ Filed /\ Stored /\ Held /\ cache # <<>>
      /\ EndOf(Memory) \in Positions /\ OldestFilled \in Nat \ {0} /\ in.ends = 0
  BY <1>2, ItemFilling
<1>5. /\ Row \in RowNumbers /\ Row = pulled[Len(ends) + 1]
      /\ Len(pulled) = Len(ends) + 1 /\ Len(ends) \in Nat
      /\ col \in 1 .. Len(List) + 1 /\ Len(List) \in Nat \ {0}
      /\ NextBegin(ends) \in Positions /\ Extends(ends, ends)
      /\ Copied(Memory, NextBegin(ends), Row, ListSizes(Row), col - 1)
      /\ ListSizes(Row) \in Seq(Nat) /\ Len(ListSizes(Row)) = Len(List)
  BY <1>1, <1>3, ItemEvaluated
<1>6. PICK place \in Positions, sizes \in Seq(Nat), end \in Positions :
        /\ place = NextBegin(ends) /\ sizes = ListSizes(Row) /\ end = EndOf(Memory)
        /\ col - 1 = Len(sizes)
  BY <1>1, <1>4, <1>5 DEF Items
<1>7. Spans(Memory', place, end, Row, sizes) /\ EndOf(Memory') = After(end)
  BY <1>1, <1>4, <1>5, <1>6, CopiedEnds
<1>8. Grows(Memory, Memory')
  BY <1>1, <1>4, MarkGrows
<1>9. PICK n \in Nat : n = Len(ends) /\ ends \in Seq(Positions)
  BY <1>5 DEF Extends
<1>10. PICK new \in Seq(Positions) :
         /\ Len(new) = n + 1 /\ new[n + 1] = end /\ \A k \in 1 .. n : new[k] = ends[k]
  <2>1. PICK T : T = Positions
    OBVIOUS
  <2>2. PICK longer : longer = Append(ends, end)
    OBVIOUS
  <2>3. /\ longer \in Seq(T) /\ Len(longer) = n + 1 /\ longer[n + 1] = end
        /\ \A k \in 1 .. n : longer[k] = ends[k]
    BY <1>9, <2>1, <2>2
  <2> QED
    BY <2>1, <2>3
<1>11. Extends(ends, new)
  BY <1>9, <1>10 DEF Extends
<1>12. RowsEvaluated(new)'
  <2>1. Len(new) = Evaluated'
    BY <1>1, <1>5, <1>9, <1>10 DEF Evaluated
  <2>2. ASSUME NEW k \in 1 .. n
        PROVE  Spans(Memory', RowBegin(new, k), new[k], pulled[k], ListSizes(pulled[k]))
    <3>1. Spans(Memory', RowBegin(ends, k), ends[k], pulled[k], ListSizes(pulled[k]))
      BY <1>3, <1>8, <1>9, RowsStay DEF ItemRows
    <3>2. RowBegin(new, k) = RowBegin(ends, k)
      <4>1. k \in 1 .. Len(ends) + 1
        BY <1>9
      <4> QED
        BY <1>11, <4>1, RowBeginStays
    <3> QED
      BY <1>10, <3>1, <3>2
  <2>3. Spans(Memory', RowBegin(new, n + 1), new[n + 1], pulled[n + 1], ListSizes(pulled[n + 1]))
    <3>1. RowBegin(new, n + 1) = place
      <4>1. n + 1 \in 1 .. Len(ends) + 1
        BY <1>9
      <4> QED
        BY <1>6, <1>9, <1>11, <4>1, RowBeginStays DEF NextBegin
    <3> QED
      BY <1>5, <1>6, <1>7, <1>9, <1>10, <3>1
  <2>4. \A k \in 1 .. n + 1 :
          Spans(Memory', RowBegin(new, k), new[k], pulled[k], ListSizes(pulled[k]))
    BY <2>2, <2>3
  <2>5. \A k : ListSizes(pulled[k])' = ListSizes(pulled[k])
    BY <1>1 DEF ListSizes, Items, List, Cell, Rows
  <2>6. \A k : RowBegin(new, k)' = RowBegin(new, k)
    BY DEF RowBegin, Start
  <2> QED
    BY <1>1, <1>10, <2>1, <2>4, <2>5, <2>6 DEF RowsEvaluated
<1>13. RowFollows(new)'
  <2>1. NextBegin(new)' = After(end)
    BY <1>10 DEF NextBegin, RowBegin
  <2> QED
    BY <1>1, <1>4, <1>7, <2>1 DEF RowFollows
<1>14. UNCHANGED <<cache, totalBlocks, sBlockNumber>>
  BY <1>1 DEF WriteMark, managerVars
<1>15. RowReader(new)'
  <2>1. OldestFilled' = OldestFilled
    BY <1>1, <1>14 DEF OldestFilled
  <2> QED
    BY <1>1, <1>2, <1>3, <1>4, <1>8, <1>11, <1>14, <2>1, FillingStays DEF ItemRows
<1>16. Troubles'
  BY <1>1, <1>14, TroublesStay DEF ItemPremise
<1>17. DeliveredItems'
  BY <1>1, <1>4, DeliveredStay
<1> QED
  BY <1>12, <1>13, <1>15, <1>16, <1>17 DEF ItemInv, ItemRows

(* The iterator gets a block.                                              *)
LEMMA ItemHandsFull ==
  ASSUME ItemPremise, HandFullBlock
  PROVE  ItemInv'
<1>1. /\ pc = "pull" /\ full # NoBlock /\ Handed(full) /\ pc' \in {"next", "read"}
      /\ UNCHANGED <<copyVars, statement, in, pulled, col, delivered, outcome, fault, read>>
  BY DEF HandFullBlock, Handed, GoTo
<1>2. Filling /\ UNCHANGED <<cache, store, totalBlocks, sBlockNumber>>
  BY <1>1 DEF Filling, copyVars, managerVars
<1>3. PICK ends : ItemRows(ends)
  BY <1>2, ItemFilling
<1>4. outcome = "open" /\ in.ends = 0 /\ OldestFilled \in DOMAIN cache
  BY <1>2, ItemFilling
<1>5. full = cache[OldestFilled]
  BY <1>1, <1>2 DEF OldestFilled, ItemPremise, ProjectInv, ProjectContents
<1>6. Memory' = Memory /\ Grows(Memory, Memory')
  BY <1>2 DEF Memory, Grows
<1>7. Extends(ends, ends) /\ Len(ends) \in Nat
  BY <1>3, EvaluatedTypes DEF ItemRows, ItemPremise
<1>8. RowsEvaluated(ends)'
  <2>1. Evaluated' = Evaluated
    BY <1>1 DEF Evaluated
  <2> QED
    BY <1>1, <1>3, <1>6, <2>1, EvaluatedStays DEF ItemRows
<1>9. RowFollows(ends)'
  <2>1. NextBegin(ends)' = NextBegin(ends)
    BY DEF NextBegin, RowBegin, Start
  <2> QED
    BY <1>1, <1>3, <1>4, <1>6, <2>1 DEF ItemRows, RowFollows
<1>10. RowReader(ends)'
  BY <1>1, <1>2, <1>3, <1>4, <1>5, <1>6, <1>7, Resumes DEF ItemRows
<1>11. Troubles'
  BY <1>1, <1>2, TroublesStay DEF ItemPremise
<1>12. DeliveredItems'
  BY <1>1, <1>4, DeliveredStay
<1> QED
  BY <1>8, <1>9, <1>10, <1>11, <1>12 DEF ItemInv, ItemRows

LEMMA ItemHandsLast ==
  ASSUME ItemPremise, HandLastBlock
  PROVE  ItemInv'
<1>1. /\ pc = "pull" /\ full = NoBlock /\ TakeEnd /\ Handed(Filled) /\ pc' \in {"next", "read"}
      /\ store' = [store EXCEPT ![Filled] = Marked(@, "DD")]
      /\ UNCHANGED <<managerVars, cache, statement, pulled, col, delivered, outcome, fault, read>>
  BY DEF HandLastBlock, Preparing, Handed, GoTo, TakeEnd
<1>2. Filling /\ UNCHANGED <<totalBlocks, sBlockNumber>>
  BY <1>1 DEF Filling, managerVars
<1>3. PICK ends : ItemRows(ends)
  BY <1>2, ItemFilling
<1>4. /\ outcome = "open" /\ in.ends = 0 /\ OldestFilled \in DOMAIN cache
      /\ Filed /\ Stored /\ Held /\ cache # <<>>
      /\ Memory \in Memories /\ Memory # <<>> /\ EndOf(Memory) \in Positions
      /\ cache \in Seq(NewerBlocks)
  BY <1>2, ItemFilling DEF ItemPremise, ProjectInv, ProjectTypes
<1>5. Filled = cache[Len(cache)] /\ Filled = cache[OldestFilled]
  BY <1>1, <1>4 DEF OldestFilled, Filled, Last
<1>6. PICK cell \in Cells : cell = Mark("DD", 0, 0) /\ cell.tag = "DD"
  BY CellTags
<1>7. Memory' = Put(Memory, cell)
  <2>1. WriteMark("DD")
    BY <1>1, <1>5 DEF WriteMark
  <2> QED
    BY <1>4, <1>6, <2>1, MarkWrites
<1>8. /\ Grows(Memory, Memory') /\ IsIn(Memory', EndOf(Memory))
      /\ CellIn(Memory', EndOf(Memory)) = cell
  BY <1>4, <1>7, PutCell
<1>9. Extends(ends, ends) /\ Len(ends) \in Nat
  BY <1>3, EvaluatedTypes DEF ItemRows, ItemPremise
<1>10. RowsEvaluated(ends)'
  <2>1. Evaluated' = Evaluated
    BY <1>1 DEF Evaluated
  <2> QED
    BY <1>1, <1>3, <1>8, <2>1, EvaluatedStays DEF ItemRows
<1>11. in'.ends = 1
  <2>1. in.ends = 0 /\ ~ TakeRow
    BY <1>1, <1>4 DEF TakeEnd, TakeRow
  <2> QED
    BY <1>1, <2>1, InputTakes DEF ItemPremise, TypeIInv
<1>12. RowFollows(ends)'
  <2>1. NextBegin(ends)' = NextBegin(ends)
    BY DEF NextBegin, RowBegin, Start
  <2>2. NextBegin(ends) = EndOf(Memory)
    BY <1>1, <1>3, <1>4 DEF ItemRows, RowFollows
  <2> QED
    BY <1>1, <1>6, <1>8, <1>11, <2>1, <2>2 DEF RowFollows
<1>13. RowReader(ends)'
  BY <1>1, <1>2, <1>3, <1>4, <1>5, <1>8, <1>9, Resumes DEF ItemRows
<1>14. Troubles'
  BY <1>1, <1>2, TroublesStay DEF ItemPremise
<1>15. DeliveredItems'
  BY <1>1, <1>4, DeliveredStay
<1> QED
  BY <1>10, <1>12, <1>13, <1>14, <1>15 DEF ItemInv, ItemRows

(* What the iterator sees are the cells of the blocks.                     *)
LEMMA SpotSeen ==
  ASSUME ItemPremise, Reading, NEW k \in DOMAIN cache, reading.block = cache[k]
  PROVE  LET begin == [block |-> k, offset |-> Begins] IN
         /\ k \in Nat \ {0} /\ at.offset \in Nat /\ full = NoBlock /\ outcome = "open"
         /\ Spot(k) \in Positions /\ IsIn(Memory, Spot(k))
         /\ CellIn(Memory, Spot(k)).tag = Under(at.offset)
         /\ RowEnded => /\ begin \in Positions /\ IsIn(Memory, begin)
                        /\ CellIn(Memory, begin).tag = Under(Begins)
         /\ Under(at.offset) = "AA" => IsIn(Memory, After(Spot(k)))
         /\ Under(at.offset) = "CC" => /\ k = Len(cache) - 1 /\ Len(cache) \in Nat
                                       /\ at.offset = 0 => Tagged(CellsOf(k), {"AA", "CC"})
<1>1. /\ Len(cache) \in Nat \ {0} /\ DOMAIN cache = 1 .. Len(cache)
      /\ full = NoBlock /\ outcome = "open" /\ at.offset \in Nat
  <2>1. cache # <<>> /\ full = NoBlock
    BY DEF ItemPremise, ProjectInv, ProjectContents
  <2>2. outcome = "open"
    BY ItemOpen DEF Reading, Ends
  <2> QED
    BY <2>1, <2>2 DEF ItemPremise, ProjectInv, ProjectTypes, TypeIInv, PlaceTypes, Places
<1>2. PICK j \in DOMAIN cache, tag \in {"CC", "DD"} :
        /\ j = Len(cache) - (IF tag = "CC" THEN 1 ELSE 0)
        /\ reading.block = cache[j] /\ Closing(CellsOf(j), tag)
        /\ at.offset \in 0 .. Len(CellsOf(j)) - 1
        /\ RowEnded => Begins \in 0 .. Len(CellsOf(j)) - 1
        /\ \A o \in 0 .. Len(CellsOf(j)) - 1 :
             /\ Under(o) = CellsOf(j)[o + 1].tag
             /\ Under(o) \in {"AA", "BB"} \/ (o = Len(CellsOf(j)) - 1 /\ Under(o) = tag)
  BY ProjectUnder DEF ItemPremise
<1>3. j = k /\ k \in Nat \ {0}
  <2>1. cache[j] = cache[k]
    BY <1>2
  <2>2. j = k
    BY <2>1 DEF ItemPremise, ProjectInv, ProjectTypes
  <2>3. k \in 1 .. Len(cache)
    BY <1>1
  <2> QED
    BY <1>1, <2>2, <2>3
<1>4. PICK n \in Nat : n = Len(CellsOf(k)) /\ DOMAIN CellsOf(k) = 1 .. n
  BY ProjectCells DEF ItemPremise, TypeIInv, ProjectInv
<1>5. Memory[k] = CellsOf(k) /\ k \in DOMAIN Memory
  BY DEF Memory, CellsOf
<1>6. ASSUME NEW o \in 0 .. n - 1
      PROVE  LET spot == [block |-> k, offset |-> o] IN
             spot \in Positions /\ IsIn(Memory, spot) /\ CellIn(Memory, spot).tag = Under(o)
  <2>1. o + 1 \in 1 .. n /\ o \in Nat
    BY <1>4
  <2> QED
    BY <1>2, <1>3, <1>4, <1>5, <2>1 DEF Positions, IsIn, CellIn
<1>7. /\ Spot(k) \in Positions /\ IsIn(Memory, Spot(k))
      /\ CellIn(Memory, Spot(k)).tag = Under(at.offset)
  BY <1>2, <1>3, <1>4, <1>6 DEF Spot
<1>8. RowEnded => LET begin == [block |-> k, offset |-> Begins] IN
                  /\ begin \in Positions /\ IsIn(Memory, begin)
                  /\ CellIn(Memory, begin).tag = Under(Begins)
  BY <1>2, <1>3, <1>4, <1>6
<1>9. ASSUME Under(at.offset) = "AA"
      PROVE  IsIn(Memory, After(Spot(k)))
  <2>1. at.offset # n - 1
    BY <1>2, <1>3, <1>4, <1>9 DEF Closing
  <2>2. at.offset + 1 \in 0 .. n - 1
    BY <1>1, <1>2, <1>3, <1>4, <2>1
  <2>3. After(Spot(k)) = [block |-> k, offset |-> at.offset + 1]
    BY DEF After, Spot
  <2> QED
    BY <1>6, <2>2, <2>3
<1>10. ASSUME Under(at.offset) = "CC"
       PROVE  k = Len(cache) - 1 /\ (at.offset = 0 => Tagged(CellsOf(k), {"AA", "CC"}))
  <2>1. tag = "CC" /\ at.offset = n - 1
    BY <1>2, <1>3, <1>4, <1>10
  <2>2. k = Len(cache) - 1
    BY <1>2, <1>3, <2>1
  <2>3. ASSUME at.offset = 0 PROVE Tagged(CellsOf(k), {"AA", "CC"})
    <3>1. DOMAIN CellsOf(k) = {1} /\ CellsOf(k)[1].tag = "CC"
      BY <1>2, <1>3, <1>4, <2>1, <2>3 DEF Closing
    <3> QED
      BY <3>1 DEF Tagged
  <2> QED
    BY <2>2, <2>3
<1> QED
  BY <1>1, <1>3, <1>7, <1>8, <1>9, <1>10

LEMMA BeyondEnd ==
  ASSUME NEW mem \in Memories, mem # <<>>
  PROVE  ~ IsIn(mem, EndOf(mem))
BY DEF Memories, IsIn, EndOf

(* Between two rows: what is behind the marker.                            *)
LEMMA RowComes ==
  ASSUME ItemPremise, pc = "next", NEW ends, ItemRows(ends)
  PROVE  /\ RowEnded /\ Len(delivered) \in Nat /\ Len(delivered) <= Len(ends)
         /\ Len(ends) = Len(pulled) /\ Len(ends) \in Nat
         /\ Len(delivered) = Len(ends) => in.ends # 0 /\ Under(Begins) = "DD"
         /\ \E k \in DOMAIN cache : \E p \in Positions :
              /\ reading.block = cache[k] /\ k \in Nat \ {0}
              /\ p = [block |-> k, offset |-> Begins] /\ Begins \in Nat
              /\ p = RowBegin(ends, Len(delivered) + 1)
              /\ IsIn(Memory, p) /\ CellIn(Memory, p).tag = Under(Begins)
<1>1. Reading
  BY DEF Reading
<1>2. PICK k \in DOMAIN cache :
        /\ reading.block = cache[k]
        /\ IF delivered = <<>> THEN Spot(k) = Start
           ELSE /\ Spot(k) = ends[Len(delivered)] /\ at.offset # 0
                /\ CellIn(Memory, Spot(k)).tag = "BB"
  BY DEF ItemRows, RowReader, BetweenRows
<1> DEFINE begin == [block |-> k, offset |-> Begins]
<1>3. /\ k \in Nat \ {0} /\ at.offset \in Nat
      /\ CellIn(Memory, Spot(k)).tag = Under(at.offset)
      /\ RowEnded => /\ begin \in Positions /\ IsIn(Memory, begin)
                     /\ CellIn(Memory, begin).tag = Under(Begins)
  BY <1>1, <1>2, SpotSeen
<1>4. RowEnded
  BY <1>2, <1>3 DEF RowEnded, Spot, Start
<1>5. /\ Len(ends) = Len(pulled) /\ Len(ends) \in Nat /\ ends \in Seq(Positions)
      /\ NextBegin(ends) \in Positions
  BY EvaluatedTypes DEF ItemPremise, ItemRows, Evaluated
<1>6. PICK d \in Nat : d = Len(delivered) /\ d <= Len(ends) /\ (d = 0 <=> delivered = <<>>)
  <2>1. Len(delivered) \in Nat /\ Len(delivered) <= Len(ends)
        /\ delivered = [i \in 1 .. Len(delivered) |-> ListRow(pulled[i])]
    BY <1>5 DEF ItemPremise, DeliveredItems
  <2>2. Len(delivered) = 0 => delivered = <<>>
    <3>1. ASSUME Len(delivered) = 0 PROVE delivered = <<>>
      <4>1. DOMAIN delivered = {}
        BY <2>1, <3>1
      <4> QED
        BY <2>1, <3>1, <4>1
    <3> QED
      BY <3>1
  <2> QED
    BY <2>1, <2>2
<1>7. begin = RowBegin(ends, d + 1) /\ Begins \in Nat
  <2>1. CASE d = 0
    BY <1>2, <1>3, <1>6, <2>1 DEF Spot, Start, Begins, RowBegin
  <2>2. CASE d # 0
    <3>1. Spot(k) = ends[d] /\ at.offset # 0
      BY <1>2, <1>6, <2>2
    <3>2. begin = After(ends[d]) /\ Begins \in Nat
      BY <1>3, <3>1 DEF Spot, Begins, After
    <3>3. (d + 1) - 1 = d /\ d + 1 # 1
      BY <2>2
    <3> QED
      BY <3>2, <3>3 DEF RowBegin
  <2> QED
    BY <2>1, <2>2
<1>8. begin \in Positions /\ IsIn(Memory, begin) /\ CellIn(Memory, begin).tag = Under(Begins)
  BY <1>3, <1>4
<1> HIDE DEF begin
<1>9. ASSUME d = Len(ends) PROVE in.ends # 0 /\ Under(Begins) = "DD"
  <2>1. NextBegin(ends) = begin
    BY <1>7, <1>9 DEF NextBegin
  <2>2. ~ IsIn(Memory, EndOf(Memory))
    <3>1. Filed /\ Stored /\ Held /\ cache # <<>>
      BY <1>1, FiledByProject DEF ItemPremise, ProjectInv, ProjectContents
    <3> QED
      BY <3>1, MemoryTypes, BeyondEnd
  <2>3. IF in.ends = 0 THEN begin = EndOf(Memory) ELSE CellIn(Memory, begin).tag = "DD"
    BY <2>1 DEF ItemRows, RowFollows
  <2> QED
    BY <1>8, <2>2, <2>3
<1> QED
  BY <1>2, <1>3, <1>4, <1>5, <1>6, <1>7, <1>8, <1>9 DEF begin

(* Nothing is written while the iterator reads.                            *)
LEMMA ReadingStays ==
  ASSUME ItemPremise, Reading, pc' # "item", NEW ends, ItemRows(ends),
         UNCHANGED <<store, cache, totalBlocks, sBlockNumber>>,
         UNCHANGED <<statement, in, pulled, outcome, fault>>
  PROVE  /\ RowsEvaluated(ends)' /\ RowFollows(ends)' /\ Troubles'
         /\ UNCHANGED <<cache, store, Memory>> /\ Grows(Memory, Memory')
         /\ Extends(ends, ends) /\ Len(ends) \in Nat /\ outcome = "open"
         /\ Len(ends) = Len(pulled)
<1>1. UNCHANGED <<cache, store, totalBlocks, sBlockNumber>>
  OBVIOUS
<1>2. UNCHANGED Memory /\ Grows(Memory, Memory')
  BY <1>1 DEF Memory, Grows
<1>3. pc # "item" /\ Evaluated' = Evaluated
  BY DEF Reading, Evaluated
<1>4. RowsEvaluated(ends)'
  BY <1>2, <1>3, EvaluatedStays DEF ItemRows
<1>5. RowFollows(ends)'
  <2>1. NextBegin(ends)' = NextBegin(ends)
    BY DEF NextBegin, RowBegin, Start
  <2> QED
    BY <1>2, <1>3, <2>1 DEF ItemRows, RowFollows
<1>6. Troubles'
  BY <1>1, TroublesStay DEF ItemPremise
<1>7. Extends(ends, ends) /\ Len(ends) \in Nat /\ Len(ends) = Len(pulled)
  BY <1>3, EvaluatedTypes DEF ItemPremise, ItemRows, Evaluated
<1>8. outcome = "open"
  BY ItemOpen DEF Reading, Ends
<1> QED
  BY <1>1, <1>2, <1>4, <1>5, <1>6, <1>7, <1>8

LEMMA ItemBegins ==
  ASSUME ItemPremise, ProjectedRow
  PROVE  ItemInv'
<1>1. /\ pc = "next" /\ pc' = "read" /\ Under(Begins) # "DD"
      /\ at' = [at EXCEPT !.offset = Begins] /\ read' = <<>>
      /\ UNCHANGED <<copyVars, statement, in, pulled, delivered, outcome, fault, reading>>
  BY DEF ProjectedRow, AtItem, GoTo
<1>2. Reading /\ Reading'
  BY <1>1 DEF Reading
<1>3. PICK ends : ItemRows(ends)
  BY <1>2 DEF ItemPremise, ItemInv
<1>4. /\ RowsEvaluated(ends)' /\ RowFollows(ends)' /\ Troubles' /\ outcome = "open"
      /\ UNCHANGED <<cache, store, Memory>> /\ Len(ends) \in Nat
  BY <1>1, <1>2, <1>3, ReadingStays DEF copyVars, managerVars
<1>5. /\ Len(delivered) \in Nat /\ Len(delivered) < Len(ends)
  BY <1>1, <1>3, RowComes
<1>6. PICK k \in DOMAIN cache, p \in Positions :
        /\ reading.block = cache[k]
        /\ p = [block |-> k, offset |-> Begins]
        /\ p = RowBegin(ends, Len(delivered) + 1) /\ IsIn(Memory, p)
  BY <1>1, <1>3, RowComes
<1>7. PICK pos : pos = [i \in 1 .. 0 |-> p]
  OBVIOUS
<1>8. Len(read') = 0 /\ 1 .. 0 = {} /\ pos \in [1 .. 0 -> Positions]
  BY <1>1, <1>7
<1>9. RowBegin(ends, Len(delivered) + 1)' = p
  BY <1>1, <1>6 DEF RowBegin, Start
<1>10. RowPart(ends, pos)' /\ ReaderAt(ends, pos)' = p
  <2>1. Len(List)' \in Nat
    BY ListTypes, SameList DEF ItemPremise, TypeIInv, InputTypes
  <2>2. Chain(Memory', pos, Len(read'), p)
    BY <1>8 DEF Chain
  <2>3. Len(read')= 0 /\ Len(delivered') = Len(delivered) /\ 1 .. Len(read') = {}
    BY <1>1, <1>8
  <2> QED
    BY <1>1, <1>5, <1>9, <2>1, <2>2, <2>3 DEF RowPart, ReaderAt, Behind
<1>11. Spot(k)' = p
  BY <1>1, <1>6 DEF Spot, ItemPremise, TypeIInv, PlaceTypes, Places
<1>12. WithinRow(ends)'
  BY <1>1, <1>4, <1>6, <1>10, <1>11 DEF WithinRow
<1>13. DeliveredItems'
  BY <1>1, <1>4, DeliveredStay
<1> QED
  BY <1>1, <1>4, <1>12, <1>13 DEF ItemInv, ItemRows, RowReader, Filling

(* Within a row, in the block k: the c values that were read of the row    *)
(* that begins at p are at pos, and the next one is sought behind them.    *)
RowGoes(ends, pos, k, here, c, p) ==
  /\ k \in DOMAIN cache /\ here \in Positions /\ p \in Positions
  /\ c \in Nat /\ c = Len(read) /\ c <= Len(List)
  /\ reading.block = cache[k] /\ Len(delivered) < Len(ends)
  /\ p = RowBegin(ends, Len(delivered) + 1) /\ Chain(Memory, pos, c, p)
  /\ here = Behind(pos, c, p) /\ IsIn(Memory, here)
  /\ Spot(k) \in {here, Onward(Memory, here)}
  /\ \A i \in 1 .. c : read[i] = [block |-> cache[pos[i].block], offset |-> pos[i].offset]
  /\ read \in Seq(Places)

LEMMA RowGoesOn ==
  ASSUME ItemPremise, pc = "read", NEW ends, ItemRows(ends)
  PROVE  \E pos, k, here, c, p : RowGoes(ends, pos, k, here, c, p)
<1>0. PICK k \in DOMAIN cache : \E pos :
        /\ reading.block = cache[k] /\ RowPart(ends, pos)
        /\ IsIn(Memory, ReaderAt(ends, pos))
        /\ Spot(k) \in {ReaderAt(ends, pos), Onward(Memory, ReaderAt(ends, pos))}
  BY DEF ItemRows, RowReader, WithinRow
<1>1. PICK pos :
        /\ reading.block = cache[k] /\ RowPart(ends, pos)
        /\ IsIn(Memory, ReaderAt(ends, pos))
        /\ Spot(k) \in {ReaderAt(ends, pos), Onward(Memory, ReaderAt(ends, pos))}
  BY <1>0
<1>2. PICK c \in Nat : c = Len(read) /\ c <= Len(List)
  BY <1>1 DEF RowPart
<1>3. PICK d \in Nat : d = Len(delivered) /\ d < Len(ends)
  BY <1>1 DEF RowPart, ItemPremise, DeliveredItems
<1>4. PICK p \in Positions : p = RowBegin(ends, d + 1)
  <2>1. ends \in Seq(Positions) /\ Len(ends) \in Nat
    BY EvaluatedTypes DEF ItemPremise, ItemRows
  <2>2. d + 1 \in 1 .. Len(ends) + 1
    BY <1>3, <2>1
  <2> QED
    BY <2>1, <2>2, RowBeginTypes
<1>5. /\ Chain(Memory, pos, c, p)
      /\ \A i \in 1 .. c : read[i] = [block |-> cache[pos[i].block], offset |-> pos[i].offset]
  BY <1>1, <1>2, <1>3, <1>4 DEF RowPart
<1>6. PICK here \in Positions : here = ReaderAt(ends, pos) /\ here = Behind(pos, c, p)
  <2>1. pos \in [1 .. c -> Positions] /\ c \in 0 .. c
    BY <1>5 DEF Chain
  <2> QED
    BY <1>2, <1>3, <1>4, <2>1, BehindTypes DEF ReaderAt
<1>7. read \in Seq(Places)
  BY DEF ItemPremise, ProjectInv, ProjectRead
<1>8. RowGoes(ends, pos, k, here, c, p)
  BY <1>1, <1>2, <1>3, <1>4, <1>5, <1>6, <1>7 DEF RowGoes
<1> QED
  BY <1>8

LEMMA ItemReads ==
  ASSUME ItemPremise, ReadItem
  PROVE  ItemInv'
<1>1. /\ pc = "read" /\ pc' = "read" /\ Len(read) < Len(List) /\ Under(at.offset) = "AA"
      /\ read' = Append(read, [block |-> reading.block, offset |-> at.offset])
      /\ at' = [at EXCEPT !.offset = @ + 1]
      /\ UNCHANGED <<copyVars, statement, in, pulled, delivered, outcome, fault, reading>>
  BY DEF ReadItem
<1>2. Reading /\ Reading'
  BY <1>1 DEF Reading
<1>3. PICK ends : ItemRows(ends)
  BY <1>2 DEF ItemPremise, ItemInv
<1>4. /\ RowsEvaluated(ends)' /\ RowFollows(ends)' /\ Troubles' /\ outcome = "open"
      /\ UNCHANGED <<cache, store, Memory>> /\ Len(ends) \in Nat
  BY <1>1, <1>2, <1>3, ReadingStays DEF copyVars, managerVars
<1>50. PICK pos, k, here, c, p : RowGoes(ends, pos, k, here, c, p)
  BY <1>1, <1>3, RowGoesOn
<1>5. /\ k \in DOMAIN cache /\ here \in Positions /\ p \in Positions /\ c \in Nat
      /\ reading.block = cache[k] /\ Len(delivered) < Len(ends) /\ c = Len(read)
      /\ p = RowBegin(ends, Len(delivered) + 1) /\ Chain(Memory, pos, c, p)
      /\ here = Behind(pos, c, p) /\ IsIn(Memory, here)
      /\ Spot(k) \in {here, Onward(Memory, here)}
      /\ \A i \in 1 .. c : read[i] = [block |-> cache[pos[i].block], offset |-> pos[i].offset]
      /\ read \in Seq(Places)
  BY <1>50 DEF RowGoes
<1>6. /\ Spot(k) \in Positions /\ IsIn(Memory, Spot(k)) /\ CellIn(Memory, Spot(k)).tag = "AA"
      /\ IsIn(Memory, After(Spot(k))) /\ at.offset \in Nat /\ k \in Nat
  BY <1>1, <1>2, <1>5, SpotSeen
<1>7. PICK spot \in Positions : spot = Spot(k) /\ After(spot) \in Positions
  BY <1>6, OnwardTypes
<1>8. Link(Memory, here, spot)
  <2>1. CellIn(Memory, here).tag # "CC" => Onward(Memory, here) = here
    BY DEF Onward
  <2>2. spot = Onward(Memory, here)
    BY <1>5, <1>6, <1>7, <2>1
  <2> QED
    BY <1>5, <1>6, <1>7, <2>2 DEF Link
<1>9. PICK new : /\ Chain(Memory, new, c + 1, p) /\ Behind(new, c + 1, p) = After(spot)
                 /\ new[c + 1] = spot /\ \A i \in 1 .. c : new[i] = pos[i]
  <2>1. Link(Memory, Behind(pos, c, p), spot)
    BY <1>5, <1>8
  <2>2. PICK mem : mem = Memory
    OBVIOUS
  <2>3. Link(mem, Behind(pos, c, p), spot) /\ Chain(mem, pos, c, p)
    BY <1>5, <2>1, <2>2
  <2>4. p \in Positions /\ c \in Nat /\ spot \in Positions
    BY <1>5, <1>7
  <2>5. /\ Chain(mem, Longer(pos, c, spot), c + 1, p)
        /\ Behind(Longer(pos, c, spot), c + 1, p) = After(spot)
        /\ Longer(pos, c, spot)[c + 1] = spot
        /\ \A i \in 1 .. c : Longer(pos, c, spot)[i] = pos[i]
    BY <2>3, <2>4, ChainExtends
  <2> QED
    BY <2>2, <2>5
<1>10. PICK point \in Places : point = [block |-> reading.block, offset |-> at.offset]
  <2>1. cache[k] \in Nat
    BY <1>5, ProjectCells DEF ItemPremise, TypeIInv, ProjectInv, StoreTypes
  <2> QED
    BY <1>5, <1>6, <2>1 DEF Places
<1>11. /\ Len(read') = c + 1 /\ read'[c + 1] = point /\ \A i \in 1 .. c : read'[i] = read[i]
  BY <1>1, <1>5, <1>10
<1>12. RowPart(ends, new)' /\ ReaderAt(ends, new)' = After(spot)
  <2>1. Len(List)' = Len(List) /\ Len(List) \in Nat
    BY ListTypes, SameList DEF ItemPremise, TypeIInv, InputTypes
  <2>2. RowBegin(ends, Len(delivered) + 1)' = p
    BY <1>1, <1>5 DEF RowBegin, Start
  <2>3. \A i \in 1 .. c + 1 :
          read'[i] = [block |-> cache'[new[i].block], offset |-> new[i].offset]
    <3>1. read'[c + 1] = [block |-> cache'[new[c + 1].block], offset |-> new[c + 1].offset]
      BY <1>4, <1>5, <1>7, <1>9, <1>10, <1>11 DEF Spot
    <3>2. \A i \in 1 .. c :
            read'[i] = [block |-> cache'[new[i].block], offset |-> new[i].offset]
      BY <1>4, <1>5, <1>9, <1>11
    <3> QED
      BY <1>5, <3>1, <3>2
  <2>4. Len(delivered') < Len(ends)
    BY <1>1, <1>5
  <2>5. c + 1 <= Len(List) /\ c + 1 \in Nat
    BY <1>1, <1>5, <2>1
  <2>6. Chain(Memory', new, c + 1, p)
    BY <1>4, <1>9
  <2> QED
    BY <1>9, <1>11, <2>1, <2>2, <2>3, <2>4, <2>5, <2>6 DEF RowPart, ReaderAt
<1>13. Spot(k)' = After(spot)
  BY <1>1, <1>7 DEF Spot, After, ItemPremise, TypeIInv, PlaceTypes, Places
<1>14. WithinRow(ends)'
  BY <1>1, <1>4, <1>5, <1>6, <1>7, <1>12, <1>13 DEF WithinRow
<1>15. DeliveredItems'
  BY <1>1, <1>4, DeliveredStay
<1> QED
  BY <1>1, <1>4, <1>14, <1>15 DEF ItemInv, ItemRows, RowReader, Filling

(* The block ends within a row: the next one is to be filled.              *)
LEMMA ItemSuspends ==
  ASSUME ItemPremise, NextItemBlock
  PROVE  ItemInv'
<1>1. /\ pc = "read" /\ pc' = "pull" /\ Len(read) < Len(List) /\ Under(at.offset) = "CC"
      /\ UNCHANGED <<store, cache, statement, in, pulled, at, delivered, outcome, fault, full,
                     read, totalBlocks, sBlockNumber>>
  BY DEF NextItemBlock, GoTo, BM!Release, BM!managerVars
<1>2. Reading
  BY <1>1 DEF Reading
<1>3. PICK ends : ItemRows(ends)
  BY <1>2 DEF ItemPremise, ItemInv
<1>4. /\ RowsEvaluated(ends)' /\ RowFollows(ends)' /\ Troubles' /\ outcome = "open"
      /\ UNCHANGED <<cache, store, Memory>> /\ Grows(Memory, Memory')
      /\ Extends(ends, ends) /\ Len(ends) \in Nat
  BY <1>1, <1>2, <1>3, ReadingStays
<1>5. PICK pos, k, here, c, p : RowGoes(ends, pos, k, here, c, p)
  BY <1>1, <1>3, RowGoesOn
<1>6. /\ k \in DOMAIN cache /\ here \in Positions /\ p \in Positions /\ c \in Nat
      /\ reading.block = cache[k] /\ Len(delivered) < Len(ends) /\ c = Len(read)
      /\ p = RowBegin(ends, Len(delivered) + 1) /\ Chain(Memory, pos, c, p)
      /\ here = Behind(pos, c, p) /\ IsIn(Memory, here)
      /\ Spot(k) \in {here, Onward(Memory, here)} /\ c <= Len(List)
      /\ \A i \in 1 .. c : read[i] = [block |-> cache[pos[i].block], offset |-> pos[i].offset]
  BY <1>5 DEF RowGoes
<1>7. /\ k \in Nat \ {0} /\ full = NoBlock /\ Spot(k) \in Positions /\ IsIn(Memory, Spot(k))
      /\ CellIn(Memory, Spot(k)).tag = "CC"
      /\ k = Len(cache) - 1 /\ Len(cache) \in Nat
      /\ at.offset = 0 => Tagged(CellsOf(k), {"AA", "CC"})
  BY <1>1, <1>2, <1>6, SpotSeen
<1>8. Spot(k) = here
  <2>1. SUFFICES ASSUME Spot(k) # here PROVE FALSE
    OBVIOUS
  <2>2. Spot(k) = [block |-> here.block + 1, offset |-> 0]
    BY <1>6, <2>1 DEF Onward
  <2>3. k = here.block + 1 /\ at.offset = 0 /\ here.block \in Nat \ {0}
    BY <1>6, <2>2 DEF Spot, Positions
  <2>4. Tagged(CellsOf(k), {"AA", "CC"}) /\ k \in 2 .. Len(cache) - 1
    BY <1>7, <2>3
  <2> QED
    BY <2>4 DEF Parts, ItemPremise
<1>9. OldestFilled' - 1 = k /\ OldestFilled' # 1
  BY <1>1, <1>7 DEF OldestFilled
<1>10. RowPart(ends, pos) /\ ReaderAt(ends, pos) = here
  BY <1>6, <1>5 DEF RowPart, ReaderAt, RowGoes, ItemPremise, DeliveredItems
<1>11. RowPart(ends, pos)' /\ ReaderAt(ends, pos)' = here
  BY <1>1, <1>4, <1>10, PartStays DEF ItemPremise, DeliveredItems
<1>12. Suspended(ends)'
  <2>1. Len(List)' = Len(List) /\ Spot(k)' = Spot(k) /\ Len(read)' = Len(read)
    BY <1>1, SameList DEF Spot
  <2>2. IsIn(Memory', Spot(k)) /\ CellIn(Memory', Spot(k)).tag = "CC"
    BY <1>4, <1>7
  <2> QED
    BY <1>1, <1>8, <1>9, <1>11, <2>1, <2>2 DEF Suspended
<1>13. DeliveredItems'
  BY <1>1, <1>4, DeliveredStay
<1> QED
  BY <1>1, <1>4, <1>9, <1>12, <1>13 DEF ItemInv, ItemRows, RowReader, Filling

(* The row that is read: where it was written.                             *)
LEMMA RowIsWritten ==
  ASSUME ItemPremise, pc = "read", NEW ends, ItemRows(ends),
         NEW pos, NEW k, NEW here, NEW c, NEW p, RowGoes(ends, pos, k, here, c, p)
  PROVE  \E d \in Nat, r \in RowNumbers, q \in Positions :
           /\ d = Len(delivered) /\ d < Len(ends) /\ Len(ends) = Len(pulled)
           /\ r = pulled[d + 1] /\ q = ends[d + 1]
           /\ c = Len(List) => /\ \A i \in 1 .. c : CellIn(Memory, pos[i]) = Value(r, i)
                               /\ q = here /\ q.offset # 0 /\ CellIn(Memory, q).tag = "BB"
           /\ c < Len(List) =>
                Link(Memory, here, Onward(Memory, here)) \/ LostValue
<1>1. /\ p \in Positions /\ c \in Nat /\ c <= Len(List) /\ Len(delivered) < Len(ends)
      /\ p = RowBegin(ends, Len(delivered) + 1) /\ Chain(Memory, pos, c, p)
      /\ here = Behind(pos, c, p)
  BY DEF RowGoes
<1>2. /\ ends \in Seq(Positions) /\ Len(ends) \in Nat /\ Len(ends) = Len(pulled)
  BY EvaluatedTypes DEF ItemPremise, ItemRows, Evaluated
<1>3. PICK d \in Nat : d = Len(delivered) /\ d < Len(ends) /\ d + 1 \in 1 .. Len(ends)
  <2>1. PICK d \in Nat : d = Len(delivered)
    BY DEF ItemPremise, DeliveredItems
  <2>2. d < Len(ends) /\ d + 1 \in 1 .. Len(ends)
    BY <1>1, <1>2, <2>1
  <2> QED
    BY <2>1, <2>2
<1>4. PICK q \in Positions : q = ends[d + 1]
  BY <1>2, <1>3
<1>5. PICK r \in RowNumbers : r = pulled[d + 1]
  BY <1>2, <1>3, PulledRows DEF ItemPremise
<1>6. PICK n \in Nat \ {0} : n = Len(List)
  BY ListTypes DEF ItemPremise, TypeIInv, InputTypes
<1>7. PICK sizes \in Seq(Nat) :
        sizes = ListSizes(r) /\ n = Len(sizes) /\ (~ Fit(sizes, n) => LostValue)
  BY <1>6, ListSizesTypes DEF ItemPremise, TypeIInv, InputTypes
<1>8. Spans(Memory, p, q, r, sizes)
  BY <1>1, <1>3, <1>4, <1>5, <1>7 DEF ItemRows, RowsEvaluated
<1>9. c \in 0 .. n
  BY <1>1, <1>6
<1>10. /\ c = n => /\ \A i \in 1 .. n : CellIn(Memory, pos[i]) = Value(r, i)
                   /\ q = here /\ q.offset # 0 /\ CellIn(Memory, q).tag = "BB"
       /\ c < n /\ Fit(sizes, n) => Link(Memory, here, Onward(Memory, here))
  <2>1. PICK mem : mem = Memory
    OBVIOUS
  <2> QED
    BY <1>1, <1>7, <1>8, <1>9, RowChain
<1> QED
  BY <1>2, <1>3, <1>4, <1>5, <1>6, <1>7, <1>10

(* The operator above gets the row.                                        *)
LEMMA ItemUsed ==
  ASSUME ItemPremise, UseProjectedRow
  PROVE  ItemInv'
<1>1. /\ pc = "read" /\ pc' = "next" /\ Len(read) = Len(List)
      /\ delivered' = Append(delivered, [c \in Items |-> Pointed(read[c])])
      /\ UNCHANGED <<copyVars, statement, in, pulled, at, outcome, fault, reading>>
  BY DEF UseProjectedRow, RowRead, GoTo
<1>2. Reading
  BY <1>1 DEF Reading
<1>3. PICK ends : ItemRows(ends)
  BY <1>2 DEF ItemPremise, ItemInv
<1>4. /\ RowsEvaluated(ends)' /\ RowFollows(ends)' /\ Troubles' /\ outcome = "open"
      /\ UNCHANGED <<cache, store, Memory>> /\ Len(ends) \in Nat
  BY <1>1, <1>2, <1>3, ReadingStays DEF copyVars, managerVars
<1>5. PICK pos, k, here, c, p : RowGoes(ends, pos, k, here, c, p)
  BY <1>1, <1>3, RowGoesOn
<1>6. /\ k \in DOMAIN cache /\ reading.block = cache[k] /\ c = Len(read) /\ c \in Nat
      /\ Spot(k) \in {here, Onward(Memory, here)} /\ Chain(Memory, pos, c, p)
      /\ \A i \in 1 .. c : read[i] = [block |-> cache[pos[i].block], offset |-> pos[i].offset]
  BY <1>5 DEF RowGoes
<1>7. PICK d \in Nat, r \in RowNumbers, q \in Positions :
        /\ d = Len(delivered) /\ d < Len(ends) /\ Len(ends) = Len(pulled)
        /\ r = pulled[d + 1] /\ q = ends[d + 1]
        /\ \A i \in 1 .. c : CellIn(Memory, pos[i]) = Value(r, i)
        /\ q = here /\ q.offset # 0 /\ CellIn(Memory, q).tag = "BB"
  BY <1>1, <1>3, <1>5, <1>6, RowIsWritten
<1>8. PICK row : row = [i \in Items |-> Pointed(read[i])] /\ row = ListRow(r)
  <2>1. ASSUME NEW i \in Items PROVE Pointed(read[i]) = <<r, i>>
    <3>1. i \in 1 .. c
      BY <1>1, <1>6, <2>1 DEF Items
    <3>2. IsIn(Memory, pos[i])
      BY <1>6, <3>1 DEF Chain, Link
    <3>3. CellIn(Memory, pos[i]) = store[cache[pos[i].block]].cells[pos[i].offset + 1]
      BY <3>2 DEF IsIn, CellIn, Memory
    <3>4. PICK cell : cell = CellIn(Memory, pos[i]) /\ cell = Value(r, i)
      BY <1>7, <3>1
    <3>5. cell.line = r /\ cell.col = i
      BY <3>4 DEF Value
    <3>6. read[i].block = cache[pos[i].block] /\ read[i].offset = pos[i].offset
      <4>1. PICK b, o : b = cache[pos[i].block] /\ o = pos[i].offset
        OBVIOUS
      <4>2. read[i] = [block |-> b, offset |-> o]
        BY <1>6, <3>1, <4>1
      <4> QED
        BY <4>1, <4>2
    <3>7. store[read[i].block].cells[read[i].offset + 1] = cell
      BY <3>3, <3>4, <3>6
    <3> QED
      BY <3>5, <3>7 DEF Pointed
  <2> QED
    BY <2>1 DEF ListRow
<1>9. /\ d + 1 <= Len(pulled) /\ d + 1 \in Nat
      /\ Len(delivered') = d + 1
      /\ delivered' = [j \in 1 .. d + 1 |-> ListRow(pulled[j])]
      /\ delivered' # <<>>
  <2>1. delivered = [j \in 1 .. d |-> ListRow(pulled[j])]
    BY <1>7 DEF ItemPremise, DeliveredItems
  <2>2. delivered' = Append(delivered, row) /\ row = ListRow(pulled[d + 1])
    BY <1>1, <1>7, <1>8
  <2> HIDE DEF ListRow
  <2> QED
    BY <1>4, <1>7, <2>1, <2>2
<1>10. DeliveredItems'
  <2>1. \A j : ListRow(pulled[j])' = ListRow(pulled[j])
    BY <1>1 DEF ListRow, Items, List
  <2> QED
    BY <1>1, <1>4, <1>9, <2>1 DEF DeliveredItems
<1>11. BetweenRows(ends)'
  <2>1. Onward(Memory, here) = here
    BY <1>7 DEF Onward
  <2>2. Spot(k) = q /\ Spot(k)' = q
    BY <1>1, <1>6, <1>7, <2>1 DEF Spot
  <2>3. at.offset # 0
    BY <1>7, <2>2 DEF Spot
  <2> QED
    BY <1>1, <1>4, <1>6, <1>7, <1>9, <2>2, <2>3 DEF BetweenRows
<1> QED
  BY <1>1, <1>4, <1>10, <1>11 DEF ItemInv, ItemRows, RowReader, Filling

(* What is read of a row that was written is there, unless a value fits    *)
(* into no block.                                                          *)
LEMMA ItemMissing ==
  ASSUME ItemPremise, ReadItemThrows
  PROVE  ItemInv'
<1>1. /\ pc = "read" /\ pc' = "release" /\ Len(read) < Len(List) /\ outcome' = "threw"
      /\ Under(at.offset) \notin {"AA", "CC"}
      /\ UNCHANGED <<copyVars, statement, in, pulled, delivered, fault>>
  BY DEF ReadItemThrows, Destroy, GoTo
<1>2. Reading
  BY <1>1 DEF Reading
<1>3. PICK ends : ItemRows(ends)
  BY <1>2 DEF ItemPremise, ItemInv
<1>4. PICK pos, k, here, c, p : RowGoes(ends, pos, k, here, c, p)
  BY <1>1, <1>3, RowGoesOn
<1>5. /\ k \in DOMAIN cache /\ reading.block = cache[k] /\ c = Len(read)
      /\ Spot(k) \in {here, Onward(Memory, here)}
  BY <1>4 DEF RowGoes
<1>6. CellIn(Memory, Spot(k)).tag \notin {"AA", "CC"}
  BY <1>1, <1>2, <1>5, SpotSeen
<1>7. Link(Memory, here, Onward(Memory, here)) \/ LostValue
  BY <1>1, <1>3, <1>4, <1>5, RowIsWritten
<1>8. ~ Link(Memory, here, Onward(Memory, here))
  BY <1>5, <1>6 DEF Link, Onward
<1>9. Troubles'
  BY <1>1, <1>7, <1>8, TroublesStay DEF ItemPremise, copyVars, managerVars
<1> QED
  BY <1>1, <1>9, ItemStops DEF Ends

LEMMA ItemNoMarker ==
  ASSUME ItemPremise, ProjectedRowThrows
  PROVE  ItemInv'
<1>1. pc = "next" /\ ~ RowEnded /\ Reading
  BY DEF ProjectedRowThrows, Reading
<1>2. PICK ends : ItemRows(ends)
  BY <1>1 DEF ItemPremise, ItemInv
<1> QED
  BY <1>1, <1>2, RowComes

(* The end marker is behind the last of the rows.                          *)
LEMMA ItemEnd ==
  ASSUME ItemPremise, ProjectedEnd
  PROVE  ItemInv'
<1>1. /\ pc = "next" /\ pc' = "release" /\ Under(Begins) = "DD" /\ outcome' = "eof"
      /\ UNCHANGED <<copyVars, statement, in, pulled, delivered, fault>>
  BY DEF ProjectedEnd, AtItem, Destroy, GoTo
<1>2. Reading
  BY <1>1 DEF Reading
<1>3. PICK ends : ItemRows(ends)
  BY <1>2 DEF ItemPremise, ItemInv
<1>4. /\ Len(delivered) \in Nat /\ Len(delivered) <= Len(ends)
      /\ Len(ends) = Len(pulled) /\ Len(ends) \in Nat
      /\ Len(delivered) = Len(ends) => in.ends # 0
  BY <1>1, <1>3, RowComes
<1>5. PICK p \in Positions :
        /\ p = RowBegin(ends, Len(delivered) + 1)
        /\ IsIn(Memory, p) /\ CellIn(Memory, p).tag = Under(Begins)
  BY <1>1, <1>3, RowComes
<1>6. Len(delivered) = Len(ends)
  <2>1. SUFFICES ASSUME Len(delivered) # Len(ends) PROVE FALSE
    OBVIOUS
  <2>2. PICK j \in 1 .. Len(ends) : j = Len(delivered) + 1
    BY <1>4, <2>1
  <2>3. ends \in Seq(Positions) /\ \A i \in 1 .. Len(pulled) : pulled[i] \in RowNumbers
    BY <1>3, EvaluatedTypes, PulledRows DEF ItemRows, ItemPremise
  <2>4. PICK q \in Positions : q = ends[j]
    BY <2>3
  <2>5. PICK r \in RowNumbers : r = pulled[j]
    BY <1>4, <2>3
  <2>6. PICK sizes \in Seq(Nat) \ {<<>>} : sizes = ListSizes(r)
    BY ListSizesTypes DEF ItemPremise, TypeIInv, InputTypes
  <2>7. Spans(Memory, p, q, r, sizes)
    BY <1>3, <1>5, <2>2, <2>4, <2>5, <2>6 DEF ItemRows, RowsEvaluated
  <2>8. TagAt(p) # "DD"
    BY <2>7, SpanBegins
  <2> QED
    BY <1>1, <1>5, <2>8, SeesMemory DEF TagAt
<1>7. in.ends = 1
  <2>1. in.ends <= 1 /\ in.ends \in Nat
    BY InputGives DEF InputExplained, ItemPremise, TypeIInv, InputTypes, InputStates
  <2> QED
    BY <1>4, <1>6, <2>1
<1>8. Troubles'
  BY <1>1, TroublesStay DEF ItemPremise, copyVars, managerVars
<1> QED
  BY <1>1, <1>4, <1>6, <1>7, <1>8, ItemStops DEF Ends

(* No block is to be had, or the statement ends.                           *)
LEMMA ItemRefused ==
  ASSUME ItemPremise, ProjectFirstBlockThrows \/ ProjectItemThrows
  PROVE  ItemInv'
<1>1. /\ pc' = "release" /\ outcome' = "threw" /\ BM!CreateBlockThrows
      /\ UNCHANGED <<statement, in, pulled, delivered, fault>>
  BY DEF ProjectFirstBlockThrows, ProjectItemThrows, AddThrows, Destroy, GoTo
<1>2. Troubles'
  BY <1>1, TroublesRefuse DEF ItemPremise
<1> QED
  BY <1>1, <1>2, ItemStops DEF Ends

LEMMA ItemCloses ==
  ASSUME ItemPremise, ReleaseRead \/ Close \/ InputThrows \/ Abandon
  PROVE  ItemInv'
<1>1. /\ pc' \in Ends /\ UNCHANGED <<statement, in, pulled, delivered, fault>>
      /\ outcome' \in {outcome, "failed", "abandoned"}
      /\ UNCHANGED <<totalBlocks, sBlockNumber>>
  BY DEF ReleaseRead, Close, InputThrows, Abandon, Destroy, GoTo, BM!Release, BM!managerVars,
    copyVars, managerVars, commonVars, Ends
<1>2. Troubles'
  BY <1>1, TroublesStay DEF ItemPremise
<1>3. outcome' = "eof" => in.ends = 1 /\ Len(delivered) = Len(pulled)
  BY <1>1 DEF ItemPremise, DeliveredItems
<1> QED
  BY <1>1, <1>2, <1>3, ItemStops

LEMMA ItemSame ==
  ASSUME ItemPremise, UNCHANGED vars
  PROVE  ItemInv'
<1>1. UNCHANGED <<pc, outcome, statement, delivered, pulled, in, fault, col, at, full, reading,
                  read, totalBlocks, sBlockNumber, cache, store>>
  BY DEF vars, ownVars, commonVars, copyVars, managerVars
<1>2. Troubles'
  BY <1>1, TroublesStay DEF ItemPremise
<1>3. DeliveredItems'
  BY <1>1 DEF ItemPremise, DeliveredItems, ListRow, Items, List
<1>4. ASSUME NEW ends, ItemRows(ends) PROVE ItemRows(ends)'
  <2>1. Memory' = Memory /\ OldestFilled' = OldestFilled /\ Evaluated' = Evaluated
        /\ (Filling' <=> Filling)
    BY <1>1 DEF Memory, OldestFilled, Evaluated, Filling
  <2>2. RowsEvaluated(ends)'
    BY <1>1, <1>4, <2>1 DEF ItemRows, RowsEvaluated, RowBegin, Start, ListSizes, Items, List,
      Cell, Rows
  <2>3. RowFollows(ends)'
    BY <1>1, <1>4, <2>1 DEF ItemRows, RowFollows, NextBegin, RowBegin, Start, ListSizes, Items,
      List, Cell, Rows, Row
  <2>4. \A pos : RowPart(ends, pos)' <=> RowPart(ends, pos)
    BY <1>1, <2>1 DEF RowPart, RowBegin, Start, List
  <2>5. \A pos, k : ReaderAt(ends, pos)' = ReaderAt(ends, pos) /\ Spot(k)' = Spot(k)
    BY <1>1 DEF ReaderAt, RowBegin, Start, Spot
  <2>6. RowReader(ends)'
    BY <1>1, <1>4, <2>1, <2>4, <2>5 DEF ItemRows, RowReader, BetweenRows, WithinRow, Suspended,
      Start, List
  <2> QED
    BY <2>2, <2>3, <2>6 DEF ItemRows
<1>5. Filling' \/ Reading' => Filling \/ Reading
  BY <1>1 DEF Filling, Reading
<1> QED
  BY <1>2, <1>3, <1>4, <1>5 DEF ItemInv, ItemPremise

(* Blocks that a row goes through stay so.                                 *)
LEMMA PartsStay ==
  ASSUME TypeIInv, ProjectInv, Parts,
         \/ UNCHANGED <<store, cache>>
         \/ UNCHANGED cache /\ \E new : store' = [store EXCEPT ![cache[Len(cache)]] = new]
         \/ \E new : PushBlock(new)
  PROVE  Parts'
<1>1. PICK n \in Nat : n = Len(cache) /\ DOMAIN cache = 1 .. n
  BY DEF ProjectInv, ProjectTypes
<1>2. PICK k \in 2 .. n - 1 : Tagged(CellsOf(k), {"AA", "CC"})
  BY <1>1 DEF Parts
<1>3. k \in 1 .. n /\ n \in 1 .. n /\ k # n
  BY <1>1
<1>4. cache[k] # cache[n]
  BY <1>1, <1>3 DEF ProjectInv, ProjectTypes
<1>5. cache[k] \in 1 .. sBlockNumber /\ sBlockNumber \in Nat /\ DOMAIN store = 1 .. sBlockNumber
  BY <1>1, <1>3, ProjectCells DEF TypeIInv, StoreTypes, ProjectInv
<1>6. /\ Len(cache') \in {n, n + 1} /\ cache'[k] = cache[k]
      /\ store'[cache[k]] = store[cache[k]]
  <2>1. CASE UNCHANGED <<store, cache>>
    BY <1>1, <2>1
  <2>2. CASE UNCHANGED cache /\ \E new : store' = [store EXCEPT ![cache[Len(cache)]] = new]
    BY <1>1, <1>4, <1>5, <2>2
  <2>3. ASSUME NEW new, PushBlock(new) 
        PROVE  /\ Len(cache') \in {n, n + 1} /\ cache'[k] = cache[k]
               /\ store'[cache[k]] = store[cache[k]]
    <3>1. sBlockNumber' = sBlockNumber + 1
      BY <2>3 DEF PushBlock, BM!CreateBlock
    <3>2. cache' = Append(cache, sBlockNumber + 1)
      BY <2>3, <3>1 DEF PushBlock
    <3>3. PICK T : cache \in Seq(T)
      BY DEF ProjectInv, ProjectTypes
    <3>4. Len(cache') = n + 1 /\ cache'[k] = cache[k]
      BY <1>1, <1>3, <3>2, <3>3
    <3>5. cache[k] \in 1 .. sBlockNumber' /\ cache[k] # sBlockNumber'
      BY <1>5, <3>1
    <3>6. store'[cache[k]] = store[cache[k]]
      BY <1>1, <1>4, <2>3, <3>5 DEF PushBlock
    <3> QED
      BY <3>4, <3>6
  <2> QED
    BY <2>1, <2>2, <2>3
<1>7. CellsOf(k)' = CellsOf(k) /\ k \in 2 .. Len(cache') - 1
  BY <1>1, <1>6 DEF CellsOf
<1> QED
  BY <1>2, <1>7 DEF Parts, Tagged

ItemSteps ==
  ProjectNext \/ InputThrows \/ Abandon \/ Close \/ UNCHANGED vars

LEMMA ItemWrites ==
  ASSUME TypeIInv, ProjectInv, ItemSteps
  PROVE  \/ UNCHANGED <<store, cache>>
         \/ UNCHANGED cache /\ \E new : store' = [store EXCEPT ![cache[Len(cache)]] = new]
         \/ \E new : PushBlock(new)
<1>1. CASE ProjectFirstBlock \/ ProjectItemToNext
  BY <1>1 DEF ProjectFirstBlock, ProjectItemToNext, AddToNext
<1>2. CASE ProjectItem \/ ProjectItemThrows \/ ProjectEndRow \/ HandLastBlock
  <2>1. ProjectItem => /\ UNCHANGED cache
                       /\ store' = [store EXCEPT ![cache[Len(cache)]] =
                                      Added(@, Row, col, ItemSize)]
    BY DEF ProjectItem, AddToCurrent
  <2>2. ProjectItemThrows => /\ UNCHANGED cache
                             /\ store' = [store EXCEPT ![cache[Len(cache)]] = Marked(@, "CC")]
    BY DEF ProjectItemThrows, AddThrows
  <2>3. ProjectEndRow => /\ UNCHANGED cache
                         /\ store' = [store EXCEPT ![cache[Len(cache)]] = Marked(@, "BB")]
    BY DEF ProjectEndRow, WriteMark
  <2>4. HandLastBlock => /\ UNCHANGED cache
                         /\ store' = [store EXCEPT ![cache[Len(cache)]] = Marked(@, "DD")]
    BY DEF HandLastBlock, Filled, Last
  <2> QED
    BY <1>2, <2>1, <2>2, <2>3, <2>4
<1>3. CASE ~ (\/ ProjectFirstBlock \/ ProjectItemToNext \/ ProjectItem \/ ProjectItemThrows
              \/ ProjectEndRow \/ HandLastBlock)
  BY <1>3 DEF ItemSteps, ProjectNext, ProjectFirstBlockThrows, ProjectRow, HandFullBlock,
    ProjectedRowThrows, ProjectedEnd, ProjectedRow, ReadItem, NextItemBlock, ReadItemThrows,
    UseProjectedRow, ReleaseRead, InputThrows, Abandon, Close, vars, copyVars
<1> QED
  BY <1>1, <1>2, <1>3

LEMMA ItemStep ==
  ASSUME ItemPremise, ItemSteps
  PROVE  ItemInv'
BY ItemFirst, ItemTakes, ItemAdds, ItemEndsRow, ItemHandsFull, ItemHandsLast, ItemBegins,
  ItemReads, ItemSuspends, ItemMissing, ItemNoMarker, ItemEnd, ItemUsed, ItemRefused,
  ItemCloses, ItemSame
  DEF ItemSteps, ProjectNext

LEMMA ItemsBegin == Init => ItemInv
<1> SUFFICES ASSUME Init PROVE ItemInv
  OBVIOUS
<1>1. /\ statement \in Statements /\ pc = "first" /\ pulled = <<>> /\ delivered = <<>>
      /\ outcome = "open" /\ fault = "none"
      /\ totalBlocks = statement.held /\ sBlockNumber = statement.held
  BY DEF Init, CommonInit
<1>2. Len(delivered) = 0 /\ Len(pulled) = 0 /\ 1 .. 0 = {}
  BY <1>1
<1>3. DeliveredItems
  BY <1>1, <1>2 DEF DeliveredItems
<1>4. Troubles
  BY <1>1, StatementTypes DEF Troubles
<1> QED
  BY <1>1, <1>3, <1>4 DEF ItemInv, Filling, Reading

ItemIInv == SortIInv /\ (Projecting => ItemInv)

LEMMA ItemIBegins == Init => ItemIInv
BY SortIBegins, ItemsBegin DEF ItemIInv

LEMMA ItemIStep == ItemIInv /\ [Next]_vars => ItemIInv'
<1> SUFFICES ASSUME ItemIInv, [Next]_vars, Projecting PROVE ItemInv'
  <2>1. ASSUME ItemIInv, [Next]_vars PROVE SortIInv' /\ (Projecting' => Projecting)
    BY <2>1, SortIStep, InputSteps DEF ItemIInv, SortIInv, RowIInv, InputStep, Projecting
  <2> QED
    BY <2>1 DEF ItemIInv
<1>1. SortIInv' /\ UNCHANGED statement /\ Projecting'
  BY SortIStep, InputSteps DEF ItemIInv, SortIInv, RowIInv, InputStep, Projecting
<1>2. /\ TypeIInv /\ ProjectInv /\ InputInv /\ EndKnown /\ ItemInv /\ functionBlocks = <<>>
      /\ TypeIInv' /\ ProjectInv' /\ InputInv' /\ EndKnown'
  BY <1>1 DEF ItemIInv, SortIInv, RowIInv
<1>3. ItemSteps
  <2>1. ~ SortNext /\ ~ GroupNext /\ ~ KeepsBlocks
    BY <1>2, Kinds, SortOnly, GroupOnly DEF KeepsBlocks, TypeIInv, Stages, Ends
  <2> QED
    BY <2>1 DEF ItemSteps, Next, Stopped, ReleaseBlocks
<1>4. CASE Parts
  <2>1. Parts'
    BY <1>2, <1>3, <1>4, ItemWrites, PartsStay
  <2> QED
    BY <2>1 DEF ItemInv
<1>5. CASE ~ Parts /\ Parts'
  BY <1>5 DEF ItemInv
<1>6. CASE ~ Parts /\ ~ Parts'
  <2>1. ItemPremise
    BY <1>1, <1>2, <1>6 DEF ItemPremise, ItemInv
  <2> QED
    BY <1>3, <2>1, ItemStep
<1> QED
  BY <1>4, <1>5, <1>6

(* What was delivered are the first of the rows that were taken.           *)
LEMMA ItemGives ==
  InputTypes /\ InputInv /\ Projecting /\ DeliveredItems => ProjectionExplained
<1> SUFFICES ASSUME InputTypes, InputInv, Projecting, DeliveredItems
             PROVE  ProjectionExplained
  OBVIOUS
<1>1. PICK d \in Nat : /\ d = Len(delivered) /\ d <= Len(pulled)
                       /\ delivered = [k \in 1 .. d |-> ListRow(pulled[k])]
                       /\ outcome = "eof" => in.ends = 1 /\ d = Len(pulled)
  BY DEF DeliveredItems
<1>2. InputExplained
  BY InputGives
<1>3. PICK n \in Nat : n = Len(pulled)
  BY DEF InputTypes, RowNumbers
<1>4. PICK m \in Nat : m = Len(Taken) /\ DOMAIN Taken = 1 .. m
  BY TakenRows DEF InputTypes
<1>5. n <= m /\ \A k \in 1 .. n : pulled[k] = Taken[k]
  <2>1. n <= m /\ pulled = SubSeq(Taken, 1, n)
    BY <1>2, <1>3, <1>4 DEF InputExplained, IsPrefixOfRows
  <2>2. SubSeq(Taken, 1, n) = [i \in 1 .. n |-> Taken[i]]
    <3>1. Taken \in Seq(Nat)
      BY TakenRows DEF InputTypes
    <3> QED
      BY <1>3, <1>4, <2>1, <3>1
  <2> QED
    BY <2>1, <2>2
<1> DEFINE rows == [k \in DOMAIN Taken |-> ItemsOf(k)]
<1>6. PICK all : all = rows
  OBVIOUS
<1>7. all = [k \in 1 .. m |-> ListRow(Taken[k])]
  BY <1>4, <1>6 DEF ItemsOf, ListRow
<1>8. PICK S : \A k \in 1 .. m : ListRow(Taken[k]) \in S
  <2>1. PICK S : S = {ListRow(Taken[k]) : k \in 1 .. m}
    OBVIOUS
  <2> QED
    BY <2>1
<1>9. all \in Seq(S) /\ Len(all) = m
  BY <1>7, <1>8
<1>10. d <= n /\ delivered = [k \in 1 .. d |-> all[k]]
  <2>1. \A k \in 1 .. d : ListRow(pulled[k]) = all[k]
    BY <1>1, <1>3, <1>5, <1>7
  <2> QED
    BY <1>1, <1>3, <2>1
<1>11. d <= m /\ SubSeq(all, 1, d) = [k \in 1 .. d |-> all[k]]
  BY <1>3, <1>5, <1>9, <1>10
<1>12. IsPrefixOfRows(delivered, all)
  BY <1>1, <1>9, <1>10, <1>11 DEF IsPrefixOfRows
<1>13. outcome = "eof" => Len(delivered) = Len(Taken)
  BY <1>1, <1>2 DEF InputExplained
<1> QED
  BY <1>6, <1>12, <1>13 DEF ProjectionExplained

(* For every select list, every size of the blocks and any cut of the rows *)
(* by them: the rows that a projection delivers are the lists of the first *)
(* rows of its input, in their order and with all their values, all of     *)
(* them when the end is reported, unless a row goes through whole blocks;  *)
(* and it throws with no block refused only if a value fits into no block. *)
THEOREM ProjectionExplainedHolds ==
  Spec => [](Projecting => /\ ProjectionExplained \/ LargeRows
                           /\ outcome = "threw" /\ BM!Refused = 0 => LostValue \/ LargeRows)
<1>1. ItemIInv /\ Projecting =>
        /\ ProjectionExplained \/ LargeRows
        /\ outcome = "threw" /\ BM!Refused = 0 => LostValue \/ LargeRows
  <2> SUFFICES ASSUME ItemIInv, Projecting
               PROVE  /\ ProjectionExplained \/ LargeRows
                      /\ outcome = "threw" /\ BM!Refused = 0 => LostValue \/ LargeRows
    OBVIOUS
  <2>1. ItemInv /\ TypeIInv /\ ProjectTypes /\ InputTypes /\ InputInv
    BY DEF ItemIInv, SortIInv, RowIInv, TypeIInv, ProjectInv
  <2>2. CASE Parts
    BY <2>1, <2>2, PartsAreLarge
  <2>3. CASE ~ Parts
    BY <2>1, <2>3, ItemGives DEF ItemInv, Troubles
  <2> QED
    BY <2>2, <2>3
<1> QED
  BY <1>1, ItemIBegins, ItemIStep, PTL DEF Spec

(* Whatever the statement, its rows and the size of the blocks, what a     *)
(* sort and a projection deliver is explained by the clauses and by the    *)
(* exceptions that the code makes, and so is that they fail.               *)
THEOREM RowsExplainedHolds == Spec => []RowsExplained
<1>1. /\ InputExplained
      /\ Sorting => SortExplained
      /\ Sorting /\ outcome = "threw" /\ BM!Refused = 0 => LostValue
      /\ fault = "order" => OrderedNulls
      /\ Projecting => /\ ProjectionExplained \/ LargeRows
                       /\ outcome = "threw" /\ BM!Refused = 0 => LostValue \/ LargeRows
      => RowsExplained
  BY DEF RowsExplained
<1> QED
  BY <1>1, InputExplainedHolds, SortExplainedHolds, ProjectionExplainedHolds, PTL
=============================================================================
