---------------------------- MODULE RowOperators -----------------------------
(***************************************************************************)
(* The extended projection, and the statements with one of the operators   *)
(* that keep or compute rows, of which it is one.                          *)
(***************************************************************************)
EXTENDS RowOperator, SortedRows, GroupedRows

(***************************************************************************)
(* ExtendedProjectionOperatorNode with its BlockIterator: the select list  *)
(* of a row is evaluated into the operator's block; when it is full, and   *)
(* the row is complete, the iterator gets it and reads rows from it while  *)
(* the operator goes on with a new one.  The iterator gives a block back   *)
(* when it has moved two blocks on.                                        *)
(*                                                                         *)
(* cache is the blocks that the operator created, the last one is _block.  *)
(***************************************************************************)
VARIABLES
  full,       (* previousBlock of prepareNextBuffer()                       *)
  reading,    (* _block and _previousBlock of the iterator                  *)
  read        (* the values of the row read so far, with their blocks       *)

projectVars == <<copyVars, commonVars, full, reading, read>>

Projecting == statement.kind = "project"

(* The column that each element of the select list takes its value from;   *)
(* an asterisk is its columns.                                             *)
List == statement.list
Items == 1 .. Len(List)
ItemSize == Cell(Row, List[col]).size

Filled == Last(cache)
-----------------------------------------------------------------------------
(* connect() creates the first block.                                      *)
ProjectFirstBlock ==
  /\ Projecting /\ pc = "first"
  /\ PushBlock(Empty)
  /\ GoTo("pull")
  /\ UNCHANGED <<commonVars, full, reading, read>>

ProjectFirstBlockThrows ==
  /\ Projecting /\ pc = "first"
  /\ BM!CreateBlockThrows
  /\ Destroy("threw")
  /\ UNCHANGED <<store, cache, statement, in, pulled, col, at, delivered, fault,
                 full, reading, read>>

(* prepareNextBuffer(): rows are evaluated until a block is full.          *)
Preparing == Projecting /\ pc = "pull" /\ full = NoBlock
ProjectRow ==
  /\ Preparing /\ TakeRow
  /\ col' = 1
  /\ GoTo("item")
  /\ UNCHANGED <<copyVars, statement, at, delivered, outcome, fault, full, reading, read>>

EvaluatingItem == Projecting /\ pc = "item" /\ col \in Items
ProjectItem ==
  /\ EvaluatingItem
  /\ AddToCurrent(Row, col, ItemSize)
  /\ col' = col + 1
  /\ UNCHANGED <<pc, statement, in, pulled, at, delivered, outcome, fault, full,
                 reading, read>>

(* The block that is full is remembered, and with it, if it is the second  *)
(* one in this row, the first is forgotten.                                *)
ProjectItemToNext ==
  /\ EvaluatingItem
  /\ AddToNext(Row, col, ItemSize)
  /\ full' = Filled
  /\ col' = col + 1
  /\ UNCHANGED <<pc, statement, in, pulled, at, delivered, outcome, fault, reading, read>>

ProjectItemThrows ==
  /\ EvaluatingItem
  /\ AddThrows(ItemSize)
  /\ Destroy("threw")
  /\ UNCHANGED <<statement, in, pulled, col, at, delivered, fault, full, reading, read>>

ProjectEndRow ==
  /\ Projecting /\ pc = "item" /\ col \notin Items
  /\ WriteMark("BB")
  /\ GoTo("pull")
  /\ UNCHANGED <<commonVars, full, reading, read>>

(* getNextBlock() returns the full block, or the last one with the end     *)
(* marker.                                                                 *)
Handed(block) ==
  /\ reading' = [reading EXCEPT !.block = block]
  /\ at' = [block |-> 1, offset |-> 0]
  /\ full' = NoBlock
  /\ GoTo(IF reading.previous = NoBlock THEN "next" ELSE "read")

HandFullBlock ==
  /\ Projecting /\ pc = "pull" /\ full # NoBlock
  /\ Handed(full)
  /\ UNCHANGED <<copyVars, statement, in, pulled, col, delivered, outcome, fault, read>>

HandLastBlock ==
  /\ Preparing /\ TakeEnd
  /\ store' = [store EXCEPT ![Filled] = Marked(@, "DD")]
  /\ Handed(Filled)
  /\ UNCHANGED <<managerVars, cache, statement, col, delivered, outcome, fault, read>>
-----------------------------------------------------------------------------
(* The iterator: at.offset is its offset in its block.                     *)
Under(offset) == store[reading.block].cells[offset + 1].tag
AtItem == Projecting /\ pc \in {"next", "read"}

(* A row begins behind the marker of the last one, if there is one.        *)
Begins == IF at.offset = 0 THEN 0 ELSE at.offset + 1
RowEnded == at.offset # 0 => Under(at.offset) = "BB"
ProjectedRowThrows ==
  /\ AtItem /\ pc = "next" /\ ~ RowEnded
  /\ Destroy("threw")
  /\ UNCHANGED <<copyVars, statement, in, pulled, col, at, delivered, fault, full,
                 reading, read>>

ProjectedEnd ==
  /\ AtItem /\ pc = "next" /\ RowEnded /\ Under(Begins) = "DD"
  /\ Destroy("eof")
  /\ UNCHANGED <<copyVars, statement, in, pulled, col, at, delivered, fault, full,
                 reading, read>>

ProjectedRow ==
  /\ AtItem /\ pc = "next" /\ RowEnded /\ Under(Begins) # "DD"
  /\ at' = [at EXCEPT !.offset = Begins]
  /\ read' = <<>>
  /\ GoTo("read")
  /\ UNCHANGED <<copyVars, statement, in, pulled, col, delivered, outcome, fault, full,
                 reading>>

ReadItem ==
  /\ Projecting /\ pc = "read" /\ Len(read) < Len(List) /\ Under(at.offset) = "AA"
  /\ read' = Append(read, [block |-> reading.block, offset |-> at.offset])
  /\ at' = [at EXCEPT !.offset = @ + 1]
  /\ UNCHANGED <<copyVars, pc, statement, in, pulled, col, delivered, outcome, fault,
                 full, reading>>

NextItemBlock ==
  /\ Projecting /\ pc = "read" /\ Len(read) < Len(List) /\ Under(at.offset) = "CC"
  /\ BM!Release(reading.previous)
  /\ reading' = [block |-> NoBlock, previous |-> reading.block]
  /\ GoTo("pull")
  /\ UNCHANGED <<store, cache, statement, in, pulled, col, at, delivered, outcome,
                 fault, full, read>>

ReadItemThrows ==
  /\ Projecting /\ pc = "read" /\ Len(read) < Len(List)
  /\ Under(at.offset) \notin {"AA", "CC"}
  /\ Destroy("threw")
  /\ UNCHANGED <<copyVars, statement, in, pulled, col, at, delivered, fault, full,
                 reading, read>>

(* The row is used by the operator above.                                  *)
Pointed(p) == LET cell == store[p.block].cells[p.offset + 1] IN <<cell.line, cell.col>>
RowRead == Projecting /\ pc = "read" /\ Len(read) = Len(List)
UseProjectedRow ==
  /\ RowRead
  /\ delivered' = Append(delivered, [c \in Items |-> Pointed(read[c])])
  /\ GoTo("next")
  /\ UNCHANGED <<copyVars, statement, in, pulled, col, at, outcome, fault, full, reading, read>>

(* The destructor of the iterator gives back its two blocks; one that is   *)
(* being filled is not among them.                                         *)
ReadReleased == reading = [block |-> NoBlock, previous |-> NoBlock]
ReleaseRead ==
  /\ Projecting /\ pc = "release" /\ ~ ReadReleased
  /\ IF reading.previous # NoBlock
     THEN BM!Release(reading.previous) /\ reading' = [reading EXCEPT !.previous = NoBlock]
     ELSE BM!Release(reading.block) /\ reading' = [reading EXCEPT !.block = NoBlock]
  /\ UNCHANGED <<store, cache, pc, commonVars, full, read>>

ProjectNext ==
  \/ ProjectFirstBlock \/ ProjectFirstBlockThrows \/ ProjectRow
  \/ ProjectItem \/ ProjectItemToNext \/ ProjectItemThrows \/ ProjectEndRow
  \/ HandFullBlock \/ HandLastBlock \/ ProjectedRowThrows \/ ProjectedEnd \/ ProjectedRow
  \/ ReadItem \/ NextItemBlock \/ ReadItemThrows \/ UseProjectedRow
  \/ ReleaseRead
-----------------------------------------------------------------------------
(***************************************************************************)
(* A statement with one of the operators that keep or compute rows: sort,  *)
(* grouping, aggregation, extended projection, over a union and a limit.   *)
(* The statement may fail below, or be abandoned after any row.            *)
(***************************************************************************)
ownVars == <<positions, groups, functionBlocks, target, full, reading, read>>
vars == <<copyVars, pc, commonVars, ownVars>>

Init ==
  /\ CommonInit
  /\ positions = <<>>
  /\ groups = <<>> /\ functionBlocks = <<>> /\ target = [block |-> 1, group |-> 1]
  /\ full = NoBlock /\ reading = [block |-> NoBlock, previous |-> NoBlock] /\ read = <<>>

(* Whoever runs the statement asks for no further row.                     *)
Abandon ==
  /\ pc = "next"
  /\ Destroy("abandoned")
  /\ UNCHANGED <<copyVars, statement, in, pulled, col, at, delivered, fault>>

(* The blocks of the operator's iterator.  The block of an aggregation is  *)
(* the iterator's when the results have been written.                      *)
KeepsBlocks == Sorting \/ Grouping \/ (Aggregating /\ at # Nowhere)
ReleaseBlocks ==
  /\ pc = "release" /\ KeepsBlocks
  /\ ReleaseNext
  /\ UNCHANGED <<pc, commonVars>>

GivenBack ==
  /\ KeepsBlocks => AllReleased
  /\ functionBlocks = <<>>
  /\ ReadReleased
Close ==
  /\ pc = "release" /\ GivenBack
  /\ GoTo("closed")
  /\ UNCHANGED <<copyVars, commonVars>>

Stopped == pc \in {"closed", "crashed"} /\ UNCHANGED vars

Next ==
  \/ SortNext /\ UNCHANGED <<groups, functionBlocks, target, full, reading, read>>
  \/ GroupNext /\ UNCHANGED <<positions, full, reading, read>>
  \/ ProjectNext /\ UNCHANGED <<positions, groups, functionBlocks, target>>
  \/ (InputThrows \/ Abandon \/ ReleaseBlocks \/ Close) /\ UNCHANGED ownVars
  \/ Stopped

Spec == Init /\ [][Next]_vars
-----------------------------------------------------------------------------
Rowed(numbers) == [k \in DOMAIN numbers |-> [c \in Columns |-> <<numbers[k], c>>]]
IsPrefixOfRows(rows, all) == Len(rows) <= Len(all) /\ rows = SubSeq(all, 1, Len(rows))

(* Row i belongs before row j: the first of the orders in which they       *)
(* differ says so.                                                         *)
Before(i, j) ==
  LET orders == statement.orders
      Differing == {k \in DOMAIN orders : Cell(i, orders[k].index).n # Cell(j, orders[k].index).n}
      decisive == orders[CHOOSE k \in Differing : \A m \in Differing : k <= m]
      isLess == Cell(i, decisive.index).n < Cell(j, decisive.index).n
  IN  Differing # {} /\ (isLess # decisive.descending)
OrderedNulls ==
  \E r \in ToSet(Taken) : \E k \in DOMAIN statement.orders :
    Cell(r, statement.orders[k].index).null

SortExplained ==
  LET rows == [k \in DOMAIN delivered |-> delivered[k][1][1]]
  IN  /\ delivered = Rowed(rows)
      /\ \A j, k \in DOMAIN rows : j < k =>
           rows[j] # rows[k] /\ (OrderedNulls \/ ~ Before(rows[k], rows[j]))
      /\ outcome = "eof" => ToSet(rows) = ToSet(Taken)

(* Rows with the same values, none of them NULL, are one group; a row with *)
(* a NULL is a group of its own.                                           *)
GroupMates(r) ==
  IF \E k \in DOMAIN statement.keys : Cell(r, statement.keys[k]).null THEN {r}
  ELSE {s \in ToSet(Taken) :
          \A k \in DOMAIN statement.keys :
            LET v == Cell(s, statement.keys[k])
            IN  ~ v.null /\ v.n = Cell(r, statement.keys[k]).n}

ResultExplained(f, members, value) ==
  LET argument == [r \in members |-> Argument(f, r)]
      meant == Meant(Functions[f].function, members, argument)
  IN  IF value.null
      THEN meant = {} \/ (Functions[f].function = "COUNT" /\ meant = {0})
      ELSE value.n \in meant

GroupsExplained ==
  /\ delivered = [k \in DOMAIN delivered |->
                    [c \in DOMAIN Results |-> <<k, c>>]]
  /\ outcome = "eof" /\ Grouping =>
       /\ {groups[g].members : g \in DOMAIN groups} = {GroupMates(r) : r \in ToSet(Taken)}
       /\ Len(delivered) = Len(groups)
       /\ Len(groups) = Cardinality({GroupMates(r) : r \in ToSet(Taken)})
  /\ outcome = "eof" /\ Aggregating =>
       Len(delivered) = 1 /\ groups[1].members = ToSet(Taken)
  /\ outcome = "eof" =>
       \A g \in DOMAIN groups : \A c \in DOMAIN Results :
         ResultExplained(Results[c], groups[g].members, Result(g, c))

(* A block that a row does not begin in, nor end: the one before it is     *)
(* forgotten, with the rows that end in it.                                *)
LargeRows ==
  \E k \in DOMAIN cache \ {1} :
    \A i \in DOMAIN store[cache[k]].cells : store[cache[k]].cells[i].tag \in {"AA", "CC"}

ItemsOf(k) == [c \in Items |-> <<Taken[k], c>>]
ProjectionExplained ==
  /\ IsPrefixOfRows(delivered, [k \in DOMAIN Taken |-> ItemsOf(k)])
  /\ outcome = "eof" => Len(delivered) = Len(Taken)

(* What was pulled are the rows that OFFSET, LIMIT and UNION leave, in      *)
(* their order, all of them when the end is reported.  Nobody asks for a   *)
(* further row then: LIMIT would begin to deliver rows again.              *)
InputExplained ==
  /\ IsPrefixOfRows(pulled, Taken)
  /\ in.ends <= 1
  /\ in.ends = 1 => pulled = Taken
-----------------------------------------------------------------------------
(* The row of an aggregation does not fit into its one block.              *)
LargeResult ==
  Aggregating /\ 1 + MapThenSumSet(LAMBDA c : 1 + Result(1, c).size, DOMAIN Results) >= Capacity
LostValue == \E r \in DOMAIN Rows : \E c \in Columns : Lost(Cell(r, c).size)

(* What a projection hands out points into blocks that exist.  (A row from *)
(* which a part is missing is completed from later ones, and the block in  *)
(* which it began is given back before its last value is read.)            *)
RowPointsIntoBlocks ==
  RowRead => LargeRows \/ \A c \in Items : read[c].block \in blocks

(* Blocks that nobody gives back: the one that a projection fills when it  *)
(* is not read to its end, the first one of a row that takes more than     *)
(* two, and that of an aggregation that fails before its row.  None is     *)
(* given back too early: while a projected row is read, its blocks exist.  *)
BlocksExplained ==
  /\ RowPointsIntoBlocks
  /\ pc = "closed" /\ blocks # HeldBefore =>
       \/ (Projecting /\ (outcome # "eof" \/ LargeRows))
       \/ (Aggregating /\ outcome = "failed")
  /\ pc = "closed" /\ ~ Projecting => Cardinality(blocks \ HeldBefore) <= 1
  /\ HeldBefore \subseteq blocks

(* What a sort and a projection deliver, over LIMIT, OFFSET and UNION, is   *)
(* what the clauses ask for: all rows once and in order, or the list of    *)
(* each row of the input in turn; and the end of what is below is asked    *)
(* for once.  Unless they are short of blocks they fail only for a value   *)
(* that fits into no block.  The exceptions that the code makes: NULLs     *)
(* have no place in an order, with them it is undefined what sorting does; *)
(* and of projected rows that take more than two blocks parts are lost.    *)
RowsExplained ==
  /\ InputExplained
  /\ Sorting => SortExplained
  /\ Projecting => ProjectionExplained \/ LargeRows
  /\ (Sorting \/ Projecting) /\ outcome = "threw" /\ BM!Refused = 0 =>
       LostValue \/ (Projecting /\ LargeRows)
  /\ fault = "order" => OrderedNulls

(* What grouping and aggregation deliver are the groups of the rows, with  *)
(* the values that the functions mean; a NULL is a group of its own, and   *)
(* counting none gives NULL.  Unless they are short of blocks they fail    *)
(* only for a value that fits into no block, or for the row of an          *)
(* aggregation that is too large for one.  What is undefined are MIN and   *)
(* MAX of strings once the input has given the block back in which the     *)
(* first value was.                                                        *)
AggregatesExplained ==
  /\ Grouping \/ Aggregating => GroupsExplained
  /\ (Grouping \/ Aggregating) /\ outcome = "threw" /\ BM!Refused = 0 =>
       LostValue \/ LargeResult
  /\ fault = "kept" =>
       \E f \in DOMAIN Functions : \E r, s \in ToSet(pulled) :
         /\ Functions[f].function \in {"MIN", "MAX"}
         /\ Argument(f, r).type = "STRING" /\ Released(r, s)
=============================================================================
