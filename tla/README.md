# A verification project for csvsqldb

csvsqldb answers SQL over csv files: a statement is parsed into an AST,
validated against a symbol table, turned into a tree of operators and executed
row by row (`getNextRow()` pulled from the root).  This directory holds TLA+
specifications of its parts, the TLC configurations that check them on small
instances, and proofs for TLAPS.  Paths are relative to the repository;
`lib/` stands for `libcsvsqldb/`.

## 1. Inventory

| component | state | operations | what makes it hard |
|---|---|---|---|
| **Block manager** (`lib/block.*`) | the blocks, four counters, a static block number | `createBlock`, `release`, `getBlock`, cache files | a limit; a refusal in the middle of an operation; called from several threads without a lock |
| **Block layout** (`lib/block.cpp:125-431`) | bytes, an offset | `addInt` ... `addString`, markers AA value, BB row, CC next block, DD end | boundaries: who checks the room for a marker |
| **Table scan** (`lib/operatornode.cpp:1268-1497`) | reader thread, queue, mutex, condition variable, `_continue` | `getNextRow`, `getNextBlock`, the parser callbacks, construction, destruction | a producer and a consumer thread; a scan abandoned half-way; exceptions in callbacks |
| **Block iterator** (`lib/block_iterator.cpp:43-146`) | current and previous block, offset | `getNextRow`, destructor | rows are pointers into blocks; rows cut by the end of a block |
| **Csv parser** (`lib/base/csv_parser.*`, `csv_string_parser.*`) | state, buffer, string buffer, type iterator | `parseLine` | errors in the middle of a line, end of input, buffers that end anywhere |
| **Materialising iterators** (`lib/block_iterator.cpp:148-982`: caching, sort, grouping, hashing) | blocks they own, row pointers, contexts | `getNextRow`, `rewind`, `getNextKeyValueRow` ... | who owns a block, row pointers across blocks, rewinding, NULLs as keys and in orders |
| **Operators** (`lib/operatornode.*`: limit, sort, grouping, aggregation, extended projection, joins, union, select) | an input, cached rows, counters | `connect`, `getNextRow` | composition of pull protocols, end of rows, rescans of an inner input |
| **Execution engine and plan** (`lib/execution_*`, `lib/operatornode_factory.*`) | the block manager of the engine, a list of statements | `execute` of a statement | what survives a failed statement; clauses without an operator |
| **Catalog** (`lib/database.*`, `lib/table_executions.*`, `lib/file_mapping.*`, `lib/tabledata.*`) | table data and mappings in memory and as JSON files | CREATE/DROP TABLE, CREATE/DROP MAPPING, start-up | several steps of memory and file system, any of which may fail or be cut off by a crash; texts that are read again |
| **Stack machine and functions** (`lib/stack_machine.*`, `lib/function_registry.*`, `lib/buildin_functions.*`) | instructions, a value stack, a variable store | `addInstruction`, `evaluate` | an evaluation per row over one instruction list; NULL operands, stack discipline |
| **Aggregation functions** (`lib/aggregation_functions.*`) | accumulators | `init`, `step`, `finalize` | empty groups, NULLs, strings that are not copied |
| **Symbol table and validation** (`lib/symboltable.*`, `lib/validation_visitor.*`, `lib/execution_plan_creator.h`) | scopes, symbols that scopes share | `addSymbol`, `typeSymbolTable`, visitor methods | nested queries, unions, aliases, ambiguous names |
| **SQL lexer, parser, AST** (`lib/sql_*`, `lib/visitor.h`) | a token stream, an AST, scopes under construction | recursive descent, visitors | precedence; what is printed must be read again as what it was |
| **Regular expressions** (`lib/base/regexp.*`) | an automaton that is built while its pattern is read | `parse`, `match` | precedence, broken patterns, repeated empty matches |
| **Values and types** (`lib/variant.*`, `lib/values.*`, `lib/types.*`, `lib/typeoperations.*`) | values | typed operations, comparison, conversion | NULL logic, division, who owns a string |
| **Dates and times** (`lib/base/date.*`, `time.*`, `timestamp.*`, `duration.*`) | day numbers, milliseconds | arithmetic, parsing, formatting | calendar arithmetic at its edges |
| **JSON** (`lib/base/json_*`) | a token stream, stacks of objects and keys | `parse`, the callback | the catalog after a crash |
| **Thread pool** (`lib/base/thread_pool.*`) | queue of tasks, workers, a stop flag | `enqueueTask`, `start`, `stop` | task hand-over, shutdown |
| **Signal handler** (`lib/base/signalhandler.h`, `lib/base/detail/posix/signalhandler.cpp`) | handler lists, a thread in `sigwait` | add/remove handlers, dispatch, shutdown | callbacks that change the lists, a thread blocked in the kernel |
| **Configuration, Lua, logging, shell** (`lib/base/*configuration*`, `lua_engine.h`, `logging.*`, `csvsqldb/*`) | configuration values, log devices, history | start-up and I/O | mostly sequential I/O |

### How the components interact

The shell makes an engine (`lib/execution_engine.h:75`) for each text that is
typed in or read from a file (`csvsqldb/main.cpp:68`); the engine runs the
statements of the text one after the other and owns the only `BlockManager`.
An exception ends the text, not the program.  The parser gives a tree and its
symbol tables, validation resolves the names, and the plan of a statement is a
tree of operators; each pulls rows from its input by `getNextRow()`.  At
the leaves a table scan starts one reader thread, in which the csv parser calls
back into `BlockReader`, which fills blocks and queues them; the query thread
takes blocks from the queue and gives them back to the block manager when the
iterator has passed them.  Operators that have to see all rows first (sort,
grouping, the inner input of a join) copy them into blocks of their own.
CREATE and DROP statements change the catalog and its files; a CHECK is kept in
such a file as printed SQL, which the next start parses again.

### Correctness, component by component

- *Block manager*: its counts describe the blocks that exist, the limit holds,
  a refusal is justified.
- *Table scan and iterator*: the rows of the file arrive once, complete and in
  order; a block has one owner; a block handed over is final; nothing is lost;
  the scan ends, however it is used.
- *Materialising iterators and operators*: each implements its relational
  operation on the sequence of rows of its input, keeps its blocks until its
  rows are no longer used, and gives all of them back.
- *Catalog*: memory and files agree after every statement, whichever step
  failed; a restart finds a state that some statement left; what is written is
  read as what it was.
- *SQL*: the tree of a text is that of the precedence rules, a name means the
  column it should, every clause gets its operator, printed text is read again.
- *Texts of values*: what a field, a pattern, a format says is what is read,
  matched, written, wherever a buffer ends.
- *Thread pool, signal handler*: every task runs once, in order; a handler with a
  guard is called and exists; shutdown ends.
- *Stack machine, aggregation*: an evaluation leaves the machine as it found
  it; the value is that of the expression.

The hazards, each at its line, are in `PROJECT.json`.

## 2. Plan

The order follows what is hardest to test.  Done, in this order:

1. `BlockManager`, `BlockManagerThreads`: the memory that every other part uses,
   as atomic operations and access by access.
2. `BlockScan` over `BlockManager` and `BlockLayout`, implementing the abstract
   `RowStream`: the concurrency inside a statement.
3. `RowCopies` over the same two: rows copied to blocks and read back.  Over it
   `HashJoin`, implementing `EquiJoin`, and `NestedLoopJoin`, implementing
   `CrossProduct`; and `RowOperators`, which is `SortedRows`, `GroupedRows` and the
   extended projection over what they share, `RowOperator`.
4. `Expressions`, `SelectOperator`: conditions from the tree to the
   value, against three-valued logic.
5. `Catalog`: the only state that outlives the process.
6. `ThreadPool`, `SignalHandler`: the other threads of the program.
7. `SqlSyntax`, `SymbolTable`, `SqlParser`, `SqlPrint`, composed by `SqlStatements`
   and held against what a statement means: from its words to its operators, and back.
8. `Calendar`, `CsvText`, `CatalogFiles`, composed by `FieldTexts`: all texts that
   are read from files.
9. Proofs: `BlockManagerProofs`, `BlockScanProofs`, `RowCopiesProofs` with
   `HashJoinProofs`, `NestedLoopJoinProofs` and `RowOperatorsProofs`, which
   `GroupedRowsProofs` extends, `ServicesProofs`.

Still owed: trees of more than two operators under one engine.

## 3. The modules

Every action is named for what the code does at that point; `PROJECT.json` gives
the lines of each definition.

### Memory, scans and operators

**`BlockManager`** (`lib/block.cpp:42-88`).  State: the numbers of the blocks that
exist and the four counters.  Actions: `CreateBlock`, `CreateBlockThrows` (which
counts the request first, as the code does), `Release`.  **`BlockLimit`** is the
limit that it shares with the next module.

**`BlockManagerThreads`**: the same operations for several threads, each read and
each write of a counter being an action, with the value read kept per thread.
`_blocks` is a set; two threads that change it at once set `corrupted`.
`SerialSpec` lets one call run at a time and implements `BlockManager` (the
refinement mapping completes the call in progress); `Spec` is the code.

**`BlockLayout`** (`lib/block.cpp:125-431`): the contents of a block as a sequence
of cells (a value, or one of the markers AA, BB, CC, DD) and the bytes used.  It
has the room check of values and the missing one of markers.

**`BlockScan`** (`lib/operatornode.cpp:1268-1497`, `lib/block_iterator.cpp:43-146`):
three groups of actions.  `Reader` is the reader thread: `NextLine`, `AddValue`,
`AddToNextBlock` (hand over the full block, take a new one), `EndLine`, `Finish`,
`NotifyEnd`, the exceptions and the accesses that may go wrong.  `Query` is the
thread that pulls: `Open`, `NextRow`, `BeginRow`, `ReadValue`, `SwitchBlock`,
`TakeBlock`, `WaitForBlock`, `EndOfRows`, `UseRow`, and the destruction of the
scan member by member in the order of the declarations (`DropStream`,
`DropPrevious`, `DropCurrent`, `StopReader`, `JoinReader`).  `Environment` starts
scans, abandons them and wakes the consumer spuriously.  A critical section
under `_queueMutex` is one action; everything else interleaves.  Undefined
behaviour sets `fault` and stops.  It uses `BlockManager` by INSTANCE.

**`RowStream`**: what the operator above a scan may rely on: the rows of the file,
once, in order, then the end.  What a row is (`RowsOf`): the first values of the
line that can be stored, as many as there are columns; a row after it follows
only if the line ends with it (`FillsRow`).  So a line with an error may let the
scan fail, or, with as many values too large as too many, read as a row whose
values are shifted.

**`RowCopies`** (`lib/block_iterator.cpp`): what the iterators that keep their input
have in common: `PushBlock`, `AddToCurrent`, `AddToNext`, `AddThrows`, the markers,
reading a row from a position on (`ValuePositions`, `Complete`, `RowAt`), and giving
the blocks back.  The operations are actions that the next modules compose
with their own.

**`HashJoin`** (`lib/block_iterator.cpp:792-982`, `lib/operatornode.cpp:971-1006`):
pulling the right input, copying it value by value to blocks (`CopyValue`,
`CopyToNextBlock`), entering keys, looking up the key of each left row,
following a row over block boundaries, exceptions, and the destructor that
gives the blocks back.  The right input's own blocks are the field `block` of its
rows: when the input moves two blocks on, what points into the first is gone.
**`EquiJoin`** is the promise: each pair of rows with equal keys once, left rows
in order.  Its equality is that of the join, not that of a condition (section 7).

**`NestedLoopJoin`** (`lib/block_iterator.cpp:148-281`, `lib/operatornode.cpp:808-914`):
the first left row meets the rows of the right input while these are copied
(`PullRight` ... `EndRow`); for each further left row the iterator is rewound
(`NextLeft`) and the rows are read back (`ReadRow`, `EndOfBlocks`).  The condition of
an inner join is a set of pairs of rows (and one of pairs for which it is NULL).
**`CrossProduct`** is the promise: the selected pairs, in the order of both inputs.

**`RowOperator`** (`lib/operatornode.cpp:92-190, 1009-1070`): the statement, and the
operators below the one that is modelled: `LimitNext` and `UnionNext` are
`getNextRow()` of a limit and of a union, with their counters.  **`SortedRows`** copies all rows, sorts their
positions by any order that the comparator allows (`Orderings`; with NULLs it is
no strict weak order and sorting is undefined), and reads the rows back.
**`GroupedRows`** makes each row a step of the functions of its group, clones the
functions for a new group into blocks of their own, and writes the results to
blocks; an aggregation without GROUP BY has one group and one block.  The eight
aggregation functions are in the same module, with the row that a kept string
still points into.  **`RowOperators`** begins with the extended projection, which
evaluates the select list into a block that the iterator gets when it is full; it
reads from there while the operator goes on with a new one.  Then it runs one
statement with one of the operators, to its end or abandoned, and says what it
should deliver.

**`Expressions`** (`lib/variant.cpp`, `lib/typeoperations.cpp`, `lib/visitor.h`): values
of all data types and NULLs under the typed operations and casts, with the pairs
of types that an operation is registered for (`TypesOf`); a value is its type and
a number.  What characters say is given by four constants: the number that a string
begins with (`Numerals`), the date or time that it is read as (`Readings`), the string of
a value (`Printed`) and of two strings one after the other (`Joined`).  A condition is
a tree; `Code` is the instruction list that `ASTInstructionStackVisitor` makes,
`Collected` the columns that `ASTExpressionVariableVisitor` finds, and `Meaning`,
which maps no code, the value by three-valued logic.  **`SelectOperator`**
(`lib/stack_machine.cpp:49-341`, `lib/operatornode.cpp:1149-1198`): pull a row, fill
the variable store column by column (its vector with size and capacity), run
one instruction after the other on the stack, test the result.

### The catalog

**`Catalog`** (`lib/database.cpp`, `lib/table_executions.cpp`, `lib/file_mapping.cpp`):
the content of each file (absent, broken, or a value), the tables and mappings
in memory, and how far a statement has got.  Opening a file empties it; the text for
it is made afterwards, which may throw (`RefuseTable` for `Unprintable` tables,
`RefuseName` for mappings); writing may fail unnoticed; `Stop` may come at any point;
`Start` reads the directory, or fails (`StartFails`) if a file cannot be read.
`damage`, `stale` and `refused` record what went wrong, for the properties.

**`CatalogFiles`** (`lib/base/json_parser.cpp`, `json_object.cpp`): `nextLexeme` is the
tokenizer on characters, `ReadJson` one step of the parser with the stacks of the
callback.  `Documents` are the sequences of lexemes of JSON's own grammar, defined
apart from the parser, and `Tree` what they stand for.  Over that the files
themselves (`lib/tabledata.cpp:104-210`, `lib/file_mapping.cpp:90-175`): the
writers as texts and the readers on what the parser made of them; `StopWriting`
cuts the file within any lexeme.

### SQL

**`SqlSyntax`** (`lib/sql_lexer.*`, `lib/sql_ast.h`): words with their tokens, and the
classes of nodes with what their members may be.  **`SqlParser`**
(`lib/sql_parser.cpp`): what each function of the parser does for the token it is
called with, as a sequence of steps; then the parser that takes them, one action
for each kind (`expect`, `CanExpect`, `CallFunction`, `BuildNode`, `AddTable`,
`BindIdentifier` ...), with the open symbol tables as a stack.  **`SymbolTable`**
(`lib/typeoperations.cpp:1358-2037`, `lib/symboltable.cpp`): the types of operations;
the symbols as places of a heap, because tables, identifiers and select items share
them and renaming one renames it for all.  In the same module
(`lib/validation_visitor.cpp`, `lib/execution_plan_creator.h`): what is refused, and
which operators are connected, the operator made last being the visitor's state.
**`SqlPrint`** (`lib/sql_astexpressionvisitor.h`, `lib/sql_astdump.h`):
the three printers.  **`SqlStatements`** (`lib/execution_engine.h`,
`lib/execution_plan_creator.cpp`) composes them: a text is parsed, resolved, planned,
printed, and what was printed is parsed again; CREATE TABLE keeps its CHECK, which
is printed and parsed.  Its second half maps no code: the tree by precedence, what
a name can mean in its scope, the operator that a clause asks for.

### Texts

**`Characters`** are numbers.  **`CsvText`** (`lib/base/csv_parser.cpp`,
`csv_string_parser.cpp`): the buffer with its refills, `SkipHeader`, `ParseLine`, one
action per character of a field, the exceptions and what is read after them.
**`Calendar`** (`lib/base/date.cpp`, `time.cpp`, `timestamp.cpp`, `duration.cpp`): the
operations on day numbers and milliseconds, as the set of what may be returned
(empty for an exception), the formats and the readers.  The second half of `CsvText`
is a value that is taken from a row, changed by operations, written with a format
and read again.  **`FieldTexts`** begins with the patterns of LIKE
(`lib/base/regexp.cpp`): the states of the automaton are appended while the pattern is
read, exactly as `_states` grows, and matching is the work list of states.  Then it
composes: a file is parsed, and the values of its rows go to a pattern or to date
operations, or a file of the catalog is read.

### Threads

**`ThreadPool`** (`lib/base/thread_pool.cpp`): what callers do (`BeginStart`, `BeginStop`,
`BeginEnqueue`, `BeginDestroy`), the rest of a call (`Spawn`, `Notify`, `Join`,
`EndStop`, `PushTask`, `Free`), which a task may make as well, and the threads
(`Take`, `Doze`, `Sleep`, `TimeOut`, `Leave`, `FinishTask`, `TaskThrows`).  `Race` is two
calls that change the vector of threads at once.

**`SignalHandler`** (`lib/base/detail/posix/signalhandler.cpp`): `Listener` is the thread
(`LookAtQuit`, `Catch`, `Intercept`, `OnSignal`, `EndCalls`), `Shutdown` the destructor
(`Kill`, `JoinListener`), `Program` sends signals and makes and ends guards.
`removeHandler()` is what `std::remove()` without `erase()` does to a vector.

## 4. The runs

| run | shows |
|---|---|
| `threads` | calls of the block manager that do not overlap are the atomic operations that the other modules assume; no task of the pool is lost or run twice, and `stop()` waits, apart from the named cases; a handler with a guard is called and exists; `stop()`, the tasks and the shutdown come to an end |
| `block_manager_threads` *(violated)* | without a lock an update is lost and the count differs from the blocks for good |
| `block_scan` | with enough blocks: one owner for each block, a block handed over is final, no access to a released block, rows complete and in order, all blocks returned, the scan always ends |
| `block_scan_limit` | what is still true after a block was refused in the reader thread; the manager's count and limit |
| `scan_abandoned` *(violated)* | a LIMIT destroys the stream while the reader thread reads from it |
| `hash_join` | the join delivers the pairs with equal keys, ends, and gives its blocks back, however it ends |
| `nested_loop_join` | every left row meets the same right rows in the same order, from the input or from blocks; what a second left row can bring to light; all blocks come back |
| `row_operators` | sort, GROUP BY, aggregation and projection deliver what their clauses ask for over LIMIT, OFFSET and UNION; which blocks stay behind; when they fail |
| `select_operator` | the rows selected are those for which the condition is true; each exception, each access outside the store and each division by 0 is explained |
| `catalog` | memory and directory agree between statements through failures, kills and restarts; what may happen to a stored schema |
| `sql_text` | the tree is that of the precedence, names mean the columns they should, every clause has its operator, and all that a CHECK or a query loses on its way through text is known |
| `field_texts` | what is read, matched, computed, written and read back is what the text, the pattern and the calendar mean; what is not is told by the text |

A property whose name ends in `Explained` lists every circumstance under which
something bad can happen; outside them the run shows that it does not.  The
types of the variables are conjuncts of the modules' `TypeOK` operators; the
proofs use them.

**Bounds.**  Blocks have 11 bytes, the smallest size in which a row of three small
values, a row cut before, between and after its values, two markers behind one
row, and a value that fits into no block all occur.

- *Scans.*  Twelve files (three columns, `MaxActiveBlocks` 14, which no scan reaches)
  and six (two columns, `MaxActiveBlocks` 3, which every file can reach) cover
  these cases; two scans follow each other (`MaxScans`), so that what the first
  leaves meets the second.
- *Joins.*  Two joins (`MaxJoins`) share a limit of 4 blocks, which a right input of
  three rows can exhaust; the right input of a nested loop join is any table of
  up to two rows of six kinds (small values, a full block, a cut in the middle, a
  value that fits into no block at either end) or one of three rows.
- *Row operators.*  Tables of two columns and up to four rows with numbers that are
  equal, NULL or 0, strings, and values of every size that matters; limits and
  offsets within the rows and beyond them; six blocks, of which three to six may be
  held by others, so that each of the first requests is refused in some statement.  A function takes 3 bytes:
  two share a block, a third starts a new one.
- *Conditions.*  Judged over all sequences of two of four rows, because only the
  state that a row leaves behind can matter to the next; the conditions nest two
  operators in all combinations that the instruction set distinguishes, divide
  by columns that may be 0 or NULL, with and without a guard beside them, and put
  dates, times and timestamps beside each other, strings and truth values.  The
  strings include one date in another spelling, so that the order of strings and
  the order of dates differ.
- *Catalog.*  Four names (a system table, another name with the prefix `SYSTEM_`, one
  that a mapping may have and one that it may not), three schemas (one that can be
  written and read, one that cannot be read, one for which no text can be made), two
  mappings, one of them unreadable, and no bound on statements, kills and restarts.
- *SQL.*  Statements like those of `test/sql_parser_test.cpp`, around them what the
  tests leave out (every pair of seven infix operators, at least one of each level,
  with signs and NOT, with and without parentheses; aliases, prefixes, subqueries
  and unions that share names), and any three of eight words behind SELECT and
  behind FROM.  The database has
  two tables of its own with one column name in common, so that ambiguity occurs.
- *Texts.*  Buffers of 8 characters (`BufferLength`): in some file each place of a
  line, a quote, a line end falls on the end of a buffer; a string buffer of 24.
  All patterns of up to four parts of a core alphabet, longer ones with nested groups,
  and sets in pairs, broken ones among them, on all short strings; up to two operations
  (`MaxOperations`) on dates at the ends of months, years, leap years and of the
  range of years.  Files of the catalog are cut within every lexeme; JSON texts are all
  sequences of up to seven (`MaxLexemes`) of 18 pieces, enough for an array in an
  object in an array.
- *Threads.*  The three parts of `threads` share nothing, so each behaviour is one of
  one part, chosen at the start.  The manager: six calls of two threads (`MaxCalls`) at a limit of 2
  with counters modulo 8 (`WordSize`).  The pool: two threads, two callers, two
  starts (`MaxStarts`) and one task (`MaxTasks`) besides those that tasks enqueue.
  The handler: two handlers, two signals, two registrations and two signals sent.
  `CountsLiveBlocks` needs three calls.

**Fairness.**  `BlockScan` assumes weak fairness of each of the two threads: the
operating system runs a thread that can run.  Nothing is assumed of the
environment; a waiting consumer is woken by `notify_all()` only (a spurious
wakeup may come but is not relied on).  `HashJoin` and
`NestedLoopJoin` assume that a statement that can take a step takes one.  `MCThreads` assumes it of every thread
of the pool, of whoever is in a call of the pool, of the thread of the signal
handler and of its destructor; no caller has to call anything, no signal has to
come.  That a sleeping thread of the pool wakes up is its time-out of 150 ms, a
step of the thread itself.  The other modules assume no fairness and state no
liveness.  Deadlock is not checked where the
bounds, a finished text or undefined behaviour stop the model (`threads`,
`field_texts`, `block_manager_threads`).

## 5. What is proved

All theorems hold for every value of the constants that satisfies the module's
ASSUME: any limit, any set of files, any block size, any catalog, any pool.

- **`BlockManagerProofs`**: `TypeCorrect`, `AccountingHolds`, `LimitHolds`.  The
  invariant is their conjunction: that the number of a new block is not in use
  comes from the types, and that the limit is kept needs the accounting, since
  the code compares the counter and not the blocks.
- **`BlockScanProofs`**: `ManagerRefined`, that a scan uses the manager through its
  two operations only; `ManagerAccountingHolds`, which follows from it and the
  theorems above, without a second proof about the counters; `TypeCorrect`.  The
  types are not inductive: `TypeIInv` adds that the parser is inside the file
  (`LineExists`), that a reader that has not started left nothing in the queue
  (`NotStarted`), that the iterator has a block where it reads one (`HasBlock`)
  and that the pointers of a row lead to cells that exist (`RowPointers`).
  In the same module `OneOwnerHolds` (`OneOwner` is inductive together with
  the types, split by who takes the step: `ReaderOwner`, `QueryOwner`,
  `EnvironmentOwner`), `HandedOverHolds` and `NoStrayAccessHolds`, which follow
  from it, and `MarkersHold`, whose steps are the two ends of the queue.
  Then what is in the blocks.  `RowsBeforeLimitHolds` and
  `RowStreamImplemented` rest on `ScanIInv`: as long as no block is refused, the
  blocks are numbered in the order of the queue (`Numbering`); their cells, one
  block after the other, are the storable values of the file (`ChainOK`: each cell
  follows the one before it, each block the one before it); the reader goes on
  where they end (`ReaderAt`); and the iterator stands where the rows delivered so
  far end, its half-read row being the values of a line up to that place
  (`IteratorAt`).  The refinement has `[]~limitHit` as hypothesis: after a refusal
  it is false (section 7), and `RowsBeforeLimit` says what remains.
  `NothingLostHolds` adds a `Ledger`: of each block, who has it and who has let go
  of it.  `FaultsExplainedHolds` needs the sizes: a block that holds values of one
  line only has the sum of their sizes (`Weighed`), so that a row that reaches into
  a third block has filled the second (`RowHeld`), which a line shorter than a
  block cannot; and wherever a marker is written its byte is there (`RoomLeft`).
- **`RowCopiesProofs`**: what each operation of `RowCopies` keeps, so that the
  proof of an operator only sorts its actions by the operation they perform.  Of
  the blocks: that those of the iterator exist and are its own, each once (`Owned`, or
  `Filed` where others have blocks too).  Of
  what is written: that it fits (`Written`, `Stored`, `Room`).  Of what is read back: `Memory`
  is the cells of the iterator's blocks; a row is `Copied` up to a column if a reader
  at its beginning finds these values one after the other, over the markers
  between blocks, and then comes to the place where the next one is written; one
  with a value too large for any block is cut there.  Adding a value keeps this,
  and the marker behind the row makes it `Spans`, which no later write changes
  (`SpanGrows`).  `ReadsSpan` says what the reader gets: from where a row begins it
  is complete exactly if its values fit, and then it is that row and the
  marker is where the reader stops.  So copying and reading back agree
  for every size of block and value, wherever a block ends.  It assumes that a
  block has two bytes at least (`CopiesAssumption`; the engine's have a megabyte).
- **`HashJoinProofs`**: `BlocksGivenBackHolds`, `ManagerRefined`,
  `FaultsExplainedHolds`, `EquiJoinImplemented`.
  `BlocksGivenBack` only speaks of a closed join; what is inductive is `Owned` at
  every point.  For the faults, every marker fits because each point of the
  copying has one or two bytes to spare (`RoomLeft`), and only rows that were pulled
  are in the table, so that a key that is gone was pulled two blocks ago.  For the
  refinement: the table has one entry for each row that was copied, with its key
  (`Entries`); where the entry points the row stands (`Rows`); and what was delivered is
  the matches of the left rows before this one and those of this one that are not
  in `range` any more (`Results`).  It assumes that a row has the key column
  (`JoinAssumption`).
- **`NestedLoopJoinProofs`**: `BlocksGivenBackHolds`, `ManagerRefined`,
  `FailuresExplainedHolds`, `CrossProductImplemented`.  One invariant gives the last
  two: there are places `ends`, one behind each row that was copied, such that each
  row stands between two of them (`Laid`) and behind the last is the row that is
  copied, nothing yet, or the end of all rows (`Follows`); and a number `k` of right
  rows that the current left row has met, such that the iterator is behind row `k`
  (`Reader`) and the pairs delivered are the selected ones among those met
  (`Handed`).  A value is missing only where a row is cut, and the end is found
  at once only if there is no row.  It assumes that all rows of a table have the
  same number of columns, at least one (`JoinAssumption`).
- **`RowOperatorsProofs`**: `BlocksExplainedHolds`, `InputExplainedHolds`,
  `SortExplainedHolds`, `ProjectionExplainedHolds` and, from these, `RowsExplainedHolds`,
  for every statement, block size and limit.
  *Blocks* (`RowIInv`): for the operators that keep their rows a `Ledger` says that the
  blocks that exist are those of others, of the iterator and of the functions,
  each once, and `KeepShape` what is left of them at the end.  A projection gives blocks
  back while it goes on, so it needs their contents: all but the last end with a
  marker (`ProjectContents`), only those from the one before the one being read on exist
  (`ProjectLedger`), and a row points into these two (`ProjectRead`).  That fails once
  a row goes through a whole block, with values of its own only; this block stays as it
  is (`Parts`), and `LargeRows` is what is seen of it.
  *Input* (`InputInv`): the counters of LIMIT, OFFSET and UNION are a function of the
  number of rows pulled, which are the first of those the clauses leave; `EndKnown`
  says who has seen the end, so that nobody asks again.
  *Sort* (`SortInv`): a sequence of rows that starts where the positions say
  (`RowsStand`, over `Copied` of `RowCopiesProofs`), each once (`EachOnce`), in the order
  pulled until it is sorted, then `Arranged`.  That the code's comparator sorts by the clause
  needs that no column is NULL (`RankedRows`).
  *Projection* (`ItemInv`): there are places `ends`, one behind each row whose list was
  evaluated, and each row is found between two of them (`RowsEvaluated`); behind
  the last is the row being evaluated or nothing (`RowFollows`); and the reader is
  between two rows, within one, or waits for the next block in the middle of one
  (`RowReader`), what it has read being the values of that row.
- **`GroupedRowsProofs`**: `AggregatesExplainedHolds`, for every statement, block size and
  limit.  The invariant (`GroupIInv`) has two halves.  While rows are taken (`GatherInv`): rows of
  different groups differ in a key and each row taken is in a group
  (`GroupsApart`, `Covered`), and each function `Reflects` the rows of its group: what
  it keeps is the sum, the count, the smallest ... of their values, in whatever order
  they came; MIN and MAX may point to the row that they chose.  What `Finalized` makes
  of that is what the function means of these rows (`FinalizedExplained`).  The sums
  are folds of the community modules; `SumFirst` and `SumAdds` say of them what a proof
  needs, by an induction over cardinalities.  While results are written (`WriteInv`):
  the block for them is empty until then (`ResultsBlank`); then each group before the
  current one has its row between two places, and of the current one there is a part
  (`ResultRows`, `ResultsAhead`), with the block that a GROUP BY has ahead (`Ahead`).
  A result may be lost (it fits into no block) or, without a GROUP BY, dropped (it does not fit
  into this one): the bytes of the one row are counted (`BytesCounted`), so that a
  dropped value shows that the row is larger than a block.  Then the rows
  are read from where they begin (`ResultsRead`) and are those of the groups in turn
  (`DeliveredGroups`).  That a value can only be gone for MIN and MAX of strings
  (`KeptExplained`) follows from what the functions reflect.
  Assumed, here and above, are the types of statements (`StatementsAssumption`; among them that a value
  passes through a group only where the statement groups by it, which
  `GroupingOperatorNode::connect` enforces), that a function object has a size and a
  number fits into a block (`FunctionsAssumption`), and `CopiesAssumption`.
- **`ServicesProofs`**, the catalog: `TypeInvariant`, `TablesInvariant`, `StoredSchemasTheorem`,
  `MappingsTheorem`, `BrokenFilesTheorem`.
  `TablesAgree` speaks of the points between statements; in the middle of a
  CREATE the file is there and the entry is not.  The invariant says what holds
  at every point: each table is `Settled`, except the one of the statement under
  way, whose file is empty and of which memory knows nothing (`InFlight`); what a
  CREATE TABLE without a text left (`Leftover`) stays a broken file, so that no start
  can succeed before a CREATE TABLE of the same name does; and a
  mapping that is being created has a file (`MappingInFlight`), without which
  reading it back could put a missing file into memory.  For the mappings the
  same is said by `MappingsMatch` and `NewMapping`, and by `BrokenInv` for the files
  that are not whole.
  The thread pool and the signal handler: `PoolExplainedHolds`, `PoolTypes`, from `PoolAssumption` (the
  pool has a thread, callers are no numbers) alone.  That `stop()` waits is no
  inductive statement: who joins the threads is in the middle of its loop.
  `Joining` says that it has joined all threads before the next one; `OneAtATime`
  that, where no `start()` met a `stop()`, one of them at most is under way and
  `_quit` says which, so that the vector does not grow under the loop; `Places`,
  that a thread exists exactly for each place of the vector; `TasksRun`, that a
  thread in a call runs a task that makes this call, which is what the reasons
  for a failure come down to; `Destroying`, that the destructor is alone.
  `HandlersTheorem` is about the signal handler: what `std::remove()` leaves in a list
  has no handler that was not in it (`RemovedSet`); each handler still to be called
  has a guard, lost it during the calls or was left in a list (`CallsExplained`).

Induction: the theorems of the library take an operator and cannot be used.
Where an induction over numbers is needed it is one over the elements of a set
(`NatSetInduction`), from the library's theorem that a well-founded relation has
minimal elements; with it `LineSums` unfolds the recursive `LineBytes`, and `SumGrows`
adds up the results of a row.

Only model-checked: the liveness properties (`ScanEnds`, `JoinEnds`, `ThreadsEnd`),
which the prover cannot treat under fairness; `ImplementsBlockManager`; and what is
recursive over data: `SelectOperator`, the modules of SQL and of texts.

## 6. Disagreements that a run shows

`PROJECT.json` lists them under `findings`: the unprotected counters, and the
stream that is destroyed too early.

## 7. Disagreements that no run of its own shows

Met while modelling.  The models have the behaviour of the code; the passing
runs name each case in an `...Explained` property or as an exception, or (where
it says so) it is outside the model.

### Blocks, scans, joins

- `lib/block.cpp:55`: a refused request is counted in `_activeBlocks` and never
  given back, so after refusals `createBlock()` throws "exceeded maximum number of
  active blocks" (line 59) with fewer blocks in existence (`Accounting`).
- `lib/base/csv_parser.cpp:105`: the catch that reports "ERROR: skipping line" also
  takes the exception that `createBlock()` throws in the reader's callback
  (`lib/operatornode.cpp:1347`).  Nothing is skipped: a value is lost and the block
  that was already queued is filled and queued again, so that rows mix values of
  two lines, or a block is used after its release (`RowsBeforeLimit` says what is
  still true then).
- `lib/operatornode.cpp:842`: a cross or inner join whose right input has no rows
  uses a null row for the second left row (`FailuresExplained`);
  `test/join_test.cpp:54` joins tables with rows only.
- `lib/block_iterator.cpp:182`: a value that fits into no block is dropped without a
  word; the first left row still meets it, the second fails with "missing value
  separator" (`FailuresExplained`).
- `lib/variant.cpp:589`: keys are hashed by their own type, so a hash join of an INT
  with a REAL column finds nothing, and throws for 0 and 0.0 (`ImplementsEquiJoin`
  says so: its equality is by type).
- `lib/block_iterator.cpp:868`: a string key of the hash table points into a block
  that the right input releases (`FaultsExplained` of `HashJoin`); the grouping
  iterator copies such strings (line 668).

### Row operators

- `lib/block_iterator.cpp:284`: with NULLs in the column the comparator of a sort is
  no strict weak order, for which `std::sort()` is undefined (`RowsExplained`).
- `lib/aggregation_functions.cpp:229`: MIN and MAX copy a string only from the second
  one on: the first stays a pointer into a block that the input releases
  (`AggregatesExplained`).
- `lib/block_iterator.cpp:584`: keys that are NULL are equal to nothing, so each is a
  group of its own; COUNT over no value is NULL instead of 0 (`AggregatesExplained`).
- `lib/operatornode.cpp:714`: a projected row that touches three blocks loses the
  first of them, and the values in it (`LargeRows`); a projection that is not read
  to its end keeps the block it fills (`BlocksExplained`).
- `lib/operatornode.cpp` (`AggregationOperatorNode`): results that do not fit into the
  one block are dropped while they are written, and reading them fails; if the
  input fails its block is never given back.
- `lib/operatornode.cpp:173`: the counter of LIMIT is 0 after the end, which means no
  limit: a further call would return rows again (`InputExplained`: nobody calls).

### Conditions

- `lib/stack_machine.cpp:328`: LIKE reads its operand with `getTopValue()` and does not
  take it off the stack, so that `i >= 2 AND s LIKE p` is the LIKE alone
  (`SelectsByMeaning`, `FailuresExplained`); `test/stackmachine_test.cpp:877` tries
  LIKE only as a whole condition.
- `lib/typeoperations.cpp:69, 77`: nothing looks at the divisor of an INT division or
  remainder; 0 stops the program.  `i <> 0 AND j / i > 1` does not help, since both
  sides of AND and OR are computed (`DividesByZero`).
- `lib/typeoperations.cpp:920`: `x IS FALSE` is never true.
- `lib/typeoperations.cpp:1064`: `5 || 'x'` is `'x5'`: a string comes before a value of
  another type on either side of CONCAT (`TextFirst` in `SelectsByMeaning`), as
  `test/typeoperations_test.cpp:96-97` expects.
- `lib/stack_machine.cpp:250`: the bounds of BETWEEN are put in order before they are
  compared with the value, two strings therefore in the order of strings, even where
  the value is a date, whose texts in different spellings have another order (`BoundsAsText`).
- `lib/variant.cpp:528`: beside a NULL a REAL counts as true if it *is* zero.
- `lib/operatornode.cpp:1168`: an unknown condition ends the statement with
  "variant is null" (`FailuresExplained`), although
  `test/stackmachine_test.cpp:688` expects unknown results.
- `lib/visitor.h:250`: a column that occurs in IN only is never copied to the
  variable store (`FailuresExplained`); `test/sql_parser_test.cpp:203` parses such a
  condition.
- `lib/stack_machine.cpp:57`: capacity is asked for where size is meant; a fourth
  column is assigned to memory that holds no object (`FailuresExplained`).

### The catalog and its files

- `lib/table_executions.cpp:145`: the mapping file is emptied before the mapping is
  refused, which a digit in the table's name is enough for (`BrokenFilesExplained`,
  `damage`); what CREATE MAPPING writes a second time reaches memory with the next
  start only (`MappingsAgree`, `stale`).
- `lib/tabledata.cpp:104`: strings go into the file as they are.  A `"` or a backslash
  in a DEFAULT, a CHECK or a delimiter, or a `"` in a pattern, makes a file that no
  later start can read, or that says something else (`FilesReadBack`); the
  backslashes of a pattern are escaped (`lib/file_mapping.cpp:158`).
- `lib/types.cpp:229`: the texts of `<` and `<=` are exchanged: `CHECK (a < 1)` is kept
  as `a <= 1`, which is read at the next start (`ReadBackExplained`).
- `lib/tabledata.cpp:222`, "TODO LFG: needs the real function registry": a function in
  a CHECK is read back as a column, or not at all; of LIKE, `lhs'pattern'` is
  written; a unary operator, BETWEEN and IN are written without parentheses, a
  quoted name without its quotes (`ReadBackExplained`).
- `lib/table_executions.cpp:96`: a table's file is made before the text for it.  For a
  DEFAULT of a type other than a string (`lib/tabledata.cpp:136`) and for a CHECK with
  UNKNOWN or IS NULL there is none: the statement fails, the table is not in memory,
  and its empty file makes the next start fail, unless a CREATE TABLE of the same name
  has succeeded before (`TablesAgree`, `BrokenFilesExplained`, `refused`).
- `lib/base/json_object.cpp:134`: an array in an array takes a key from an empty stack
  (`JsonByGrammar`); of a key that comes twice the first value is kept, and of
  several objects on the top the last.
- `lib/base/json_parser.cpp:220`: a lone `-` is an `std::invalid_argument`, which the
  catch at line 425 does not take.

### SQL

- `lib/sql_parser.cpp:1322`: a sign or NOT applies to all that follows it within its
  parentheses: `-a + b` is `-(a + b)` (`TreeByPrecedence` has this rule).
- `lib/sql_parser.cpp:943, 1382`: the comma between the members of IN or of a list of
  parameters may be missing; a `CONSTRAINT name` of a column renames the column
  (line 384); a CAST to TIME or TIMESTAMP expects the word DATE and throws.
- `lib/sql_astdump.h:716`: the alias of a subquery is not printed, HAVING and the
  quantifier of GROUP BY neither; `EXPLAIN EXEC` is printed as `EXPLAIN AST`
  (line 615); EXTRACT prints the number of its field (`PrintedQueryExplained`).
- `lib/symboltable.cpp:147`: an alias renames the symbol that other items share; a
  prefix that is a table of the database is taken for it even if FROM does not
  have it; a second anonymous subquery is refused; what follows UNION in a
  subquery is never resolved (`NamesMeanColumns`).
- `lib/validation_visitor.cpp:205`: "where condition has to be a boolean value
  expression", but the visitor never comes to the WHERE of a subquery, nor to ON
  (line 186) or HAVING (`ConditionsAreBoolean`).
- `lib/execution_plan_creator.h:276, 324`: natural and outer joins, HAVING and
  DISTINCT are parsed and have no operator; after such a join the next operator
  reads from what was made before (`EveryClausePlanned`).
- `lib/sql_ast.h:186`: columns of a union differ only if their names differ *and* their
  types do not.  `SELECT *` from a subquery with a UNION behind it takes the first
  of an empty vector (`AsteriskOfNothing`).
- Outside the model: the rules of the lexer for TRUE, FALSE and UNKNOWN
  (`lib/sql_lexer.cpp:296`) have no word boundary; `1 || 'a'` concatenates in reverse
  order; a CAST of a string to BOOLEAN looks at the pointer and is always true.

### Texts of values

- `lib/base/csv_parser.cpp:132`: `parseLine()` promises "@return true if there are
  more lines to parse, false otherwise" (`csv_parser.h:109`), but returns true for
  ever for a file with a header line only: markers run over the end of the block
  (`FaultsExplained`); a header without a newline is read for ever (line 307).
- `lib/base/csv_parser.cpp:106`: "ERROR: skipping line"; the values reported before
  the error stay.  An error in a number leaves the parser in the middle of the
  field, one in a date or a string takes the field away and shifts the types of
  the others; a field too many is read with a type behind the end of the vector
  (`CsvFilesExplained`).
- `lib/base/csv_string_parser.cpp:67`: the string buffer is resized to the size it
  has, so that a longer string runs over its end.
- Dates and times are read by place: `1970-09-5` is some day, what follows is ignored;
  a lone `-` is the number 0; a quoted empty string is NULL; spaces behind a
  delimiter are not skipped if the buffer ends there (`SpaceAtEnd`).
- `lib/base/date.cpp:445`: `%F` writes the years 10, 100 and 1000 one place off, because
  the comparisons are `>`; milliseconds are never written; `%I` and `%p` are wrong
  at 12 (`MomentsReadBack`).
- `lib/base/date.cpp:354`: going back over the first of January asks for the length of
  month 0 and throws; `lib/base/time.cpp:300` ignores the sign of a duration,
  and adding no seconds (line 285) leaves a time below 0 as it is, which any other
  number brings back into the day; `lib/base/timestamp.cpp:110` gives a time of day the
  year 65535, and one below 0 the hour that is left in a byte; of durations with
  different signs each is greater than the other (`OperationsByMeaning`).
- `lib/base/regexp.cpp:472`: an alternative begins behind the first part of a group, so
  `ab|c` is `a(b|c)`; `a)b` is `a`; a repeated alternative without group, an
  operator without operand or an empty group follow a null pointer; a repetition of
  what may be empty recurses for ever (`PatternsExplained`); ranges count only at
  odd places of a set (`odd`).  `lib/base/regexp.h:64`, "Constructs an empty regular
  expression which will match nothing", but it matches the empty string.

### Threads

- `lib/base/thread_pool.h:84`, "Will wait for thread termination": a second `stop()`
  returns at once; a `start()` that meets a `stop()` revives threads or changes the
  vector that is being joined; a task that stops its pool joins itself; a task
  that enqueues on a stopped pool, or throws, ends the program (`PoolExplained`).
- `lib/base/thread_pool.cpp:67`: the notification is sent without the mutex; a thread
  that has looked at `_quit` and does not sleep yet misses it, and only the 150 ms
  of `wait_for()` save it (`ThreadsEnd`).
- `lib/base/detail/posix/signalhandler.cpp:176`: `std::remove()` without `erase()` leaves
  what was last in the list, the removed handler or another one twice, although
  `signalhandler.h:100` says "Removes a SignalEventHandler instance"; handlers are
  called from a copy of the list, after the mutex was given back: one that is
  destroyed meanwhile is called all the same (`HandlersExplained`).  `_quit` is a
  plain bool.  `isStopSignalHandling()` and `stopSignalHandling()`
  (`signalhandler.h:117, 124`) have no definition.

## 8. Where the models stop

- `BlockScan`: the counters of the manager are atomic (that they are not is
  `BlockManagerThreads`'s subject).  A line with an error is a line with more or
  fewer values; which field is wrong is the subject of `CsvText`.  `_continue` is
  read without a lock: the reader may see an old value, so `NextLine` does not ask
  for it.
- `BlockManagerThreads`: what a damaged vector does next is not modelled, only
  that it is damaged.
- `HashJoin`: values that are found are returned in any order; strings hash
  without collisions; the left input only yields keys.
- `NestedLoopJoin`: which pairs a condition selects is given (how it is evaluated is
  the subject of `SelectOperator`); a right row is the sizes of its values.
- `RowOperators`: items of a select list are columns; sums do not overflow; the
  operators below are limit and union over given rows with given blocks.
- `SelectOperator`: quotients of REALs, fractions of a second, the width of an INT, the
  functions other than POW and exceptions of the input are left out; what a string
  says as a number or a date is given by a table (how it is read is the subject of
  `FieldTexts`).
  The growth of `std::vector` is that of libstdc++ (1, 2, 4).  A remainder of the
  smallest INT by -1 is outside the numbers of the run.
- `Catalog`: a file is written in one piece or not at all (that it may end anywhere is
  `CatalogFiles`'s subject); the directory is used
  by one process; a statement that is refused before its first step changes
  nothing and is no action; if the removal of the first file fails nothing has
  changed either.
- `CatalogFiles`: the layout between lexemes is left out of written files;
  a statement creates one mapping, as the grammar has it; a stream does not fail
  while it is read.
- SQL: a text is a sequence of words; identifiers, constants and patterns are a few
  that behave differently; the positions of a row that an operator reads are not
  in a plan; a CHECK is one expression of a table.
- Texts: ASCII; numbers of a field stay small; DOUBLEs are told by their text; the time zone and
  the clock are left out; `addSeconds()` of more than 596 hours, which overflows, is
  outside the operations of the run.
- `ThreadPool`: tasks are of four kinds; a mutex is an action.  `SignalHandler`: which
  handler ends the chain is any; `sigwait()` does not fail.

## 9. What is not modelled

- *Configuration and Lua*: values that are read once at the start through an
  interpreter that is not part of the repository.
- *Logging, exceptions, application and helpers*: wording, output, thin wrappers of
  library calls.
- *linenoise-ng*: a vendored line editor.
- `lib/base/datetime.*`, `dategenerators.*`, `partialdate.*`: used by nothing in the
  program.
- Of partly modelled components `PROJECT.json` says what is missing: how characters
  become words of SQL, output of rows and the scan of the system tables, functions
  that compute a value from their argument or the clock, the console.
