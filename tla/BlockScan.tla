------------------------------ MODULE BlockScan ------------------------------
(***************************************************************************)
(* The table scan: a reader thread (class BlockReader) parses a csv file   *)
(* into memory blocks and hands full blocks over through a queue; the      *)
(* thread that runs the query pulls rows out of them (class BlockIterator, *)
(* owned by TableScanOperatorNode) and releases the blocks behind it.      *)
(* Both use the BlockManager of the engine, which outlives the scan: a     *)
(* later statement scans again.                                            *)
(*                                                                         *)
(* A file is the sequence of the lines after the header line; a line is    *)
(* the sequence of the sizes of the values that parseLine() reports for it *)
(* to onLong(), onString() ...  A line in which the parser found an error  *)
(* has more or fewer values than the table has columns.  The cells of the  *)
(* blocks name the line and the column that the parser was at.             *)
(*                                                                         *)
(* A step that would be undefined behaviour sets fault and ends the        *)
(* behaviour.  The counters of the block manager, which the two threads    *)
(* change without a lock, are atomic here; see BlockManagerThreads.        *)
(***************************************************************************)
EXTENDS Naturals, Sequences, FiniteSets, BlockLayout

CONSTANTS
  Files,           (* the csv files a statement may scan                    *)
  NumColumns,      (* the columns of the table                              *)
  MaxActiveBlocks, (* the limit of the block manager                        *)
  MaxScans         (* bound: the scans that one engine runs                 *)

ASSUME ScanAssumption ==
  /\ Files \subseteq Seq(Seq(Nat))
  /\ NumColumns \in Nat \ {0}
  /\ Capacity \in Nat
  /\ MaxActiveBlocks \in Nat
  /\ MaxScans \in Nat

VARIABLES
  (* the block manager, see BlockManager *)
  blocks, activeBlocks, maxCountActiveBlocks, totalBlocks, sBlockNumber,
  store,      (* block number -> the cells written to it, the bytes used    *)
  (* the reader thread *)
  rpc,        (* where readBlocks() is                                      *)
  rblock,     (* BlockReader::_block                                        *)
  line, col,  (* the value that the parser reports next                     *)
  moreLines,  (* what parseLine() returned                                  *)
  (* shared by the two threads *)
  queue,      (* BlockReader::_blocks                                       *)
  continue,   (* BlockReader::_continue                                     *)
  streamOpen, (* the stream object that the parser reads from exists        *)
  (* the thread that runs the query *)
  cpc,        (* where getNextRow(), or the destruction of the scan, is     *)
  ret,        (* where getNextRow() goes on when it has the next block      *)
  cblock,     (* BlockIterator::_block                                      *)
  previousBlock,
  offset,     (* BlockIterator::_offset, counted in cells                   *)
  endOffset,
  row,        (* the pointers in BlockIterator::_row                        *)
  (* the scans *)
  scans,      (* how many were begun                                        *)
  file,       (* the file of the current one                                *)
  delivered,  (* the rows that the operator above has used                  *)
  outcome,    (* "none", "new", "open", or how the scan ended               *)
  (* history *)
  complete,   (* every scan so far was read to its end                      *)
  limitHit,   (* createBlock() has thrown in the reader thread              *)
  fault       (* the undefined behaviour reached, or "none"                 *)

managerVars ==
  <<blocks, activeBlocks, maxCountActiveBlocks, totalBlocks, sBlockNumber>>
readerVars == <<rpc, rblock, line, col, moreLines>>
iteratorVars == <<ret, cblock, previousBlock, offset, endOffset, row>>
scanVars == <<scans, file, delivered, outcome, complete>>
vars == <<managerVars, store, readerVars, queue, continue, streamOpen, cpc,
          iteratorVars, scanVars, limitHit, fault>>

(* What a step of the reader thread never changes.                         *)
querySide == <<continue, streamOpen, iteratorVars, scanVars, fault>>
(* What a step of the query thread never changes.                          *)
readerSide == <<store, line, col, moreLines, limitHit, fault>>

BM == INSTANCE BlockManager

NoBlock == BM!NoBlock
-----------------------------------------------------------------------------
(* What the iterator finds at an offset of its block.                      *)
TagAt(o) ==
  IF o < Len(store[cblock].cells) THEN store[cblock].cells[o + 1].tag ELSE "??"

Crash(what) ==
  /\ fault' = what
  /\ UNCHANGED <<managerVars, store, readerVars, queue, continue, streamOpen,
                 cpc, iteratorVars, scanVars, limitHit>>
-----------------------------------------------------------------------------
(* No statement has been run yet.                                          *)
Init ==
  /\ BM!Init
  /\ store = <<>>
  /\ rpc = "unstarted" /\ rblock = NoBlock
  /\ line = 1 /\ col = 1 /\ moreLines = TRUE
  /\ queue = <<>> /\ continue = TRUE /\ streamOpen = FALSE
  /\ cpc = "closed" /\ ret = "marker"
  /\ cblock = NoBlock /\ previousBlock = NoBlock
  /\ offset = 0 /\ endOffset = 0 /\ row = <<>>
  /\ scans = 0 /\ file \in Files /\ delivered = <<>> /\ outcome = "none"
  /\ complete = TRUE /\ limitHit = FALSE /\ fault = "none"

(* A TableScanOperatorNode is constructed; the constructor of its          *)
(* BlockReader creates the first block.                                    *)
NewScan ==
  /\ cpc = "closed"
  /\ scans < MaxScans
  /\ scans' = scans + 1
  /\ BM!CreateBlock
  /\ store' = [b \in 1 .. sBlockNumber' |->
                 IF b = sBlockNumber' THEN Empty ELSE store[b]]
  /\ rpc' = "unstarted" /\ rblock' = sBlockNumber'
  /\ line' = 1 /\ col' = 1 /\ moreLines' = TRUE
  /\ queue' = <<>> /\ continue' = TRUE /\ streamOpen' = FALSE
  /\ cpc' = "idle" /\ ret' = "marker"
  /\ cblock' = NoBlock /\ previousBlock' = NoBlock
  /\ offset' = 0 /\ endOffset' = 0 /\ row' = <<>>
  /\ file' \in Files /\ delivered' = <<>> /\ outcome' = "new"
  /\ UNCHANGED <<complete, limitHit, fault>>

(* The constructor gets no block: the statement fails.                     *)
NewScanThrows ==
  /\ cpc = "closed"
  /\ scans < MaxScans
  /\ scans' = scans + 1
  /\ BM!CreateBlockThrows
  /\ UNCHANGED <<store, readerVars, queue, continue, streamOpen, cpc,
                 iteratorVars, file, delivered, outcome, complete, limitHit,
                 fault>>
-----------------------------------------------------------------------------
(* The reader thread: readBlocks(), parseLine() and the callbacks.  A      *)
(* critical section under _queueMutex is one step.                         *)

LineDone == IF file = <<>> THEN TRUE ELSE col > Len(file[line])

(* notify_all(): a consumer in the wait set wakes up.                      *)
Notified == IF cpc = "wait" THEN "woken" ELSE cpc

(* onLong(), onString() ...: the value fits into the block.                *)
AddValue ==
  /\ rpc = "line" /\ ~ LineDone /\ rblock \in blocks
  /\ HasSizeFor(store[rblock], file[line][col])
  /\ store' = [store EXCEPT ![rblock] = Added(@, line, col, file[line][col])]
  /\ col' = col + 1
  /\ UNCHANGED <<managerVars, rpc, rblock, line, moreLines, queue, cpc,
                 limitHit, querySide>>

(* The value does not fit.  Under the mutex the block is closed with the   *)
(* next-block marker, handed over and announced, and a new block is taken. *)
HandOver ==
  /\ rpc = "line" /\ ~ LineDone /\ rblock \in blocks
  /\ ~ HasSizeFor(store[rblock], file[line][col])
  /\ HasRoomForMark(store[rblock])
  /\ queue' = Append(queue, rblock)
  /\ cpc' = Notified
  /\ col' = col + 1
  /\ UNCHANGED <<rpc, line, moreLines, querySide>>

(* What could go wrong: the new block is not made the current one.         *)
AddToNextBlockLost ==
  /\ HandOver
  /\ BM!CreateBlock
  /\ store' = [b \in 1 .. sBlockNumber' |->
                 IF b = sBlockNumber' THEN Opened(line, col, file[line][col])
                 ELSE IF b = rblock THEN MarkedAt(store[b], "CC", line, col)
                 ELSE store[b]]
  /\ UNCHANGED <<rblock, limitHit>>

AddToNextBlock ==
  /\ HandOver
  /\ BM!CreateBlock
  /\ store' = [b \in 1 .. sBlockNumber' |->
                 IF b = sBlockNumber' THEN Opened(line, col, file[line][col])
                 ELSE IF b = rblock THEN MarkedAt(store[b], "CC", line, col)
                 ELSE store[b]]
  /\ rblock' = sBlockNumber'
  /\ UNCHANGED limitHit

(* createBlock() throws.  parseLine() takes the exception for a faulty     *)
(* field and goes on with the next one: the value is lost, and _block is   *)
(* still the block that has been handed over.                              *)
AddToNextBlockThrows ==
  /\ HandOver
  /\ BM!CreateBlockThrows
  /\ store' = [store EXCEPT ![rblock] = MarkedAt(@, "CC", line, col)]
  /\ limitHit' = TRUE
  /\ UNCHANGED rblock

(* parseLine() returns and nextRow() ends the row.  At the end of the file *)
(* the parser has to ask the stream; in a file without lines it finds its  *)
(* buffer empty, does nothing, and returns true.                           *)
EndLine ==
  /\ rpc = "line" /\ LineDone /\ rblock \in blocks
  /\ HasRoomForMark(store[rblock])
  /\ file = <<>> \/ line < Len(file) \/ streamOpen
  /\ store' = [store EXCEPT ![rblock] = MarkedAt(@, "BB", line, col)]
  /\ moreLines' = (file = <<>> \/ line < Len(file))
  /\ rpc' = "loop"
  /\ UNCHANGED <<managerVars, rblock, line, col, queue, cpc, limitHit,
                 querySide>>

(* The loop goes on.  _continue is a plain bool: the reader need not see   *)
(* that the other thread has cleared it.                                   *)
NextLine ==
  /\ rpc = "loop" /\ moreLines
  /\ rpc' = "line"
  /\ line' = IF file = <<>> THEN line ELSE line + 1
  /\ col' = 1
  /\ UNCHANGED <<managerVars, store, rblock, moreLines, queue, cpc, limitHit,
                 querySide>>

LeaveLoop ==
  /\ rpc = "loop" /\ ~ (continue /\ moreLines)
  /\ rpc' = "finish"
  /\ UNCHANGED <<managerVars, store, rblock, line, col, moreLines, queue, cpc,
                 limitHit, querySide>>

(* What could go wrong: the end marker is not written.                     *)
FinishUnmarked ==
  /\ rpc = "finish" /\ rblock \in blocks
  /\ queue' = Append(queue, rblock)
  /\ rblock' = NoBlock
  /\ rpc' = "notify"
  /\ UNCHANGED <<managerVars, store, line, col, moreLines, cpc, limitHit,
                 querySide>>

(* The last block is closed with the end marker and handed over.           *)
Finish ==
  /\ rpc = "finish" /\ rblock \in blocks
  /\ HasRoomForMark(store[rblock])
  /\ store' = [store EXCEPT ![rblock] = MarkedAt(@, "DD", line, col)]
  /\ queue' = Append(queue, rblock)
  /\ rblock' = NoBlock
  /\ rpc' = "notify"
  /\ UNCHANGED <<managerVars, line, col, moreLines, cpc, limitHit, querySide>>

(* What could go wrong: the end is not announced.                          *)
NotifyEndSilent ==
  /\ rpc = "notify"
  /\ rpc' = "done"
  /\ UNCHANGED <<managerVars, store, rblock, line, col, moreLines, queue, cpc,
                 limitHit, querySide>>

NotifyEnd ==
  /\ rpc = "notify"
  /\ cpc' = Notified
  /\ rpc' = "done"
  /\ UNCHANGED <<managerVars, store, rblock, line, col, moreLines, queue,
                 limitHit, querySide>>

(* The parser refills its buffer from a stream that is gone.               *)
ReadClosedStream ==
  /\ rpc = "line" /\ file # <<>> /\ ~ streamOpen
  /\ Crash("stream")

(* The reader writes to a block that the other thread has released.        *)
WriteReleasedBlock ==
  /\ rpc \in {"line", "finish"} /\ rblock \notin blocks
  /\ Crash("write")

(* No marker looks at the size of the block.                               *)
WriteBeyondBlock ==
  /\ rpc \in {"line", "finish"} /\ rblock \in blocks
  /\ ~ (rpc = "line" /\ ~ LineDone /\ HasSizeFor(store[rblock], file[line][col]))
  /\ ~ HasRoomForMark(store[rblock])
  /\ Crash("overflow")

Reader ==
  \/ AddValue \/ AddToNextBlock \/ AddToNextBlockThrows
  \/ EndLine \/ NextLine \/ LeaveLoop \/ Finish \/ NotifyEnd
  \/ ReadClosedStream \/ WriteReleasedBlock \/ WriteBeyondBlock
-----------------------------------------------------------------------------
(* The thread that runs the query: getNextRow() of the scan.               *)

(* The first getNextRow() opens the file and starts the reader thread.     *)
Open ==
  /\ cpc = "idle" /\ outcome = "new"
  /\ outcome' = "open"
  /\ streamOpen' = TRUE
  /\ rpc' = "line"
  /\ UNCHANGED <<managerVars, rblock, queue, continue, cpc, iteratorVars,
                 scans, file, delivered, complete, readerSide>>

(* An exception leaves getNextRow(): the plan is destroyed.                *)
Throws ==
  /\ outcome' = "threw"
  /\ complete' = FALSE
  /\ cpc' = "dropStream"
  /\ UNCHANGED <<managerVars, rpc, rblock, queue, continue, streamOpen,
                 iteratorVars, scans, file, delivered, readerSide>>

(* No file matches the mapping of the table, or it cannot be opened.       *)
OpenThrows == cpc = "idle" /\ outcome = "new" /\ Throws

(* The iterator goes on at w, at offset o of its block.                    *)
GoOn(w, o) ==
  /\ cpc' = w
  /\ offset' = o
  /\ UNCHANGED <<managerVars, rpc, rblock, queue, continue, streamOpen, ret,
                 cblock, previousBlock, endOffset, row, scanVars, readerSide>>

(* getNextRow() of the iterator: without a block it fetches one, otherwise *)
(* it must stand at the end of the row that it returned last.              *)
NextRow ==
  /\ cpc = "idle" /\ outcome = "open"
  /\ \/ cblock = NoBlock /\ GoOn("block", 0)
     \/ /\ cblock # NoBlock
        /\ offset # 0 => TagAt(offset) = "BB"
        /\ GoOn("marker", IF offset = 0 THEN 0 ELSE offset + 1)

NextRowThrows ==
  /\ cpc = "idle" /\ outcome = "open"
  /\ cblock # NoBlock /\ offset # 0 /\ TagAt(offset) # "BB"
  /\ Throws

(* The end marker: getNextRow() returns null, the operators above stop     *)
(* pulling, and the plan is destroyed.                                     *)
EndOfRows ==
  /\ cpc = "marker"
  /\ TagAt(offset) = "DD"
  /\ outcome' = "eof"
  /\ cpc' = "dropStream"
  /\ UNCHANGED <<managerVars, rpc, rblock, queue, continue, streamOpen,
                 iteratorVars, scans, file, delivered, complete, readerSide>>

(* The iterator stands at the next-block marker.                           *)
AtSwitch ==
  /\ cpc = "marker" \/ (cpc = "value" /\ offset # endOffset)
  /\ TagAt(offset) = "CC"

(* What could go wrong: the current block is released in place of the      *)
(* previous one, or the previous one is not replaced.                      *)
SwitchBlockTooEarly ==
  /\ AtSwitch
  /\ cblock \in blocks
  /\ BM!Release(cblock)
  /\ ret' = IF cpc = "marker" THEN "begin" ELSE "taken"
  /\ cpc' = "block"
  /\ UNCHANGED <<rpc, rblock, queue, continue, streamOpen, cblock,
                 previousBlock, offset, endOffset, row, scanVars, readerSide>>

SwitchBlockStale ==
  /\ AtSwitch
  /\ previousBlock \in blocks \cup {NoBlock}
  /\ BM!Release(previousBlock)
  /\ previousBlock' = IF previousBlock = NoBlock THEN cblock ELSE previousBlock
  /\ ret' = IF cpc = "marker" THEN "begin" ELSE "taken"
  /\ cpc' = "block"
  /\ UNCHANGED <<rpc, rblock, queue, continue, streamOpen, cblock, offset,
                 endOffset, row, scanVars, readerSide>>

(* The next-block marker, before a row or inside it: the previous block is *)
(* released, the current one becomes the previous one.                     *)
SwitchBlock ==
  /\ AtSwitch
  /\ previousBlock \in blocks \cup {NoBlock}
  /\ BM!Release(previousBlock)
  /\ previousBlock' = cblock
  /\ ret' = IF cpc = "marker" THEN "begin" ELSE "taken"
  /\ cpc' = "block"
  /\ UNCHANGED <<rpc, rblock, queue, continue, streamOpen, cblock, offset,
                 endOffset, row, scanVars, readerSide>>

(* The values of the row begin.                                            *)
BeginRow ==
  /\ cpc = "begin" \/ (cpc = "marker" /\ TagAt(offset) \notin {"CC", "DD"})
  /\ offset # endOffset
  /\ cpc' = "value"
  /\ row' = <<>>
  /\ UNCHANGED <<managerVars, rpc, rblock, queue, continue, streamOpen, ret,
                 cblock, previousBlock, offset, endOffset, scanVars, readerSide>>

(* getNextValue(); after a switch of blocks inside the row ("taken") the   *)
(* end of the block is not looked for again.                               *)
ReadValue ==
  /\ cpc = "taken" \/ (cpc = "value" /\ offset # endOffset)
  /\ TagAt(offset) = "AA"
  /\ row' = Append(row, [block |-> cblock, index |-> offset + 1])
  /\ offset' = offset + 1
  /\ cpc' = IF Len(row') = NumColumns THEN "use" ELSE "value"
  /\ UNCHANGED <<managerVars, rpc, rblock, queue, continue, streamOpen, ret,
                 cblock, previousBlock, endOffset, scanVars, readerSide>>

(* The markers are not where they are expected.                            *)
RowThrows ==
  /\ \/ cpc = "begin" /\ offset = endOffset
     \/ cpc = "marker" /\ offset = endOffset /\ TagAt(offset) \notin {"CC", "DD"}
     \/ cpc = "value" /\ (offset = endOffset \/ TagAt(offset) \notin {"AA", "CC"})
     \/ cpc = "taken" /\ TagAt(offset) # "AA"
  /\ Throws

(* The operator above uses the row that getNextRow() returned, through the *)
(* pointers into the blocks.                                               *)
UseRow ==
  /\ cpc = "use"
  /\ \A i \in DOMAIN row : row[i].block \in blocks
  /\ LET cellOf(p) == store[p.block].cells[p.index]
     IN  delivered' = Append(delivered, [i \in DOMAIN row |->
                        <<cellOf(row[i]).line, cellOf(row[i]).col>>])
  /\ cpc' = "idle"
  /\ UNCHANGED <<managerVars, rpc, rblock, queue, continue, streamOpen,
                 iteratorVars, scans, file, outcome, complete, readerSide>>

UseReleasedRow ==
  /\ cpc = "use"
  /\ \E i \in DOMAIN row : row[i].block \notin blocks
  /\ Crash("row")

(* What could go wrong: the block stays in the queue, or the newest block  *)
(* is taken.                                                               *)
TakeBlockTwice ==
  /\ cpc \in {"block", "woken"} /\ queue # <<>> /\ Head(queue) \in blocks
  /\ cblock' = Head(queue)
  /\ offset' = 0
  /\ endOffset' = Len(store[Head(queue)].cells)
  /\ cpc' = ret
  /\ UNCHANGED <<managerVars, rpc, rblock, queue, continue, streamOpen, ret,
                 previousBlock, row, scanVars, readerSide>>

TakeNewestBlock ==
  LET newest == queue[Len(queue)] IN
  /\ cpc \in {"block", "woken"} /\ queue # <<>> /\ newest \in blocks
  /\ queue' = SubSeq(queue, 1, Len(queue) - 1)
  /\ cblock' = newest
  /\ offset' = 0
  /\ endOffset' = Len(store[newest].cells)
  /\ cpc' = ret
  /\ UNCHANGED <<managerVars, rpc, rblock, continue, streamOpen, ret,
                 previousBlock, row, scanVars, readerSide>>

(* BlockReader::getNextBlock(), under the mutex: with a block in the queue *)
(* the wait returns at once, or as soon as it is notified.                 *)
TakeBlock ==
  /\ cpc \in {"block", "woken"} /\ queue # <<>> /\ Head(queue) \in blocks
  /\ queue' = Tail(queue)
  /\ cblock' = Head(queue)
  /\ offset' = 0
  /\ endOffset' = Len(store[Head(queue)].cells)
  /\ cpc' = ret
  /\ UNCHANGED <<managerVars, rpc, rblock, continue, streamOpen, ret,
                 previousBlock, row, scanVars, readerSide>>

WaitForBlock ==
  /\ queue = <<>>
  /\ cpc = "woken" \/ (cpc = "block" /\ rblock # NoBlock)
  /\ GoOn("wait", offset)

(* A condition variable may wake up without a notification.                *)
SpuriousWakeup == cpc = "wait" /\ GoOn("woken", offset)

(* With no block in the queue and none at the reader the result is null;   *)
(* the iterator does not look.                                             *)
TakeNull ==
  /\ cpc = "block" /\ queue = <<>> /\ rblock = NoBlock
  /\ Crash("null")

TakeReleasedBlock ==
  /\ cpc \in {"block", "woken"} /\ queue # <<>> /\ Head(queue) \notin blocks
  /\ Crash("read")
-----------------------------------------------------------------------------
(* The operator above stops pulling early: LIMIT, or an exception.         *)
Abandon ==
  /\ cpc = "idle" /\ outcome \in {"new", "open"}
  /\ outcome' = "abandoned"
  /\ complete' = FALSE
  /\ cpc' = "dropStream"
  /\ UNCHANGED <<managerVars, rpc, rblock, queue, continue, streamOpen,
                 iteratorVars, scans, file, delivered, readerSide>>

(* The members of the TableScanOperatorNode are destroyed from the last to *)
(* the first: the stream, the iterator, the block reader.                  *)
DropStream ==
  /\ cpc = "dropStream"
  /\ streamOpen' = FALSE
  /\ cpc' = "dropPrevious"
  /\ UNCHANGED <<managerVars, rpc, rblock, queue, continue, iteratorVars,
                 scanVars, readerSide>>

(* What could go wrong: the previous block is forgotten.                   *)
DropPreviousForgets ==
  /\ cpc = "dropPrevious"
  /\ cpc' = "dropCurrent"
  /\ UNCHANGED <<managerVars, rpc, rblock, queue, continue, streamOpen,
                 iteratorVars, scanVars, readerSide>>

DropPrevious ==
  /\ cpc = "dropPrevious"
  /\ previousBlock \in blocks \cup {NoBlock}
  /\ BM!Release(previousBlock)
  /\ previousBlock' = NoBlock
  /\ cpc' = "dropCurrent"
  /\ UNCHANGED <<rpc, rblock, queue, continue, streamOpen, ret, cblock, offset,
                 endOffset, row, scanVars, readerSide>>

DropCurrent ==
  /\ cpc = "dropCurrent"
  /\ cblock \in blocks \cup {NoBlock}
  /\ BM!Release(cblock)
  /\ cblock' = NoBlock
  /\ cpc' = "stopReader"
  /\ UNCHANGED <<rpc, rblock, queue, continue, streamOpen, ret, previousBlock,
                 offset, endOffset, row, scanVars, readerSide>>

(* The iterator releases a block that is gone already.                     *)
ReleaseTwice ==
  /\ \/ (AtSwitch \/ cpc = "dropPrevious") /\ previousBlock \notin blocks \cup {NoBlock}
     \/ cpc = "dropCurrent" /\ cblock \notin blocks \cup {NoBlock}
  /\ Crash("release")

StopReader ==
  /\ cpc = "stopReader"
  /\ continue' = FALSE
  /\ cpc' = "join"
  /\ UNCHANGED <<managerVars, rpc, rblock, queue, streamOpen, iteratorVars,
                 scanVars, readerSide>>

(* join(), if the thread was started.  The block reader forgets the blocks *)
(* it still has.                                                           *)
JoinReader ==
  /\ cpc = "join"
  /\ rpc \in {"unstarted", "done"}
  /\ queue' = <<>>
  /\ rblock' = NoBlock
  /\ cpc' = "closed"
  /\ UNCHANGED <<managerVars, rpc, continue, streamOpen, iteratorVars, scanVars,
                 readerSide>>

Query ==
  \/ Open \/ OpenThrows \/ NextRow \/ NextRowThrows \/ EndOfRows
  \/ SwitchBlock \/ BeginRow \/ ReadValue \/ RowThrows
  \/ UseRow \/ UseReleasedRow
  \/ TakeBlock \/ WaitForBlock \/ TakeNull \/ TakeReleasedBlock
  \/ DropStream \/ DropPrevious \/ DropCurrent \/ ReleaseTwice
  \/ StopReader \/ JoinReader

(* What nobody has to do, and nobody can rule out.                         *)
Environment == NewScan \/ NewScanThrows \/ Abandon \/ SpuriousWakeup

(* All scans are done, or the behaviour is undefined from here on.         *)
Stopped ==
  /\ (cpc = "closed" /\ scans = MaxScans) \/ fault # "none"
  /\ UNCHANGED vars

Next ==
  \/ fault = "none" /\ (Reader \/ Query \/ Environment)
  \/ Stopped

(* Both threads are scheduled.  Only a notification is sure to wake the    *)
(* consumer up.                                                            *)
Spec ==
  /\ Init /\ [][Next]_vars
  /\ WF_vars(fault = "none" /\ Reader)
  /\ WF_vars(fault = "none" /\ Query)
-----------------------------------------------------------------------------
StoreTypeOK == store \in [1 .. sBlockNumber -> Contents]

ReaderTypeOK ==
  /\ rpc \in {"unstarted", "line", "loop", "finish", "notify", "done"}
  /\ rblock \in 0 .. sBlockNumber
  /\ line \in Nat \ {0} /\ col \in Nat \ {0} /\ moreLines \in BOOLEAN

SharedTypeOK ==
  /\ queue \in Seq(Nat \ {NoBlock})
  /\ continue \in BOOLEAN /\ streamOpen \in BOOLEAN

IteratorTypeOK ==
  /\ cpc \in {"closed", "idle", "block", "wait", "woken", "marker", "begin",
              "value", "taken", "use", "dropStream", "dropPrevious",
              "dropCurrent", "stopReader", "join"}
  /\ ret \in {"marker", "begin", "taken"}
  /\ cblock \in 0 .. sBlockNumber /\ previousBlock \in 0 .. sBlockNumber
  /\ offset \in Nat /\ endOffset \in Nat
  /\ row \in Seq([block : Nat, index : Nat])

ScanTypeOK ==
  /\ scans \in 0 .. MaxScans /\ file \in Files
  /\ delivered \in Seq(Seq(Nat \X Nat))
  /\ outcome \in {"none", "new", "open", "eof", "threw", "abandoned"}
  /\ complete \in BOOLEAN /\ limitHit \in BOOLEAN
  /\ fault \in {"none", "stream", "write", "overflow", "row", "read", "release",
                "null"}

(* The types of the variables.                                             *)
TypeOK ==
  /\ BM!TypeOK /\ StoreTypeOK /\ ReaderTypeOK /\ SharedTypeOK
  /\ IteratorTypeOK /\ ScanTypeOK

(* The scan implements RowStream as long as the block manager has blocks:  *)
(* whatever the interleaving of the two threads, and wherever the end of a *)
(* block cuts a row, the rows come out complete, once and in order; a line *)
(* with an error ends the scan with an exception; no file reads as shorter *)
(* than it is.                                                             *)
RS == INSTANCE RowStream WITH MaxSize <- Capacity - 3
ImplementsRowStream == RS!Spec

(* The blocks that the scan can still reach.                               *)
Queued == {queue[i] : i \in DOMAIN queue}
Held == ({rblock, cblock, previousBlock} \cup Queued) \ {NoBlock}

(* While the iterator fetches a block the current one already is the       *)
(* previous one.                                                           *)
Fetching == cpc \in {"block", "wait", "woken"}

(* Every block that can be reached exists and has one owner: the reader,   *)
(* one place of the queue, or the iterator, as its current or its previous *)
(* block.  So no thread writes to, or releases, what the other one uses.   *)
OneOwner ==
  ~ limitHit =>
    /\ Held \subseteq blocks
    /\ \A i, j \in DOMAIN queue : queue[i] = queue[j] => i = j
    /\ Queued \cap {rblock, cblock, previousBlock} = {}
    /\ rblock # NoBlock => rblock \notin {cblock, previousBlock}
    /\ cblock # NoBlock /\ cblock = previousBlock => Fetching

(* As long as every scan is read to its end no block gets lost: between    *)
(* two statements the block manager is empty.                              *)
NothingLost ==
  complete /\ ~ limitHit =>
    /\ blocks \subseteq Held
    /\ cpc = "closed" => blocks = {}

(* A block that has been handed over never changes again: the iterator     *)
(* reads it, and the rows point into it, without the mutex.                *)
HandedOver == ({cblock, previousBlock} \cup Queued) \ {NoBlock}
HandedOverIsFinal ==
  [][~ limitHit' => \A b \in HandedOver : store'[b] = store[b]]_vars

(* Every block in the queue ends with the next-block marker, but the last  *)
(* one of a file, which ends with the end marker.                          *)
QueueEndsWithMarkers ==
  ~ limitHit =>
    \A i \in DOMAIN queue :
      LET cells == store[queue[i]].cells
          last  == i = Len(queue) /\ rblock = NoBlock
      IN  cells[Len(cells)].tag = IF last THEN "DD" ELSE "CC"

(* The bytes that the values of line l take in a block.                    *)
LineBytes(l) ==
  LET sum[c \in 0 .. Len(file[l])] ==
        IF c = 0 THEN 0 ELSE sum[c - 1] + 1 + file[l][c]
  IN  sum[Len(file[l])]

(* Neither thread looks into, writes to or releases a block that the other *)
(* one has released, unless createBlock() threw in the reader thread.      *)
NoStrayAccess == fault \in {"write", "read", "release"} => limitHit

(* Where all other undefined behaviour is possible.  The parser reads the  *)
(* stream after its destruction only if the scan was not read to its end;  *)
(* a row points into a released block only if its values would fill a      *)
(* block; a marker is written behind the end of a block only for a file    *)
(* without lines or with a line that has an error; and there always is a   *)
(* block to wait for.  All variables keep their types.                     *)
FaultsExplained ==
  /\ TypeOK
  /\ ~ limitHit =>
       /\ fault = "stream" => outcome \in {"abandoned", "threw"}
       /\ fault = "row" => \E l \in DOMAIN file : LineBytes(l) >= Capacity
       /\ fault = "overflow" =>
            file = <<>> \/ \E l \in DOMAIN file : ~ RS!WellFormed(l)
       /\ fault # "null"

(* Even when the reader goes on after a refused block, the iterator never  *)
(* looks into a block that has been released.                              *)
CurrentBlockExists ==
  cpc \in {"marker", "begin", "value", "taken"} => cblock \in blocks

(* Rows used before the first refused block are rows of the file, and the  *)
(* iterator has a block even after it.                                     *)
RowsBeforeLimit ==
  /\ CurrentBlockExists
  /\ ~ limitHit => \A r \in DOMAIN delivered : delivered[r] \in RS!RowsOf(r)

(* The accounting of the block manager holds across scans and threads.     *)
ManagerAccounting == BM!Accounting /\ BM!LimitKept

(* Every scan that was opened comes to its end, the join with the reader   *)
(* thread included, whether it is read to its end or not: no wakeup is     *)
(* lost, and nobody waits for a block that does not come.                  *)
ScanEnds == outcome = "open" ~> (cpc = "closed" \/ fault # "none")
-----------------------------------------------------------------------------
(* What the repository says of the scan, and the code does not do.         *)

(* "SQL support includes: ... limit" (README.md:18): to stop pulling rows  *)
(* is a legal use of the scan.                                             *)
AbandonedScanIsSafe == outcome = "abandoned" => fault # "stream"
==============================================================================
