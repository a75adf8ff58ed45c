--------------------------- MODULE BlockScanProofs ---------------------------
(***************************************************************************)
(* The blocks of the table scan, for all files, block sizes and limits:    *)
(* the use of the block manager, the types, who owns which block and what  *)
(* follows from it, and the markers at the ends of the blocks; then what   *)
(* is in the blocks, and what the iterator makes of it.                    *)
(***************************************************************************)
EXTENDS BlockScan, SequenceTheorems, WellFoundedInduction, TLAPS

-----------------------------------------------------------------------------
(* The block manager under the scan.                                       *)

(* Every step of a scan is a call of the block manager or none at all.     *)
LEMMA ManagerStep == [Next]_vars => [BM!Next]_managerVars
<1> SUFFICES ASSUME [Next]_vars PROVE [BM!Next]_managerVars
  OBVIOUS
<1>1. CASE UNCHANGED vars
  BY <1>1 DEF vars
<1>2. CASE Environment
  <2>1. CASE NewScan
    BY <2>1 DEF NewScan, BM!Next
  <2>2. CASE NewScanThrows
    BY <2>2 DEF NewScanThrows, BM!Next
  <2>3. CASE Abandon
    BY <2>3 DEF Abandon
  <2>4. CASE SpuriousWakeup
    BY <2>4 DEF SpuriousWakeup, GoOn
  <2> QED
    BY <1>2, <2>1, <2>2, <2>3, <2>4 DEF Environment
<1>3. CASE Reader
  <2>1. CASE AddToNextBlock
    BY <2>1 DEF AddToNextBlock, BM!Next
  <2>2. CASE AddToNextBlockThrows
    BY <2>2 DEF AddToNextBlockThrows, BM!Next
  <2>3. CASE ~ (AddToNextBlock \/ AddToNextBlockThrows)
    BY <1>3, <2>3
    DEF Reader, AddValue, EndLine, NextLine, LeaveLoop, Finish, NotifyEnd,
        ReadClosedStream, WriteReleasedBlock, WriteBeyondBlock, Crash
  <2> QED
    BY <2>1, <2>2, <2>3
<1>4. CASE Query
  <2>1. ASSUME NEW b \in blocks \cup {NoBlock}, BM!Release(b)
        PROVE  [BM!Next]_managerVars
    BY <2>1 DEF BM!Next, BM!Release, NoBlock, BM!managerVars, managerVars
  <2>2. CASE SwitchBlock
    BY <2>1, <2>2 DEF SwitchBlock
  <2>3. CASE DropPrevious
    BY <2>1, <2>3 DEF DropPrevious
  <2>4. CASE DropCurrent
    BY <2>1, <2>4 DEF DropCurrent
  <2>5. CASE ~ (SwitchBlock \/ DropPrevious \/ DropCurrent)
    BY <1>4, <2>5
    DEF Query, Open, OpenThrows, Throws, NextRow, GoOn, NextRowThrows,
        EndOfRows, BeginRow, ReadValue, RowThrows, UseRow, UseReleasedRow,
        TakeBlock, WaitForBlock, TakeNull, TakeReleasedBlock, DropStream,
        ReleaseTwice, StopReader, JoinReader, Crash
  <2> QED
    BY <2>2, <2>3, <2>4, <2>5
<1> QED
  BY <1>1, <1>2, <1>3, <1>4 DEF Next, Stopped

(* The scan, its two threads and the scans that follow use the block       *)
(* manager by createBlock() and release() only, and never release a block  *)
(* that does not exist: every step is one of BlockManager, or none.        *)
THEOREM ManagerRefined == Spec => BM!Spec
<1>1. Init => BM!Init
  BY DEF Init
<1> QED
  BY <1>1, ManagerStep, PTL DEF Spec, BM!Spec, managerVars, BM!managerVars

BMP == INSTANCE BlockManagerProofs

(* Hence the accounting and the limit of the block manager hold over all   *)
(* scans of an engine, refused requests of either thread included.         *)
THEOREM ManagerAccountingHolds == Spec => []ManagerAccounting
<1>1. MaxActiveBlocks \in Nat
  BY ScanAssumption
<1>2. BMP!Spec => []BMP!Accounting
  BY <1>1, BMP!AccountingHolds
<1>3. BMP!Spec => []BMP!LimitKept
  BY <1>1, BMP!LimitHolds
<1>4. BM!Init => BMP!Init
  BY DEF BM!Init, BMP!Init
<1>5. [BM!Next]_BM!managerVars => [BMP!Next]_BMP!managerVars
  BY DEF BM!Next, BMP!Next, BM!managerVars, BMP!managerVars, BM!CreateBlock,
         BMP!CreateBlock, BM!CountRequest, BMP!CountRequest, BM!CreateBlockThrows,
         BMP!CreateBlockThrows, BM!Release, BMP!Release, BM!NoBlock, BMP!NoBlock
<1>6. BMP!Accounting /\ BMP!LimitKept => ManagerAccounting
  BY DEF ManagerAccounting, BM!Accounting, BMP!Accounting, BM!Refused,
         BMP!Refused, BM!LimitKept, BMP!LimitKept, BM!Cardinality,
         BMP!Cardinality
<1> QED
  BY <1>2, <1>3, <1>4, <1>5, <1>6, ManagerRefined, PTL DEF BM!Spec, BMP!Spec

LEMMA ManagerTypes == Spec => []BM!TypeOK
<1>1. MaxActiveBlocks \in Nat
  BY ScanAssumption
<1>2. BMP!Spec => []BMP!TypeOK
  BY <1>1, BMP!TypeCorrect
<1>3. BM!Init => BMP!Init
  BY DEF BM!Init, BMP!Init
<1>4. [BM!Next]_BM!managerVars => [BMP!Next]_BMP!managerVars
  BY DEF BM!Next, BMP!Next, BM!managerVars, BMP!managerVars, BM!CreateBlock,
         BMP!CreateBlock, BM!CountRequest, BMP!CountRequest, BM!CreateBlockThrows,
         BMP!CreateBlockThrows, BM!Release, BMP!Release, BM!NoBlock, BMP!NoBlock
<1>5. BMP!TypeOK => BM!TypeOK
  BY DEF BM!TypeOK, BMP!TypeOK
<1> QED
  BY <1>2, <1>3, <1>4, <1>5, ManagerRefined, PTL DEF BM!Spec, BMP!Spec

-----------------------------------------------------------------------------
(* Types.                                                                  *)

(* The parser never runs off the lines of the file.                        *)
LineExists ==
  file # <<>> =>
    /\ rpc \in {"unstarted", "line"} => line <= Len(file)
    /\ rpc = "loop" /\ moreLines => line < Len(file)

(* A scan that was not opened has not started its reader thread.           *)
NotStarted == outcome = "new" => rpc = "unstarted"

(* The iterator has a block wherever it looks into it.                     *)
HasBlock == cpc \in {"marker", "begin", "value", "taken"} => cblock # NoBlock

(* The pointers of the row point to cells.                                 *)
RowPointers ==
  \A i \in DOMAIN row :
    /\ row[i].block \in 1 .. sBlockNumber
    /\ row[i].index \in 1 .. Len(store[row[i].block].cells)

TypeIInv == TypeOK /\ LineExists /\ NotStarted /\ HasBlock /\ RowPointers

LEMMA ContentTypes ==
  /\ Empty \in Contents
  /\ \A content \in Contents, tag \in {"AA", "BB", "CC", "DD"}, l, c \in Nat :
       /\ MarkedAt(content, tag, l, c) \in Contents
       /\ Len(MarkedAt(content, tag, l, c).cells) = Len(content.cells) + 1
  /\ \A content \in Contents, l, c, size \in Nat :
       /\ Added(content, l, c, size) \in Contents
       /\ Len(Added(content, l, c, size).cells) = Len(content.cells) + 1
       /\ Opened(l, c, size) \in Contents
  BY DEF Contents, Cells, Empty, MarkedAt, Mark, Added, Value, Opened

(* The value that the parser reports has a size.                           *)
LEMMA ValueHasSize ==
  ASSUME TypeIInv, rpc = "line", ~ LineDone
  PROVE  file[line][col] \in Nat
<1>1. file # <<>> /\ file \in Seq(Seq(Nat))
  BY ScanAssumption DEF LineDone, TypeIInv, TypeOK, ScanTypeOK
<1>2. line \in 1 .. Len(file)
  BY <1>1 DEF TypeIInv, TypeOK, ReaderTypeOK, LineExists
<1>3. file[line] \in Seq(Nat) /\ col \in 1 .. Len(file[line])
  BY <1>1, <1>2 DEF LineDone, TypeIInv, TypeOK, ReaderTypeOK
<1> QED
  BY <1>3

LEMMA InitTypes == Init => TypeIInv
<1> SUFFICES ASSUME Init PROVE TypeIInv
  OBVIOUS
<1>1. BM!TypeOK /\ sBlockNumber = 0
  BY DEF Init, BM!Init, BM!TypeOK
<1>2. StoreTypeOK
  BY <1>1 DEF Init, StoreTypeOK
<1>3. ReaderTypeOK
  <2>1. moreLines \in BOOLEAN
    BY DEF Init
  <2> QED
    BY <1>1, <2>1 DEF Init, ReaderTypeOK, NoBlock, BM!NoBlock
<1>7. SharedTypeOK
  <2>1. continue \in BOOLEAN /\ streamOpen \in BOOLEAN
    BY DEF Init
  <2> QED
    BY <2>1 DEF Init, SharedTypeOK
<1>4. IteratorTypeOK
  BY <1>1 DEF Init, IteratorTypeOK, NoBlock, BM!NoBlock
<1>5. ScanTypeOK
  <2>1. complete \in BOOLEAN /\ limitHit \in BOOLEAN
    BY DEF Init
  <2> QED
    BY <2>1, ScanAssumption DEF Init, ScanTypeOK
<1>6. LineExists
  BY ScanAssumption DEF Init, LineExists
<1> QED
  BY <1>1, <1>2, <1>3, <1>4, <1>5, <1>6, <1>7
  DEF Init, TypeIInv, TypeOK, NotStarted, HasBlock, RowPointers

(* Contents are only added to, and block numbers only go up.               *)
Grown ==
  /\ StoreTypeOK'
  /\ sBlockNumber' >= sBlockNumber
  /\ \A b \in 1 .. sBlockNumber : Len(store'[b].cells) >= Len(store[b].cells)

LEMMA GrownUnchanged ==
  ASSUME TypeIInv, UNCHANGED <<store, sBlockNumber>>
  PROVE  Grown
  BY DEF TypeIInv, TypeOK, BM!TypeOK, StoreTypeOK, Grown, Contents

LEMMA GrownMarked ==
  ASSUME TypeIInv, rblock \in blocks, UNCHANGED sBlockNumber,
         NEW tag \in {"AA", "BB", "CC", "DD"},
         store' = [store EXCEPT ![rblock] = MarkedAt(@, tag, line, col)]
  PROVE  Grown
<1>1. rblock \in 1 .. sBlockNumber
  BY DEF TypeIInv, TypeOK, BM!TypeOK
<1>2. store[rblock] \in Contents /\ MarkedAt(store[rblock], tag, line, col) \in Contents
  BY <1>1, ContentTypes DEF TypeIInv, TypeOK, StoreTypeOK, ReaderTypeOK
<1>3. StoreTypeOK'
  BY <1>1, <1>2 DEF TypeIInv, TypeOK, StoreTypeOK
<1>4. \A b \in 1 .. sBlockNumber : Len(store'[b].cells) >= Len(store[b].cells)
  <2> SUFFICES ASSUME NEW b \in 1 .. sBlockNumber
               PROVE  Len(store'[b].cells) >= Len(store[b].cells)
    OBVIOUS
  <2>1. Len(store[b].cells) \in Nat
    BY DEF TypeIInv, TypeOK, StoreTypeOK, Contents
  <2>2. CASE b = rblock
    BY <1>1, <1>2, <2>1, <2>2, ContentTypes
    DEF TypeIInv, TypeOK, StoreTypeOK, ReaderTypeOK
  <2>3. CASE b # rblock
    BY <2>1, <2>3 DEF TypeIInv, TypeOK, StoreTypeOK
  <2> QED
    BY <2>2, <2>3
<1> QED
  BY <1>3, <1>4 DEF Grown, TypeIInv, TypeOK, BM!TypeOK

LEMMA GrownAdded ==
  ASSUME TypeIInv, AddValue
  PROVE  Grown
<1>1. rblock \in 1 .. sBlockNumber
  BY DEF AddValue, TypeIInv, TypeOK, BM!TypeOK
<1> DEFINE new == Added(store[rblock], line, col, file[line][col])
<1>2. file[line][col] \in Nat
  BY ValueHasSize DEF AddValue
<1>3. store[rblock] \in Contents /\ line \in Nat /\ col \in Nat
  BY <1>1 DEF TypeIInv, TypeOK, StoreTypeOK, ReaderTypeOK
<1>4. new \in Contents /\ Len(new.cells) = Len(store[rblock].cells) + 1
  BY <1>2, <1>3, ContentTypes
<1>5. store' = [store EXCEPT ![rblock] = new] /\ sBlockNumber' = sBlockNumber
  BY DEF AddValue, managerVars
<1> HIDE DEF new
<1>6. StoreTypeOK'
  BY <1>1, <1>4, <1>5 DEF TypeIInv, TypeOK, StoreTypeOK
<1>7. \A b \in 1 .. sBlockNumber : Len(store'[b].cells) >= Len(store[b].cells)
  BY <1>1, <1>4, <1>5 DEF TypeIInv, TypeOK, StoreTypeOK, Contents
<1> QED
  BY <1>5, <1>6, <1>7 DEF Grown, TypeIInv, TypeOK, BM!TypeOK

LEMMA GrownNewBlock ==
  ASSUME TypeIInv, NEW new \in Contents, sBlockNumber' = sBlockNumber + 1,
         NEW closed \in SUBSET (1 .. sBlockNumber),
         store' = [b \in 1 .. sBlockNumber' |->
                     IF b = sBlockNumber' THEN new
                     ELSE IF b \in closed THEN MarkedAt(store[b], "CC", line, col)
                     ELSE store[b]]
  PROVE  Grown
<1>1. sBlockNumber \in Nat
  BY DEF TypeIInv, TypeOK, BM!TypeOK
<1>2. ASSUME NEW b \in 1 .. sBlockNumber
      PROVE  /\ store'[b] \in Contents
             /\ Len(store'[b].cells) >= Len(store[b].cells)
  <2>1. store[b] \in Contents
    BY DEF TypeIInv, TypeOK, StoreTypeOK
  <2>2. Len(store[b].cells) \in Nat
    BY <2>1 DEF Contents
  <2>3. store'[b] = IF b \in closed THEN MarkedAt(store[b], "CC", line, col) ELSE store[b]
    BY <1>1
  <2> QED
    BY <2>1, <2>2, <2>3, ContentTypes DEF TypeIInv, TypeOK, ReaderTypeOK
<1>3. StoreTypeOK'
  <2>1. ASSUME NEW b \in 1 .. sBlockNumber' PROVE store'[b] \in Contents
    BY <1>1, <1>2
  <2> QED
    BY <2>1 DEF StoreTypeOK
<1>4. sBlockNumber' >= sBlockNumber
  BY <1>1
<1>5. \A b \in 1 .. sBlockNumber : Len(store'[b].cells) >= Len(store[b].cells)
  BY <1>2
<1> QED
  BY <1>3, <1>4, <1>5, Zenon DEF Grown

LEMMA ReaderGrows ==
  ASSUME TypeIInv, Reader
  PROVE  Grown
<1>1. CASE AddValue
  BY <1>1, GrownAdded
<1>2. CASE AddToNextBlock
  <2> DEFINE new == Opened(line, col, file[line][col])
  <2>1. file[line][col] \in Nat
    BY <1>2, ValueHasSize DEF AddToNextBlock, HandOver
  <2>2. new \in Contents
    BY <2>1, ContentTypes DEF TypeIInv, TypeOK, ReaderTypeOK
  <2>3. rblock \in 1 .. sBlockNumber
    BY <1>2 DEF AddToNextBlock, HandOver, TypeIInv, TypeOK, BM!TypeOK
  <2> HIDE DEF new
  <2>4. sBlockNumber' = sBlockNumber + 1
    BY <1>2 DEF AddToNextBlock, BM!CreateBlock
  <2>5. store' = [b \in 1 .. sBlockNumber' |->
                    IF b = sBlockNumber' THEN new
                    ELSE IF b \in {rblock} THEN MarkedAt(store[b], "CC", line, col)
                    ELSE store[b]]
    BY <1>2 DEF AddToNextBlock, new
  <2>6. {rblock} \in SUBSET (1 .. sBlockNumber)
    BY <2>3
  <2> QED
    BY <2>2, <2>4, <2>5, <2>6, GrownNewBlock
<1>3. CASE AddToNextBlockThrows
  BY <1>3, GrownMarked
  DEF AddToNextBlockThrows, HandOver, BM!CreateBlockThrows
<1>4. CASE EndLine
  BY <1>4, GrownMarked DEF EndLine, managerVars
<1>5. CASE Finish
  BY <1>5, GrownMarked DEF Finish, managerVars
<1>6. CASE ~ (AddValue \/ AddToNextBlock \/ AddToNextBlockThrows \/ EndLine \/ Finish)
  <2>1. UNCHANGED <<store, sBlockNumber>>
    BY <1>6
    DEF Reader, NextLine, LeaveLoop, NotifyEnd, ReadClosedStream,
        WriteReleasedBlock, WriteBeyondBlock, Crash, managerVars
  <2> QED
    BY <2>1, GrownUnchanged
<1> QED
  BY <1>1, <1>2, <1>3, <1>4, <1>5, <1>6

(* A step that leaves the pointers of the row alone.                       *)
LEMMA RowPointersKept ==
  ASSUME TypeIInv, BM!TypeOK', Grown, row' = row
  PROVE  RowPointers'
<1> SUFFICES ASSUME NEW i \in DOMAIN row
             PROVE  /\ row[i].block \in 1 .. sBlockNumber'
                    /\ row[i].index \in 1 .. Len(store'[row[i].block].cells)
  BY DEF RowPointers
<1> DEFINE b == row[i].block
<1>1. b \in 1 .. sBlockNumber /\ row[i].index \in 1 .. Len(store[b].cells)
  BY DEF TypeIInv, RowPointers
<1>2. sBlockNumber \in Nat /\ sBlockNumber' \in Nat /\ sBlockNumber' >= sBlockNumber
  BY DEF TypeIInv, TypeOK, BM!TypeOK, Grown
<1>3. b \in 1 .. sBlockNumber'
  BY <1>1, <1>2
<1>4. Len(store[b].cells) \in Nat /\ Len(store'[b].cells) \in Nat
  BY <1>1, <1>3 DEF TypeIInv, TypeOK, StoreTypeOK, Grown, Contents
<1>5. Len(store'[b].cells) >= Len(store[b].cells)
  BY <1>1 DEF Grown
<1> HIDE DEF b
<1>6. row[i].index \in 1 .. Len(store'[b].cells)
  BY <1>1, <1>4, <1>5
<1> QED
  BY <1>3, <1>6 DEF b

LEMMA ReaderTypes ==
  ASSUME TypeIInv, BM!TypeOK', Reader
  PROVE  TypeIInv'
<1>1. Grown
  BY ReaderGrows
<1>2. sBlockNumber \in Nat /\ sBlockNumber' \in Nat /\ sBlockNumber' >= sBlockNumber
  BY <1>1 DEF TypeIInv, TypeOK, BM!TypeOK, Grown
<1>3. ReaderTypeOK'
  <2>1. rblock' \in {rblock, NoBlock, sBlockNumber'}
    BY DEF Reader, AddValue, AddToNextBlock, AddToNextBlockThrows, HandOver,
           EndLine, NextLine, LeaveLoop, Finish, NotifyEnd, ReadClosedStream,
           WriteReleasedBlock, WriteBeyondBlock, Crash, readerVars
  <2>2. rblock' \in 0 .. sBlockNumber'
    BY <1>2, <2>1 DEF TypeIInv, TypeOK, ReaderTypeOK, NoBlock, BM!NoBlock
  <2>3. /\ line' \in {line, line + 1} /\ col' \in {col, col + 1, 1}
        /\ rpc' \in {rpc, "loop", "line", "finish", "notify", "done"}
    BY DEF Reader, AddValue, AddToNextBlock, AddToNextBlockThrows, HandOver,
           EndLine, NextLine, LeaveLoop, Finish, NotifyEnd, ReadClosedStream,
           WriteReleasedBlock, WriteBeyondBlock, Crash, readerVars
  <2>4. moreLines' \in BOOLEAN
    <3>1. moreLines \in BOOLEAN
      BY DEF TypeIInv, TypeOK, ReaderTypeOK
    <3>2. moreLines' \in {moreLines, (file = <<>> \/ line < Len(file))}
      BY DEF Reader, AddValue, AddToNextBlock, AddToNextBlockThrows, HandOver,
             EndLine, NextLine, LeaveLoop, Finish, NotifyEnd, ReadClosedStream,
             WriteReleasedBlock, WriteBeyondBlock, Crash, readerVars
    <3> QED
      BY <3>1, <3>2
  <2> QED
    BY <2>2, <2>3, <2>4 DEF TypeIInv, TypeOK, ReaderTypeOK
<1>4. SharedTypeOK'
  <2>1. /\ queue' = queue \/ (queue' = Append(queue, rblock) /\ rblock \in blocks)
        /\ UNCHANGED <<continue, streamOpen>>
    BY DEF Reader, AddValue, AddToNextBlock, AddToNextBlockThrows, HandOver,
           EndLine, NextLine, LeaveLoop, Finish, NotifyEnd, ReadClosedStream,
           WriteReleasedBlock, WriteBeyondBlock, Crash, querySide
  <2>2. rblock \in blocks => rblock \in Nat \ {NoBlock}
    BY <1>2 DEF TypeIInv, TypeOK, BM!TypeOK, NoBlock, BM!NoBlock
  <2>3. queue' \in Seq(Nat \ {NoBlock})
    BY <2>1, <2>2 DEF TypeIInv, TypeOK, SharedTypeOK
  <2> QED
    BY <2>1, <2>3 DEF TypeIInv, TypeOK, SharedTypeOK
<1>5. cpc' \in {cpc, "woken"} /\ UNCHANGED iteratorVars
  BY DEF Reader, AddValue, AddToNextBlock, AddToNextBlockThrows, HandOver,
         EndLine, NextLine, LeaveLoop, Finish, NotifyEnd, ReadClosedStream,
         WriteReleasedBlock, WriteBeyondBlock, Crash, querySide, Notified
<1>6. IteratorTypeOK'
  BY <1>2, <1>5 DEF TypeIInv, TypeOK, IteratorTypeOK, iteratorVars
<1>7. /\ UNCHANGED scanVars
      /\ fault' \in {fault, "stream", "write", "overflow"}
      /\ limitHit' \in {limitHit, TRUE}
  BY DEF Reader, AddValue, AddToNextBlock, AddToNextBlockThrows, HandOver,
         EndLine, NextLine, LeaveLoop, Finish, NotifyEnd, ReadClosedStream,
         WriteReleasedBlock, WriteBeyondBlock, Crash, querySide
<1>8. ScanTypeOK'
  <2>1. limitHit' \in BOOLEAN /\ complete' \in BOOLEAN
    BY <1>7 DEF TypeIInv, TypeOK, ScanTypeOK, scanVars
  <2> QED
    BY <1>7, <2>1 DEF TypeIInv, TypeOK, ScanTypeOK, scanVars
<1>9. LineExists'
  <2> USE DEF TypeIInv, LineExists
  <2>1. file' = file
    BY <1>7 DEF scanVars
  <2>2. CASE NextLine
    <3>1. line \in Nat /\ (file # <<>> => Len(file) \in Nat)
      BY ScanAssumption DEF TypeOK, ReaderTypeOK, ScanTypeOK
    <3> QED
      BY <2>1, <2>2, <3>1 DEF NextLine
  <2>3. CASE EndLine
    BY <2>1, <2>3 DEF EndLine
  <2>4. CASE UNCHANGED <<rpc, line, moreLines>>
    BY <2>1, <2>4
  <2>5. CASE rpc' \in {"finish", "notify", "done"}
    BY <2>5
  <2> QED
    BY <2>2, <2>3, <2>4, <2>5
    DEF Reader, AddValue, AddToNextBlock, AddToNextBlockThrows, HandOver,
        LeaveLoop, Finish, NotifyEnd, ReadClosedStream, WriteReleasedBlock,
        WriteBeyondBlock, Crash, readerVars
<1>10. HasBlock' /\ RowPointers'
  BY <1>1, <1>5, RowPointersKept DEF TypeIInv, HasBlock, iteratorVars
<1>11. NotStarted'
  <2>1. rpc # "unstarted"
    BY DEF Reader, AddValue, AddToNextBlock, AddToNextBlockThrows, HandOver,
           EndLine, NextLine, LeaveLoop, Finish, NotifyEnd, ReadClosedStream,
           WriteReleasedBlock, WriteBeyondBlock
  <2> QED
    BY <1>7, <2>1 DEF TypeIInv, NotStarted, scanVars
<1> QED
  BY <1>1, <1>3, <1>4, <1>6, <1>8, <1>9, <1>10, <1>11
  DEF TypeIInv, TypeOK, Grown

(* The cell that the iterator has found is in its block.                   *)
LEMMA CellExists ==
  ASSUME TypeIInv, cpc \in {"marker", "begin", "value", "taken"},
         NEW o \in Nat, TagAt(o) = "AA"
  PROVE  /\ cblock \in 1 .. sBlockNumber
         /\ o + 1 \in 1 .. Len(store[cblock].cells)
<1>1. cblock \in 1 .. sBlockNumber
  BY DEF TypeIInv, TypeOK, BM!TypeOK, IteratorTypeOK, HasBlock, NoBlock, BM!NoBlock
<1>2. store[cblock].cells \in Seq(Cells)
  BY <1>1 DEF TypeIInv, TypeOK, StoreTypeOK, Contents
<1>3. o < Len(store[cblock].cells)
  BY DEF TagAt
<1> QED
  BY <1>1, <1>2, <1>3

(* What the operator above reads through the pointers has a type.          *)
LEMMA UseRowTypes ==
  ASSUME TypeIInv, UseRow
  PROVE  delivered' \in Seq(Seq(Nat \X Nat))
<1> DEFINE cellOf(p) == store[p.block].cells[p.index]
           used == [i \in DOMAIN row |-> <<cellOf(row[i]).line, cellOf(row[i]).col>>]
<1>1. ASSUME NEW i \in DOMAIN row
      PROVE  cellOf(row[i]) \in Cells
  <2>1. /\ row[i].block \in 1 .. sBlockNumber
        /\ row[i].index \in 1 .. Len(store[row[i].block].cells)
    BY DEF TypeIInv, RowPointers
  <2>2. store[row[i].block].cells \in Seq(Cells)
    BY <2>1 DEF TypeIInv, TypeOK, StoreTypeOK, Contents
  <2> QED
    BY <2>1, <2>2
<1>2. \A i \in DOMAIN row : used[i] \in Nat \X Nat
  BY <1>1 DEF Cells
<1>3. DOMAIN row = 1 .. Len(row) /\ Len(row) \in Nat
  BY DEF TypeIInv, TypeOK, IteratorTypeOK
<1>4. delivered' = Append(delivered, used)
  BY DEF UseRow
<1> HIDE DEF used
<1>5. used \in [1 .. Len(row) -> Nat \X Nat]
  BY <1>2, <1>3 DEF used
<1>6. used \in Seq(Nat \X Nat)
  BY <1>3, <1>5, SeqDef
<1> QED
  BY <1>4, <1>6 DEF TypeIInv, TypeOK, ScanTypeOK

LEMMA QueryTypes ==
  ASSUME TypeIInv, BM!TypeOK', Query
  PROVE  TypeIInv'
<1>1. UNCHANGED <<store, sBlockNumber, line, col, moreLines>>
  BY DEF Query, Open, OpenThrows, Throws, NextRow, GoOn, NextRowThrows,
         EndOfRows, SwitchBlock, BeginRow, ReadValue, RowThrows, UseRow,
         UseReleasedRow, TakeBlock, WaitForBlock, TakeNull, TakeReleasedBlock,
         DropStream, DropPrevious, DropCurrent, ReleaseTwice, StopReader,
         JoinReader, Crash, readerSide, readerVars, managerVars, BM!Release,
         BM!managerVars
<1>2. Grown
  BY <1>1, GrownUnchanged
<1>3. sBlockNumber \in Nat
  BY DEF TypeIInv, TypeOK, BM!TypeOK
<1>4. /\ rpc' = IF Open THEN "line" ELSE rpc
      /\ rblock' \in {rblock, NoBlock}
  BY DEF Query, Open, OpenThrows, Throws, NextRow, GoOn, NextRowThrows,
         EndOfRows, SwitchBlock, BeginRow, ReadValue, RowThrows, UseRow,
         UseReleasedRow, TakeBlock, WaitForBlock, TakeNull, TakeReleasedBlock,
         DropStream, DropPrevious, DropCurrent, ReleaseTwice, StopReader,
         JoinReader, Crash, readerSide, readerVars
<1>5. ReaderTypeOK'
  BY <1>1, <1>3, <1>4 DEF TypeIInv, TypeOK, ReaderTypeOK, NoBlock, BM!NoBlock
<1>6. SharedTypeOK'
  <2>1. /\ queue' \in {queue, <<>>} \/ (queue # <<>> /\ queue' = Tail(queue))
        /\ continue' \in {continue, FALSE}
        /\ streamOpen' \in {streamOpen, TRUE, FALSE}
    BY DEF Query, Open, OpenThrows, Throws, NextRow, GoOn, NextRowThrows,
           EndOfRows, SwitchBlock, BeginRow, ReadValue, RowThrows, UseRow,
           UseReleasedRow, TakeBlock, WaitForBlock, TakeNull, TakeReleasedBlock,
           DropStream, DropPrevious, DropCurrent, ReleaseTwice, StopReader,
           JoinReader, Crash, readerSide, readerVars
  <2>2. continue' \in BOOLEAN /\ streamOpen' \in BOOLEAN
    BY <2>1 DEF TypeIInv, TypeOK, SharedTypeOK
  <2>3. queue' \in Seq(Nat \ {NoBlock})
    <3>1. queue \in Seq(Nat \ {NoBlock})
      BY DEF TypeIInv, TypeOK, SharedTypeOK
    <3>2. queue # <<>> => Tail(queue) \in Seq(Nat \ {NoBlock})
      BY <3>1, HeadTailProperties
    <3>3. <<>> \in Seq(Nat \ {NoBlock})
      OBVIOUS
    <3> QED
      BY <2>1, <3>1, <3>2, <3>3, Zenon
  <2> QED
    BY <2>2, <2>3 DEF SharedTypeOK
<1>7. ASSUME TakeBlock
      PROVE  Head(queue) \in 1 .. sBlockNumber /\ endOffset' \in Nat
  <2>1. Head(queue) \in 1 .. sBlockNumber
    BY <1>7 DEF TakeBlock, TypeIInv, TypeOK, BM!TypeOK
  <2> QED
    BY <1>7, <2>1 DEF TakeBlock, TypeIInv, TypeOK, StoreTypeOK, Contents
<1>8. ASSUME ReadValue
      PROVE  /\ row' \in Seq([block : Nat, index : Nat])
             /\ offset' \in Nat
             /\ RowPointers'
  <2>1. cblock \in 1 .. sBlockNumber /\ offset + 1 \in 1 .. Len(store[cblock].cells)
    BY <1>8, CellExists DEF ReadValue, TypeIInv, TypeOK, IteratorTypeOK
  <2>2. /\ row' = Append(row, [block |-> cblock, index |-> offset + 1])
        /\ row \in Seq([block : Nat, index : Nat])
        /\ offset \in Nat /\ offset' = offset + 1
    BY <1>8 DEF ReadValue, TypeIInv, TypeOK, IteratorTypeOK
  <2>3. [block |-> cblock, index |-> offset + 1] \in [block : Nat, index : Nat]
    BY <2>1, <2>2, <1>3
  <2>4. row' \in Seq([block : Nat, index : Nat])
    BY <2>2, <2>3
  <2>5. ASSUME NEW i \in DOMAIN row'
        PROVE  /\ row'[i].block \in 1 .. sBlockNumber
               /\ row'[i].index \in 1 .. Len(store[row'[i].block].cells)
    <3>1. CASE i \in DOMAIN row
      <4>1. row'[i] = row[i]
        BY <2>2, <2>3, <3>1
      <4> QED
        BY <3>1, <4>1 DEF TypeIInv, RowPointers
    <3>2. CASE i \notin DOMAIN row
      <4>1. row'[i] = [block |-> cblock, index |-> offset + 1]
        BY <2>2, <2>3, <2>5, <3>2
      <4> QED
        BY <2>1, <4>1
    <3> QED
      BY <3>1, <3>2
  <2> QED
    BY <1>1, <2>2, <2>4, <2>5 DEF RowPointers
<1>9. IteratorTypeOK'
  <2>1. /\ ret' \in {ret, "begin", "taken"}
        /\ cblock' \in {cblock, NoBlock} \/ (TakeBlock /\ cblock' = Head(queue))
        /\ previousBlock' \in {previousBlock, cblock, NoBlock}
    BY DEF Query, Open, OpenThrows, Throws, NextRow, GoOn, NextRowThrows,
           EndOfRows, SwitchBlock, BeginRow, ReadValue, RowThrows, UseRow,
           UseReleasedRow, TakeBlock, WaitForBlock, TakeNull, TakeReleasedBlock,
           DropStream, DropPrevious, DropCurrent, ReleaseTwice, StopReader,
           JoinReader, Crash, iteratorVars
  <2>2. ret' \in {"marker", "begin", "taken"}
    BY <2>1 DEF TypeIInv, TypeOK, IteratorTypeOK
  <2>3. cblock' \in 0 .. sBlockNumber' /\ previousBlock' \in 0 .. sBlockNumber'
    BY <1>1, <1>3, <1>7, <2>1 DEF TypeIInv, TypeOK, IteratorTypeOK, NoBlock, BM!NoBlock
  <2>4. offset' \in {offset, 0, offset + 1} \/ ReadValue
    BY DEF Query, Open, OpenThrows, Throws, NextRow, GoOn, NextRowThrows,
           EndOfRows, SwitchBlock, BeginRow, ReadValue, RowThrows, UseRow,
           UseReleasedRow, TakeBlock, WaitForBlock, TakeNull, TakeReleasedBlock,
           DropStream, DropPrevious, DropCurrent, ReleaseTwice, StopReader,
           JoinReader, Crash, iteratorVars
  <2>5. offset' \in Nat
    BY <1>8, <2>4 DEF TypeIInv, TypeOK, IteratorTypeOK
  <2>6. endOffset' = endOffset \/ TakeBlock
    BY DEF Query, Open, OpenThrows, Throws, NextRow, GoOn, NextRowThrows,
           EndOfRows, SwitchBlock, BeginRow, ReadValue, RowThrows, UseRow,
           UseReleasedRow, TakeBlock, WaitForBlock, TakeNull, TakeReleasedBlock,
           DropStream, DropPrevious, DropCurrent, ReleaseTwice, StopReader,
           JoinReader, Crash, iteratorVars
  <2>7. endOffset' \in Nat
    BY <1>7, <2>6 DEF TypeIInv, TypeOK, IteratorTypeOK
  <2>8. row' \in {row, <<>>} \/ ReadValue
    BY DEF Query, Open, OpenThrows, Throws, NextRow, GoOn, NextRowThrows,
           EndOfRows, SwitchBlock, BeginRow, ReadValue, RowThrows, UseRow,
           UseReleasedRow, TakeBlock, WaitForBlock, TakeNull, TakeReleasedBlock,
           DropStream, DropPrevious, DropCurrent, ReleaseTwice, StopReader,
           JoinReader, Crash, iteratorVars
  <2>9. row' \in Seq([block : Nat, index : Nat])
    <3>1. <<>> \in Seq([block : Nat, index : Nat])
      OBVIOUS
    <3> QED
      BY <1>8, <2>8, <3>1, Zenon DEF TypeIInv, TypeOK, IteratorTypeOK
  <2>10. cpc' \in {cpc, ret, "idle", "block", "wait", "marker", "value", "use",
                   "dropStream", "dropPrevious", "dropCurrent", "stopReader",
                   "join", "begin", "closed"}
    BY DEF Query, Open, OpenThrows, Throws, NextRow, GoOn, NextRowThrows,
           EndOfRows, SwitchBlock, BeginRow, ReadValue, RowThrows, UseRow,
           UseReleasedRow, TakeBlock, WaitForBlock, TakeNull, TakeReleasedBlock,
           DropStream, DropPrevious, DropCurrent, ReleaseTwice, StopReader,
           JoinReader, Crash
  <2>11. cpc' \in {"closed", "idle", "block", "wait", "woken", "marker", "begin",
                   "value", "taken", "use", "dropStream", "dropPrevious",
                   "dropCurrent", "stopReader", "join"}
    BY <2>10 DEF TypeIInv, TypeOK, IteratorTypeOK
  <2> QED
    BY <2>2, <2>3, <2>5, <2>7, <2>9, <2>11 DEF IteratorTypeOK
<1>10. file' = file /\ scans' = scans
  BY DEF Query, Open, OpenThrows, Throws, NextRow, GoOn, NextRowThrows,
           EndOfRows, SwitchBlock, BeginRow, ReadValue, RowThrows, UseRow,
           UseReleasedRow, TakeBlock, WaitForBlock, TakeNull, TakeReleasedBlock,
           DropStream, DropPrevious, DropCurrent, ReleaseTwice, StopReader,
           JoinReader, Crash, scanVars
<1>11. ScanTypeOK'
  <2>1. delivered' = delivered \/ UseRow
    BY DEF Query, Open, OpenThrows, Throws, NextRow, GoOn, NextRowThrows,
           EndOfRows, SwitchBlock, BeginRow, ReadValue, RowThrows, UseRow,
           UseReleasedRow, TakeBlock, WaitForBlock, TakeNull, TakeReleasedBlock,
           DropStream, DropPrevious, DropCurrent, ReleaseTwice, StopReader,
           JoinReader, Crash, scanVars
  <2>2. delivered' \in Seq(Seq(Nat \X Nat))
    BY <2>1, UseRowTypes DEF TypeIInv, TypeOK, ScanTypeOK
  <2>3. /\ outcome' \in {outcome, "open", "threw", "eof"}
        /\ fault' \in {fault, "row", "null", "read", "release"}
    BY DEF Query, Open, OpenThrows, Throws, NextRow, GoOn, NextRowThrows,
           EndOfRows, SwitchBlock, BeginRow, ReadValue, RowThrows, UseRow,
           UseReleasedRow, TakeBlock, WaitForBlock, TakeNull, TakeReleasedBlock,
           DropStream, DropPrevious, DropCurrent, ReleaseTwice, StopReader,
           JoinReader, Crash, scanVars, readerSide
  <2>4. complete' \in {complete, FALSE} /\ limitHit' = limitHit
    BY DEF Query, Open, OpenThrows, Throws, NextRow, GoOn, NextRowThrows,
           EndOfRows, SwitchBlock, BeginRow, ReadValue, RowThrows, UseRow,
           UseReleasedRow, TakeBlock, WaitForBlock, TakeNull, TakeReleasedBlock,
           DropStream, DropPrevious, DropCurrent, ReleaseTwice, StopReader,
           JoinReader, Crash, scanVars, readerSide
  <2>5. complete' \in BOOLEAN /\ limitHit' \in BOOLEAN
    BY <2>4 DEF TypeIInv, TypeOK, ScanTypeOK
  <2> QED
    BY <1>10, <2>2, <2>3, <2>5 DEF TypeIInv, TypeOK, ScanTypeOK
<1>12. LineExists'
  <2>1. Open => rpc = "unstarted"
    BY DEF Open, TypeIInv, NotStarted
  <2> QED
    BY <1>1, <1>4, <1>10, <2>1 DEF TypeIInv, LineExists
<1>13. NotStarted'
  <2>1. outcome' # "new" \/ (outcome' = outcome /\ ~ Open)
    BY DEF Query, Open, OpenThrows, Throws, NextRow, GoOn, NextRowThrows,
           EndOfRows, SwitchBlock, BeginRow, ReadValue, RowThrows, UseRow,
           UseReleasedRow, TakeBlock, WaitForBlock, TakeNull, TakeReleasedBlock,
           DropStream, DropPrevious, DropCurrent, ReleaseTwice, StopReader,
           JoinReader, Crash, scanVars
  <2> QED
    BY <1>4, <2>1 DEF TypeIInv, NotStarted
<1>14. HasBlock'
  <2>1. CASE TakeBlock
    BY <1>3, <1>7, <2>1 DEF TakeBlock, HasBlock, NoBlock, BM!NoBlock
  <2>2. CASE ~ TakeBlock
    <3>1. \/ cpc' \notin {"marker", "begin", "value", "taken"}
          \/ cpc' = cpc /\ cblock' = cblock
          \/ cpc' = "marker" /\ cblock' = cblock /\ cblock # NoBlock
          \/ cpc \in {"marker", "begin", "value", "taken"} /\ cblock' = cblock
      BY <2>2 DEF Query, Open, OpenThrows, Throws, NextRow, GoOn, NextRowThrows,
           EndOfRows, SwitchBlock, BeginRow, ReadValue, RowThrows, UseRow,
           UseReleasedRow, TakeBlock, WaitForBlock, TakeNull, TakeReleasedBlock,
           DropStream, DropPrevious, DropCurrent, ReleaseTwice, StopReader,
           JoinReader, Crash, iteratorVars
    <3> QED
      BY <3>1 DEF TypeIInv, HasBlock
  <2> QED
    BY <2>1, <2>2
<1>15. RowPointers'
  <2>1. CASE ReadValue
    BY <1>8, <2>1
  <2>2. CASE row' = <<>>
    BY <2>2 DEF RowPointers
  <2>3. CASE row' = row
    BY <1>2, <2>3, RowPointersKept
  <2> QED
    BY <2>1, <2>2, <2>3
    DEF Query, Open, OpenThrows, Throws, NextRow, GoOn, NextRowThrows,
           EndOfRows, SwitchBlock, BeginRow, ReadValue, RowThrows, UseRow,
           UseReleasedRow, TakeBlock, WaitForBlock, TakeNull, TakeReleasedBlock,
           DropStream, DropPrevious, DropCurrent, ReleaseTwice, StopReader,
           JoinReader, Crash, iteratorVars
<1> QED
  BY <1>2, <1>5, <1>6, <1>9, <1>11, <1>12, <1>13, <1>14, <1>15
  DEF TypeIInv, TypeOK, Grown

LEMMA NewScanTypes ==
  ASSUME TypeIInv, BM!TypeOK', NewScan
  PROVE  TypeIInv'
<1>1. sBlockNumber \in Nat /\ sBlockNumber' = sBlockNumber + 1
  BY DEF NewScan, BM!CreateBlock, TypeIInv, TypeOK, BM!TypeOK
<1>2. Grown
  <2> DEFINE none == {}
  <2>1. store' = [b \in 1 .. sBlockNumber' |->
                    IF b = sBlockNumber' THEN Empty
                    ELSE IF b \in none THEN MarkedAt(store[b], "CC", line, col)
                    ELSE store[b]]
    BY DEF NewScan
  <2>2. none \in SUBSET (1 .. sBlockNumber)
    OBVIOUS
  <2>3. Empty \in Contents
    BY ContentTypes
  <2> HIDE DEF none
  <2> QED
    BY <1>1, <2>1, <2>2, <2>3, GrownNewBlock
<1>3. ReaderTypeOK'
  <2>1. moreLines' \in BOOLEAN
    BY DEF NewScan
  <2> QED
    BY <1>1, <2>1 DEF NewScan, ReaderTypeOK
<1>4. SharedTypeOK'
  <2>1. continue' \in BOOLEAN /\ streamOpen' \in BOOLEAN
    BY DEF NewScan
  <2> QED
    BY <2>1 DEF NewScan, SharedTypeOK
<1>5. IteratorTypeOK'
  BY <1>1 DEF NewScan, IteratorTypeOK, NoBlock, BM!NoBlock
<1>6. ScanTypeOK'
  <2>1. complete' \in BOOLEAN /\ limitHit' \in BOOLEAN
    BY DEF NewScan, TypeIInv, TypeOK, ScanTypeOK
  <2>2. scans' \in 0 .. MaxScans
    BY ScanAssumption DEF NewScan, TypeIInv, TypeOK, ScanTypeOK
  <2>3. file' \in Files /\ delivered' = <<>> /\ outcome' = "new" /\ fault' = fault
    BY DEF NewScan
  <2> QED
    BY <2>1, <2>2, <2>3 DEF TypeIInv, TypeOK, ScanTypeOK
<1>7. LineExists'
  BY ScanAssumption DEF NewScan, LineExists
<1>8. NotStarted' /\ HasBlock' /\ RowPointers'
  BY DEF NewScan, NotStarted, HasBlock, RowPointers
<1> QED
  BY <1>2, <1>3, <1>4, <1>5, <1>6, <1>7, <1>8 DEF TypeIInv, TypeOK, Grown

LEMMA TypeStep ==
  ASSUME TypeIInv, BM!TypeOK', [Next]_vars
  PROVE  TypeIInv'
<1>1. CASE Reader
  BY <1>1, ReaderTypes
<1>2. CASE Query
  BY <1>2, QueryTypes
<1>3. CASE NewScan
  BY <1>3, NewScanTypes
<1>4. CASE NewScanThrows
  <2>1. scans' \in 0 .. MaxScans
    BY <1>4, ScanAssumption DEF NewScanThrows, TypeIInv, TypeOK, ScanTypeOK
  <2>2. /\ UNCHANGED <<sBlockNumber, store, readerVars, queue, continue, streamOpen,
                       cpc, iteratorVars>>
        /\ UNCHANGED <<file, delivered, outcome, complete, limitHit, fault>>
    BY <1>4 DEF NewScanThrows, BM!CreateBlockThrows
  <2>3. StoreTypeOK' /\ ReaderTypeOK' /\ SharedTypeOK' /\ IteratorTypeOK'
    BY <2>2 DEF TypeIInv, TypeOK, StoreTypeOK, ReaderTypeOK, SharedTypeOK,
                IteratorTypeOK, readerVars, iteratorVars
  <2>4. ScanTypeOK'
    BY <2>1, <2>2 DEF TypeIInv, TypeOK, ScanTypeOK
  <2>5. LineExists' /\ NotStarted' /\ HasBlock' /\ RowPointers'
    BY <2>2 DEF TypeIInv, LineExists, NotStarted, HasBlock, RowPointers,
                readerVars, iteratorVars
  <2> QED
    BY <2>3, <2>4, <2>5 DEF TypeIInv, TypeOK
<1>5. CASE Abandon \/ SpuriousWakeup
  <2>1. /\ UNCHANGED <<sBlockNumber, store, readerVars, queue, continue, streamOpen,
                       iteratorVars>>
        /\ UNCHANGED <<scans, file, delivered, limitHit, fault>>
        /\ outcome' \in {outcome, "abandoned"} /\ complete' \in {complete, FALSE}
        /\ cpc' \in {"dropStream", "woken"}
    BY <1>5 DEF Abandon, SpuriousWakeup, GoOn, readerSide, readerVars,
                iteratorVars, scanVars, managerVars
  <2>2. StoreTypeOK' /\ ReaderTypeOK' /\ SharedTypeOK' /\ IteratorTypeOK'
    BY <2>1 DEF TypeIInv, TypeOK, StoreTypeOK, ReaderTypeOK, SharedTypeOK,
                IteratorTypeOK, readerVars, iteratorVars
  <2>3. complete' \in BOOLEAN
    BY <2>1 DEF TypeIInv, TypeOK, ScanTypeOK
  <2>4. ScanTypeOK'
    BY <2>1, <2>3 DEF TypeIInv, TypeOK, ScanTypeOK
  <2>5. LineExists' /\ NotStarted' /\ HasBlock' /\ RowPointers'
    BY <2>1 DEF TypeIInv, LineExists, NotStarted, HasBlock, RowPointers,
                readerVars, iteratorVars
  <2> QED
    BY <2>2, <2>4, <2>5 DEF TypeIInv, TypeOK
<1>6. CASE UNCHANGED vars
  <2>1. StoreTypeOK' /\ ReaderTypeOK' /\ SharedTypeOK'
    BY <1>6 DEF TypeIInv, TypeOK, StoreTypeOK, ReaderTypeOK, SharedTypeOK, vars,
                managerVars, readerVars
  <2>2. IteratorTypeOK' /\ ScanTypeOK'
    BY <1>6 DEF TypeIInv, TypeOK, IteratorTypeOK, ScanTypeOK, vars, managerVars,
                iteratorVars, scanVars
  <2>3. LineExists' /\ NotStarted' /\ HasBlock' /\ RowPointers'
    BY <1>6 DEF TypeIInv, LineExists, NotStarted, HasBlock, RowPointers, vars,
                managerVars, readerVars, iteratorVars, scanVars
  <2> QED
    BY <2>1, <2>2, <2>3 DEF TypeIInv, TypeOK
<1> QED
  BY <1>1, <1>2, <1>3, <1>4, <1>5, <1>6 DEF Next, Environment, Stopped

LEMMA SpecTypes == Spec => []TypeIInv
<1>1. TypeIInv /\ BM!TypeOK' /\ [Next]_vars => TypeIInv'
  BY TypeStep
<1> QED
  BY <1>1, InitTypes, ManagerTypes, PTL DEF Spec

(* The variables have their types.  This takes more than the types: that   *)
(* the parser never looks for a line behind the last one, that the store   *)
(* only grows, and that each pointer of a row points to a cell.            *)
THEOREM TypeCorrect == Spec => []TypeOK
  BY SpecTypes, PTL DEF TypeIInv

-----------------------------------------------------------------------------
(* The queue.                                                              *)

UniqueQueue == \A i, j \in DOMAIN queue : queue[i] = queue[j] => i = j

LEMMA PushedQueue ==
  ASSUME queue \in Seq(Nat \ {NoBlock}), rblock \in Nat \ {NoBlock}, queue' = Append(queue, rblock)
  PROVE  /\ Queued' = Queued \cup {rblock}
         /\ UniqueQueue /\ rblock \notin Queued => UniqueQueue'
<1>1. /\ DOMAIN queue = 1 .. Len(queue) /\ Len(queue) \in Nat
      /\ DOMAIN queue' = 1 .. Len(queue) + 1
      /\ \A i \in DOMAIN queue : queue'[i] = queue[i]
      /\ queue'[Len(queue) + 1] = rblock
  OBVIOUS
<1>2. Queued' = Queued \cup {rblock}
  <2>1. ASSUME NEW b \in Queued' PROVE b \in Queued \cup {rblock}
    BY <1>1, <2>1 DEF Queued
  <2>2. ASSUME NEW b \in Queued \cup {rblock} PROVE b \in Queued'
    BY <1>1, <2>2 DEF Queued
  <2> QED
    BY <2>1, <2>2
<1>3. ASSUME UniqueQueue, rblock \notin Queued
      PROVE  UniqueQueue'
  BY <1>1, <1>3 DEF UniqueQueue, Queued
<1> QED
  BY <1>2, <1>3

LEMMA PoppedQueue ==
  ASSUME queue \in Seq(Nat \ {NoBlock}), queue # <<>>, queue' = Tail(queue), UniqueQueue
  PROVE  /\ Queued' = Queued \ {Head(queue)}
         /\ Head(queue) \in Queued
         /\ UniqueQueue'
<1>1. /\ DOMAIN queue = 1 .. Len(queue) /\ Len(queue) \in Nat /\ Len(queue) # 0
      /\ DOMAIN queue' = 1 .. Len(queue) - 1
      /\ \A i \in DOMAIN queue' : queue'[i] = queue[i + 1]
      /\ Head(queue) = queue[1]
  BY HeadTailProperties
<1>2. Queued' = Queued \ {Head(queue)}
  <2>1. ASSUME NEW b \in Queued' PROVE b \in Queued \ {Head(queue)}
    <3>1. PICK i \in DOMAIN queue' : queue'[i] = b
      BY DEF Queued
    <3>2. i + 1 \in DOMAIN queue /\ 1 \in DOMAIN queue /\ i + 1 # 1 /\ queue[i + 1] = b
      BY <1>1, <3>1
    <3>3. queue[i + 1] # queue[1]
      BY <3>2 DEF UniqueQueue
    <3> QED
      BY <1>1, <3>2, <3>3 DEF Queued
  <2>2. ASSUME NEW b \in Queued \ {Head(queue)} PROVE b \in Queued'
    <3>1. PICK i \in DOMAIN queue : queue[i] = b
      BY DEF Queued
    <3>2. i # 1 /\ i - 1 \in DOMAIN queue' /\ queue'[i - 1] = b
      BY <1>1, <3>1
    <3> QED
      BY <3>2 DEF Queued
  <2> QED
    BY <2>1, <2>2
<1>3. UniqueQueue'
  BY <1>1 DEF UniqueQueue
<1>4. Head(queue) \in Queued
  BY <1>1 DEF Queued
<1> QED
  BY <1>2, <1>3, <1>4

LEMMA EmptiedQueue ==
  ASSUME queue' = <<>>
  PROVE  Queued' = {} /\ UniqueQueue'
  BY DEF Queued, UniqueQueue

-----------------------------------------------------------------------------
(* OneOwner is inductive, given the types: a new block has a new number.   *)

LEMMA Numbers ==
  ASSUME TypeIInv
  PROVE  /\ sBlockNumber \in Nat /\ NoBlock = 0
         /\ blocks \subseteq 1 .. sBlockNumber
         /\ queue \in Seq(Nat \ {NoBlock}) /\ NoBlock \notin Queued
<1>1. queue \in Seq(Nat \ {NoBlock})
  BY DEF TypeIInv, TypeOK, SharedTypeOK
<1>2. NoBlock \notin Queued
  BY <1>1 DEF Queued
<1> QED
  BY <1>1, <1>2
  DEF TypeIInv, TypeOK, BM!TypeOK, NoBlock, BM!NoBlock

(* A step after which the same blocks are held.                            *)
LEMMA OwnersKept ==
  ASSUME OneOwner, limitHit' = limitHit, blocks \subseteq blocks',
         UNCHANGED <<queue, rblock, cblock, previousBlock>>,
         Fetching => Fetching' \/ cblock # previousBlock \/ cblock = NoBlock
  PROVE  OneOwner'
  BY DEF OneOwner, Held, Queued, NoBlock, BM!NoBlock

LEMMA ReaderOwner ==
  ASSUME TypeIInv, OneOwner, Reader
  PROVE  OneOwner'
<1>0. /\ sBlockNumber \in Nat /\ NoBlock = 0
      /\ blocks \subseteq 1 .. sBlockNumber
      /\ queue \in Seq(Nat \ {NoBlock}) /\ NoBlock \notin Queued
  BY Numbers
<1> USE <1>0
<1>1. CASE AddToNextBlockThrows
  BY <1>1 DEF AddToNextBlockThrows, OneOwner
<1>2. UNCHANGED <<cblock, previousBlock>> /\ cpc' \in {cpc, Notified}
  BY DEF Reader, AddValue, AddToNextBlock, AddToNextBlockThrows, HandOver,
         EndLine, NextLine, LeaveLoop, Finish, NotifyEnd, ReadClosedStream,
         WriteReleasedBlock, WriteBeyondBlock, Crash, querySide, iteratorVars
<1>3. Fetching' = Fetching
  BY <1>2 DEF Fetching, Notified
<1>4. ASSUME rblock \in blocks, queue' = Append(queue, rblock),
             rblock' \notin 1 .. sBlockNumber, rblock' \in blocks' \cup {NoBlock},
             blocks \subseteq blocks', limitHit' = limitHit
      PROVE  OneOwner'
  <2> SUFFICES ASSUME ~ limitHit PROVE OneOwner'
    BY <1>4 DEF OneOwner
  <2>1. rblock # NoBlock /\ rblock \notin Queued
    BY <1>4 DEF OneOwner
  <2>2. Queued' = Queued \cup {rblock} /\ UniqueQueue'
    BY <1>4, <2>1, PushedQueue DEF OneOwner, UniqueQueue
  <2>3. Held \subseteq 1 .. sBlockNumber
    BY DEF OneOwner
  <2>4. Held' \subseteq Held \cup ({rblock'} \ {NoBlock})
    BY <1>2, <2>1, <2>2 DEF Held, NoBlock, BM!NoBlock
  <2>5. Held' \subseteq blocks'
    BY <1>4, <2>4 DEF OneOwner
  <2>6. rblock' \notin Queued' /\ (rblock' # NoBlock => rblock' \notin {cblock, previousBlock})
    <3>1. Queued \subseteq 1 .. sBlockNumber
      BY <2>3 DEF Held
    <3>2. Queued' \subseteq 1 .. sBlockNumber
      BY <1>4, <2>2, <3>1
    <3>3. cblock \in {NoBlock} \cup 1 .. sBlockNumber
          /\ previousBlock \in {NoBlock} \cup 1 .. sBlockNumber
      BY <2>3 DEF Held
    <3> QED
      BY <1>4, <3>2, <3>3
  <2>7. Queued' \cap {cblock, previousBlock} = {}
    BY <2>1, <2>2 DEF OneOwner
  <2> QED
    BY <1>2, <1>3, <2>2, <2>5, <2>6, <2>7 DEF OneOwner, UniqueQueue, NoBlock, BM!NoBlock
<1>5. CASE AddToNextBlock
  BY <1>4, <1>5 DEF AddToNextBlock, HandOver, BM!CreateBlock
<1>6. CASE Finish
  BY <1>4, <1>6 DEF Finish, managerVars
<1>7. CASE ~ (AddToNextBlock \/ AddToNextBlockThrows \/ Finish)
  <2>1. UNCHANGED <<blocks, queue, rblock, limitHit>>
    BY <1>7
    DEF Reader, AddValue, EndLine, NextLine, LeaveLoop, NotifyEnd,
        ReadClosedStream, WriteReleasedBlock, WriteBeyondBlock, Crash,
        managerVars, readerVars
  <2> QED
    BY <1>2, <1>3, <2>1, OwnersKept
<1> QED
  BY <1>1, <1>5, <1>6, <1>7

LEMMA QueryOwner ==
  ASSUME TypeIInv, OneOwner, Query
  PROVE  OneOwner'
<1>0. /\ sBlockNumber \in Nat /\ NoBlock = 0
      /\ blocks \subseteq 1 .. sBlockNumber
      /\ queue \in Seq(Nat \ {NoBlock}) /\ NoBlock \notin Queued
  BY Numbers
<1> USE <1>0
<1>1. limitHit' = limitHit
  BY DEF Query, Open, OpenThrows, Throws, NextRow, GoOn, NextRowThrows,
         EndOfRows, SwitchBlock, BeginRow, ReadValue, RowThrows, UseRow,
         UseReleasedRow, TakeBlock, WaitForBlock, TakeNull, TakeReleasedBlock,
         DropStream, DropPrevious, DropCurrent, ReleaseTwice, StopReader,
         JoinReader, Crash, readerSide
<1> SUFFICES ASSUME ~ limitHit PROVE OneOwner'
  BY <1>1 DEF OneOwner
<1>2. /\ Held \subseteq blocks /\ UniqueQueue
      /\ Queued \cap {rblock, cblock, previousBlock} = {}
      /\ rblock # NoBlock => rblock \notin {cblock, previousBlock}
      /\ cblock # NoBlock /\ cblock = previousBlock => Fetching
  BY DEF OneOwner, UniqueQueue
<1>3. CASE TakeBlock
  <2>1. /\ queue # <<>> /\ queue' = Tail(queue) /\ cblock' = Head(queue)
        /\ UNCHANGED <<blocks, rblock, previousBlock>>
    BY <1>3 DEF TakeBlock, managerVars
  <2>2. Queued' = Queued \ {Head(queue)} /\ Head(queue) \in Queued /\ UniqueQueue'
    BY <1>2, <2>1, PoppedQueue
  <2>3. Held' \subseteq Held
    BY <2>1, <2>2 DEF Held, NoBlock, BM!NoBlock
  <2> QED
    BY <1>2, <2>1, <2>2, <2>3 DEF OneOwner, UniqueQueue, NoBlock, BM!NoBlock
<1>4. CASE SwitchBlock
  <2>1. /\ previousBlock' = cblock
        /\ UNCHANGED <<queue, rblock, cblock>>
        /\ blocks' = blocks \ {previousBlock}
        /\ Fetching' /\ ~ Fetching
    BY <1>4 DEF SwitchBlock, AtSwitch, Fetching, BM!Release, BM!managerVars,
                BM!NoBlock
  <2>2. Queued' = Queued
    BY <2>1 DEF Queued
  <2>3. Held' \subseteq Held \ {previousBlock}
    BY <1>2, <2>1, <2>2 DEF Held, NoBlock, BM!NoBlock
  <2> QED
    BY <1>2, <2>1, <2>2, <2>3 DEF OneOwner, UniqueQueue, NoBlock, BM!NoBlock
<1>5. CASE DropPrevious
  <2>1. /\ previousBlock' = NoBlock
        /\ UNCHANGED <<queue, rblock, cblock>>
        /\ blocks' = blocks \ {previousBlock}
        /\ ~ Fetching
    BY <1>5 DEF DropPrevious, Fetching, BM!Release, BM!managerVars, BM!NoBlock
  <2>2. Queued' = Queued
    BY <2>1 DEF Queued
  <2>3. Held' \subseteq Held \ {previousBlock}
    BY <1>2, <2>1, <2>2 DEF Held, NoBlock, BM!NoBlock
  <2> QED
    BY <1>2, <2>1, <2>2, <2>3 DEF OneOwner, UniqueQueue, NoBlock, BM!NoBlock
<1>6. CASE DropCurrent
  <2>1. /\ cblock' = NoBlock
        /\ UNCHANGED <<queue, rblock, previousBlock>>
        /\ blocks' = blocks \ {cblock}
        /\ ~ Fetching
    BY <1>6 DEF DropCurrent, Fetching, BM!Release, BM!managerVars, BM!NoBlock
  <2>2. Queued' = Queued
    BY <2>1 DEF Queued
  <2>3. Held' \subseteq Held \ {cblock}
    BY <1>2, <2>1, <2>2 DEF Held, NoBlock, BM!NoBlock
  <2> QED
    BY <1>2, <2>1, <2>2, <2>3 DEF OneOwner, UniqueQueue, NoBlock, BM!NoBlock
<1>7. CASE JoinReader
  <2>1. /\ queue' = <<>> /\ rblock' = NoBlock
        /\ UNCHANGED <<blocks, cblock, previousBlock>>
        /\ ~ Fetching
    BY <1>7 DEF JoinReader, Fetching, managerVars, iteratorVars
  <2>2. Queued' = {} /\ UniqueQueue'
    BY <2>1, EmptiedQueue
  <2>3. Held' \subseteq Held
    BY <2>1, <2>2 DEF Held, NoBlock, BM!NoBlock
  <2> QED
    BY <1>2, <2>1, <2>2, <2>3 DEF OneOwner, UniqueQueue, NoBlock, BM!NoBlock
<1>8. CASE ~ (TakeBlock \/ SwitchBlock \/ DropPrevious \/ DropCurrent \/ JoinReader)
  <2>1. UNCHANGED <<blocks, queue, rblock, cblock, previousBlock>>
    BY <1>8
    DEF Query, Open, OpenThrows, Throws, NextRow, GoOn, NextRowThrows,
        EndOfRows, BeginRow, ReadValue, RowThrows, UseRow, UseReleasedRow,
        WaitForBlock, TakeNull, TakeReleasedBlock, DropStream, ReleaseTwice,
        StopReader, Crash, managerVars, iteratorVars, readerVars
  <2>2. Fetching => Fetching'
    BY <1>8
    DEF Query, Open, OpenThrows, Throws, NextRow, GoOn, NextRowThrows,
        EndOfRows, BeginRow, ReadValue, RowThrows, UseRow, UseReleasedRow,
        WaitForBlock, TakeNull, TakeReleasedBlock, DropStream, ReleaseTwice,
        StopReader, Crash, Fetching
  <2> QED
    BY <1>1, <2>1, <2>2, OwnersKept
<1> QED
  BY <1>3, <1>4, <1>5, <1>6, <1>7, <1>8

LEMMA EnvironmentOwner ==
  ASSUME TypeIInv, OneOwner, Environment
  PROVE  OneOwner'
<1>0. /\ sBlockNumber \in Nat /\ NoBlock = 0
      /\ blocks \subseteq 1 .. sBlockNumber
      /\ queue \in Seq(Nat \ {NoBlock}) /\ NoBlock \notin Queued
  BY Numbers
<1> USE <1>0
<1>1. CASE NewScan
  <2>1. /\ queue' = <<>> /\ cblock' = NoBlock /\ previousBlock' = NoBlock
        /\ rblock' = sBlockNumber + 1 /\ rblock' \in blocks'
    BY <1>1 DEF NewScan, BM!CreateBlock
  <2>2. Queued' = {} /\ UniqueQueue'
    BY <2>1, EmptiedQueue
  <2>3. Held' \subseteq {rblock'}
    BY <2>1, <2>2 DEF Held, NoBlock, BM!NoBlock
  <2> QED
    BY <2>1, <2>2, <2>3 DEF OneOwner, UniqueQueue, NoBlock, BM!NoBlock
<1>2. CASE NewScanThrows
  <2>1. UNCHANGED <<blocks, queue, rblock, cblock, previousBlock, limitHit, cpc>>
    BY <1>2 DEF NewScanThrows, BM!CreateBlockThrows, readerVars, iteratorVars
  <2> QED
    BY <2>1, OwnersKept DEF Fetching
<1>3. CASE Abandon \/ SpuriousWakeup
  <2>1. UNCHANGED <<blocks, queue, rblock, cblock, previousBlock, limitHit>>
    BY <1>3 DEF Abandon, SpuriousWakeup, GoOn, managerVars, iteratorVars,
                readerSide
  <2>2. Fetching => Fetching'
    BY <1>3 DEF Abandon, SpuriousWakeup, GoOn, Fetching
  <2> QED
    BY <2>1, <2>2, OwnersKept
<1> QED
  BY <1>1, <1>2, <1>3 DEF Environment

LEMMA OwnerStep ==
  ASSUME TypeIInv, OneOwner, [Next]_vars
  PROVE  OneOwner'
<1>1. CASE UNCHANGED vars
  <2>1. UNCHANGED <<blocks, queue, rblock, cblock, previousBlock, limitHit, cpc>>
    BY <1>1 DEF vars, managerVars, readerVars, iteratorVars
  <2> QED
    BY <2>1, OwnersKept DEF Fetching
<1> QED
  BY <1>1, ReaderOwner, QueryOwner, EnvironmentOwner DEF Next, Stopped

(* As long as the reader is not refused a block, every block that can be   *)
(* reached exists and has one owner, whatever the interleaving.            *)
THEOREM OneOwnerHolds == Spec => []OneOwner
<1>1. Init => OneOwner
  BY DEF Init, OneOwner, Held, Queued, NoBlock, BM!NoBlock, BM!Init
<1>2. TypeIInv /\ OneOwner /\ [Next]_vars => OneOwner'
  BY OwnerStep
<1> QED
  BY <1>1, <1>2, SpecTypes, PTL DEF Spec

-----------------------------------------------------------------------------
(* What has been handed over does not change.                              *)

(* A refused block is remembered.                                          *)
LEMMA LimitStays ==
  ASSUME [Next]_vars, ~ limitHit'
  PROVE  ~ limitHit
  BY DEF Next, Stopped, Environment, NewScan, NewScanThrows, Abandon,
         SpuriousWakeup, GoOn, vars, Query, Open, OpenThrows, Throws, NextRow,
         NextRowThrows, EndOfRows, SwitchBlock, BeginRow, ReadValue, RowThrows,
         UseRow, UseReleasedRow, TakeBlock, WaitForBlock, TakeNull,
         TakeReleasedBlock, DropStream, DropPrevious, DropCurrent, ReleaseTwice,
         StopReader, JoinReader, readerSide,
         Reader, AddValue, AddToNextBlock, AddToNextBlockThrows, HandOver, EndLine,
        NextLine, LeaveLoop, Finish, NotifyEnd, ReadClosedStream,
        WriteReleasedBlock, WriteBeyondBlock, Crash

LEMMA HandedOverStep ==
  ASSUME TypeIInv, OneOwner, [Next]_vars, ~ limitHit',
         NEW b \in HandedOver
  PROVE  store'[b] = store[b]
<1>2. ~ limitHit
  BY LimitStays
<1>3. b \in 1 .. sBlockNumber /\ (rblock # NoBlock => b # rblock)
  BY <1>2, Numbers DEF HandedOver, OneOwner, Held
<1>4. CASE AddValue \/ EndLine \/ Finish
  <2>1. rblock \in 1 .. sBlockNumber /\ rblock # NoBlock
    BY <1>4, Numbers DEF AddValue, EndLine, Finish
  <2>2. \E new : store' = [store EXCEPT ![rblock] = new]
    BY <1>4 DEF AddValue, EndLine, Finish
  <2> QED
    BY <1>3, <2>1, <2>2 DEF TypeIInv, TypeOK, StoreTypeOK
<1>5. CASE AddToNextBlock
  <2>1. rblock \in 1 .. sBlockNumber /\ rblock # NoBlock
    BY <1>5, Numbers DEF AddToNextBlock, HandOver
  <2>2. sBlockNumber' = sBlockNumber + 1 /\ sBlockNumber \in Nat
    BY <1>5, Numbers DEF AddToNextBlock, BM!CreateBlock
  <2> QED
    BY <1>3, <1>5, <2>1, <2>2 DEF AddToNextBlock
<1>6. CASE NewScan
  <2>1. sBlockNumber' = sBlockNumber + 1 /\ sBlockNumber \in Nat
    BY <1>6, Numbers DEF NewScan, BM!CreateBlock
  <2> QED
    BY <1>3, <1>6, <2>1 DEF NewScan
<1>7. CASE store' = store
  BY <1>7
<1>8. ~ AddToNextBlockThrows
  BY DEF AddToNextBlockThrows
<1> QED
  BY <1>4, <1>5, <1>6, <1>7, <1>8
  DEF Next, Stopped, Environment, NewScanThrows, Abandon,
      SpuriousWakeup, GoOn, vars, Query, Open, OpenThrows, Throws, NextRow,
      NextRowThrows, EndOfRows, SwitchBlock, BeginRow, ReadValue, RowThrows,
      UseRow, UseReleasedRow, TakeBlock, WaitForBlock, TakeNull,
      TakeReleasedBlock, DropStream, DropPrevious, DropCurrent, ReleaseTwice,
      StopReader, JoinReader, readerSide, Reader, NextLine, LeaveLoop,
      NotifyEnd, ReadClosedStream, WriteReleasedBlock, WriteBeyondBlock, Crash

(* A block that has been handed over never changes again, as long as the   *)
(* reader is not refused a block.                                          *)
THEOREM HandedOverHolds == Spec => HandedOverIsFinal
<1>1. TypeIInv /\ OneOwner /\ [Next]_vars =>
        [~ limitHit' => \A b \in HandedOver : store'[b] = store[b]]_vars
  BY HandedOverStep
<1> QED
  BY <1>1, SpecTypes, OneOwnerHolds, PTL DEF Spec, HandedOverIsFinal

-----------------------------------------------------------------------------
(* Neither thread uses a block that has been released.                     *)

(* The reader has a block from the construction of the scan to the end     *)
(* marker.                                                                 *)
ReaderHasBlock ==
  /\ rpc \in {"line", "loop", "finish"} => rblock # NoBlock
  /\ rpc = "unstarted" /\ rblock = NoBlock => cpc = "closed"

LEMMA ReaderHasBlockStep ==
  ASSUME TypeIInv, ReaderHasBlock, [Next]_vars
  PROVE  ReaderHasBlock'
<1>1. CASE Reader
  <2>1. rpc # "unstarted" /\ (rpc' # "unstarted" \/ rpc' = rpc)
    BY <1>1 DEF Reader, AddValue, AddToNextBlock, AddToNextBlockThrows, HandOver, EndLine,
        NextLine, LeaveLoop, Finish, NotifyEnd, ReadClosedStream,
        WriteReleasedBlock, WriteBeyondBlock, Crash, readerVars
  <2>2. CASE AddToNextBlock
    BY <2>1, <2>2, Numbers DEF AddToNextBlock, HandOver, ReaderHasBlock, BM!CreateBlock
  <2>3. CASE Finish
    BY <2>3 DEF Finish, ReaderHasBlock
  <2>4. CASE ~ (AddToNextBlock \/ Finish)
    <3>1. /\ rblock' = rblock
          /\ rpc' \in {"line", "loop", "finish"} => rpc \in {"line", "loop", "finish"}
      BY <1>1, <2>4 DEF Reader, AddValue, AddToNextBlock, AddToNextBlockThrows, HandOver, EndLine,
        NextLine, LeaveLoop, Finish, NotifyEnd, ReadClosedStream,
        WriteReleasedBlock, WriteBeyondBlock, Crash, readerVars
    <3> QED
      BY <2>1, <3>1 DEF ReaderHasBlock
  <2> QED
    BY <2>2, <2>3, <2>4
<1>2. CASE Query
  <2>1. CASE Open
    BY <2>1 DEF Open, TypeIInv, NotStarted, ReaderHasBlock
  <2>2. CASE JoinReader
    BY <2>2 DEF JoinReader, ReaderHasBlock
  <2>3. CASE ~ (Open \/ JoinReader)
    <3>1. rpc' = rpc /\ rblock' = rblock /\ cpc # "closed"
      BY <1>2, <2>3
      DEF Query, OpenThrows, Throws, NextRow, GoOn, NextRowThrows, EndOfRows,
          SwitchBlock, BeginRow, ReadValue, RowThrows, UseRow, UseReleasedRow,
          TakeBlock, WaitForBlock, TakeNull, TakeReleasedBlock, DropStream,
          DropPrevious, DropCurrent, ReleaseTwice, StopReader, Crash, readerVars,
          AtSwitch
    <3> QED
      BY <3>1 DEF ReaderHasBlock
  <2> QED
    BY <2>1, <2>2, <2>3
<1>3. CASE Environment
  BY <1>3, Numbers
  DEF Environment, NewScan, NewScanThrows, Abandon, SpuriousWakeup, GoOn,
      readerVars, ReaderHasBlock, BM!CreateBlock
<1>4. CASE UNCHANGED vars
  BY <1>4 DEF vars, readerVars, ReaderHasBlock
<1> QED
  BY <1>1, <1>2, <1>3, <1>4 DEF Next, Stopped

LEMMA StrayStep ==
  ASSUME TypeIInv, OneOwner, ReaderHasBlock, NoStrayAccess, [Next]_vars
  PROVE  NoStrayAccess'
<1>1. limitHit => limitHit'
  BY LimitStays
<1> SUFFICES ASSUME ~ limitHit PROVE NoStrayAccess'
  BY <1>1 DEF NoStrayAccess
<1>2. Held \subseteq blocks /\ NoBlock \notin Queued
  BY Numbers DEF OneOwner
<1>3. ~ WriteReleasedBlock
  BY <1>2 DEF WriteReleasedBlock, ReaderHasBlock, Held
<1>4. ~ TakeReleasedBlock
  <2>1. queue # <<>> => Head(queue) \in Queued
    <3>1. queue \in Seq(Nat \ {NoBlock})
      BY Numbers
    <3>2. queue # <<>> => Head(queue) = queue[1] /\ 1 \in DOMAIN queue
      BY <3>1
    <3> QED
      BY <3>2 DEF Queued
  <2> QED
    BY <1>2, <2>1 DEF TakeReleasedBlock, Held
<1>5. ~ ReleaseTwice
  BY <1>2 DEF ReleaseTwice, Held
<1>6. fault' \in {fault, "stream", "overflow", "row", "null"}
  BY <1>3, <1>4, <1>5
  DEF Next, Stopped, Environment, NewScan, NewScanThrows, Abandon,
      SpuriousWakeup, GoOn, vars, Query, Open, OpenThrows, Throws, NextRow,
      NextRowThrows, EndOfRows, SwitchBlock, BeginRow, ReadValue, RowThrows,
      UseRow, UseReleasedRow, TakeBlock, WaitForBlock, TakeNull,
      DropStream, DropPrevious, DropCurrent, StopReader, JoinReader, readerSide,
      querySide, Reader, AddValue, AddToNextBlock, AddToNextBlockThrows,
      HandOver, EndLine, NextLine, LeaveLoop, Finish, NotifyEnd,
      ReadClosedStream, WriteBeyondBlock, Crash
<1> QED
  BY <1>6 DEF NoStrayAccess

(* Neither thread uses a block that the other one has released, unless the *)
(* reader was refused a block.                                             *)
THEOREM NoStrayAccessHolds == Spec => []NoStrayAccess
<1>1. Init => ReaderHasBlock /\ NoStrayAccess
  BY DEF Init, ReaderHasBlock, NoStrayAccess
<1>2. TypeIInv /\ ReaderHasBlock /\ [Next]_vars => ReaderHasBlock'
  BY ReaderHasBlockStep
<1>3. TypeIInv /\ OneOwner /\ ReaderHasBlock /\ NoStrayAccess /\ [Next]_vars =>
        NoStrayAccess'
  BY StrayStep
<1> QED
  BY <1>1, <1>2, <1>3, SpecTypes, OneOwnerHolds, PTL DEF Spec

-----------------------------------------------------------------------------
(* The markers at the ends of the blocks.                                  *)

EndTag(b) == store[b].cells[Len(store[b].cells)].tag
LastOfFile(i) == i = Len(queue) /\ rblock = NoBlock

LEMMA MarkedEnds ==
  ASSUME NEW content \in Contents, NEW tag \in {"CC", "DD"}
  PROVE  LET cells == MarkedAt(content, tag, line, col).cells
         IN  cells[Len(cells)].tag = tag
  BY DEF MarkedAt, Mark, Contents, Cells

(* A step after which the queue holds the same blocks, or is empty.        *)
LEMMA MarkersKept ==
  ASSUME TypeIInv, OneOwner, QueueEndsWithMarkers, [Next]_vars,
         \/ queue' = queue /\ (rblock' = NoBlock <=> rblock = NoBlock)
         \/ queue' = <<>>
  PROVE  QueueEndsWithMarkers'
<1> SUFFICES ASSUME ~ limitHit', NEW i \in DOMAIN queue'
             PROVE  EndTag(queue[i])' = IF LastOfFile(i)' THEN "DD" ELSE "CC"
  BY DEF QueueEndsWithMarkers, EndTag, LastOfFile
<1>1. queue' = queue /\ (rblock' = NoBlock <=> rblock = NoBlock)
  OBVIOUS
<1>2. ~ limitHit
  BY LimitStays
<1>3. queue[i] \in HandedOver
  BY <1>1, Numbers DEF HandedOver, Queued
<1>4. store'[queue[i]] = store[queue[i]]
  BY <1>3, HandedOverStep
<1> QED
  BY <1>1, <1>2, <1>4 DEF QueueEndsWithMarkers, EndTag, LastOfFile

LEMMA MarkersPushed ==
  ASSUME TypeIInv, OneOwner, QueueEndsWithMarkers, [Next]_vars,
         rblock \in blocks, queue' = Append(queue, rblock),
         NEW tag \in {"CC", "DD"}, store'[rblock] = MarkedAt(store[rblock], tag, line, col),
         rblock' = NoBlock <=> tag = "DD"
  PROVE  QueueEndsWithMarkers'
<1> SUFFICES ASSUME ~ limitHit', NEW i \in DOMAIN queue'
             PROVE  EndTag(queue[i])' = IF LastOfFile(i)' THEN "DD" ELSE "CC"
  BY DEF QueueEndsWithMarkers, EndTag, LastOfFile
<1>1. ~ limitHit
  BY LimitStays
<1>2. rblock # NoBlock /\ rblock \in 1 .. sBlockNumber
  BY Numbers
<1>3. /\ Len(queue) \in Nat /\ DOMAIN queue = 1 .. Len(queue)
      /\ Len(queue') = Len(queue) + 1
      /\ i \in 1 .. Len(queue) + 1
      /\ i \in 1 .. Len(queue) => queue'[i] = queue[i]
      /\ queue'[Len(queue) + 1] = rblock
  BY Numbers
<1>4. CASE i = Len(queue) + 1
  <2>1. store[rblock] \in Contents
    BY <1>2 DEF TypeIInv, TypeOK, StoreTypeOK
  <2>2. EndTag(queue[i])' = tag
    BY <1>3, <1>4, <2>1, MarkedEnds DEF EndTag
  <2> QED
    BY <1>3, <1>4, <2>2 DEF LastOfFile
<1>5. CASE i # Len(queue) + 1
  <2>1. i \in DOMAIN queue /\ queue'[i] = queue[i]
    BY <1>3, <1>5
  <2>2. queue[i] \in HandedOver
    BY <2>1, Numbers DEF HandedOver, Queued
  <2>3. store'[queue[i]] = store[queue[i]]
    BY <2>2, HandedOverStep
  <2>4. ~ LastOfFile(i) /\ ~ LastOfFile(i)'
    BY <1>2, <1>3, <1>5 DEF LastOfFile
  <2>5. EndTag(queue[i]) = "CC"
    BY <1>1, <2>1, <2>4 DEF QueueEndsWithMarkers, EndTag, LastOfFile
  <2> QED
    BY <2>1, <2>3, <2>4, <2>5 DEF EndTag
<1> QED
  BY <1>4, <1>5

LEMMA MarkersPopped ==
  ASSUME TypeIInv, OneOwner, QueueEndsWithMarkers, [Next]_vars,
         queue # <<>>, queue' = Tail(queue), rblock' = rblock
  PROVE  QueueEndsWithMarkers'
<1> SUFFICES ASSUME ~ limitHit', NEW i \in DOMAIN queue'
             PROVE  EndTag(queue[i])' = IF LastOfFile(i)' THEN "DD" ELSE "CC"
  BY DEF QueueEndsWithMarkers, EndTag, LastOfFile
<1>1. ~ limitHit
  BY LimitStays
<1>2. queue \in Seq(Nat \ {NoBlock})
  BY Numbers
<1>3. /\ i + 1 \in DOMAIN queue /\ queue'[i] = queue[i + 1]
      /\ i = Len(queue') <=> i + 1 = Len(queue)
  BY <1>2, HeadTailProperties
<1>4. queue[i + 1] \in HandedOver
  BY <1>3, Numbers DEF HandedOver, Queued
<1>5. store'[queue[i + 1]] = store[queue[i + 1]]
  BY <1>4, HandedOverStep
<1>6. LastOfFile(i)' <=> LastOfFile(i + 1)
  BY <1>3 DEF LastOfFile
<1>7. EndTag(queue[i + 1]) = IF LastOfFile(i + 1) THEN "DD" ELSE "CC"
  BY <1>1, <1>3 DEF QueueEndsWithMarkers, EndTag, LastOfFile
<1> QED
  BY <1>3, <1>5, <1>6, <1>7 DEF EndTag

LEMMA MarkersStep ==
  ASSUME TypeIInv, OneOwner, QueueEndsWithMarkers, [Next]_vars
  PROVE  QueueEndsWithMarkers'
<1>1. CASE AddToNextBlock
  <2>1. rblock \in 1 .. sBlockNumber /\ sBlockNumber \in Nat /\ NoBlock = 0
    BY <1>1, Numbers DEF AddToNextBlock, HandOver
  <2>2. rblock' = sBlockNumber + 1 /\ sBlockNumber' = sBlockNumber + 1
    BY <1>1 DEF AddToNextBlock, BM!CreateBlock
  <2>3. store'[rblock] = MarkedAt(store[rblock], "CC", line, col)
    BY <1>1, <2>1, <2>2 DEF AddToNextBlock
  <2>4. rblock' # NoBlock
    BY <2>1, <2>2
  <2> QED
    BY <1>1, <2>3, <2>4, MarkersPushed DEF AddToNextBlock, HandOver
<1>2. CASE Finish
  <2>1. rblock \in 1 .. sBlockNumber
    BY <1>2, Numbers DEF Finish
  <2>2. store'[rblock] = MarkedAt(store[rblock], "DD", line, col)
    BY <1>2, <2>1 DEF Finish, TypeIInv, TypeOK, StoreTypeOK
  <2> QED
    BY <1>2, <2>2, MarkersPushed DEF Finish
<1>3. CASE TakeBlock
  BY <1>3, MarkersPopped DEF TakeBlock
<1>4. CASE JoinReader \/ NewScan
  BY <1>4, MarkersKept DEF JoinReader, NewScan
<1>5. CASE AddToNextBlockThrows
  BY <1>5 DEF AddToNextBlockThrows, QueueEndsWithMarkers
<1>6. CASE queue' = queue /\ rblock' = rblock
  BY <1>6, MarkersKept
<1> QED
  BY <1>1, <1>2, <1>3, <1>4, <1>5, <1>6
  DEF Next, Stopped, Environment, NewScanThrows, Abandon, SpuriousWakeup, GoOn,
      vars, Query, Open, OpenThrows, Throws, NextRow, NextRowThrows, EndOfRows,
      SwitchBlock, BeginRow, ReadValue, RowThrows, UseRow, UseReleasedRow,
      WaitForBlock, TakeNull, TakeReleasedBlock, DropStream, DropPrevious,
      DropCurrent, ReleaseTwice, StopReader, Reader, AddValue, EndLine, NextLine,
      LeaveLoop, NotifyEnd, ReadClosedStream, WriteReleasedBlock,
      WriteBeyondBlock, Crash, readerVars

(* Each block in the queue ends with the next-block marker, but the last   *)
(* one of the file, which ends with the end marker.                        *)
THEOREM MarkersHold == Spec => []QueueEndsWithMarkers
<1>1. Init => QueueEndsWithMarkers
  BY DEF Init, QueueEndsWithMarkers
<1>2. TypeIInv /\ OneOwner /\ QueueEndsWithMarkers /\ [Next]_vars =>
        QueueEndsWithMarkers'
  BY MarkersStep
<1> QED
  BY <1>1, <1>2, SpecTypes, OneOwnerHolds, PTL DEF Spec
-----------------------------------------------------------------------------
(***************************************************************************)
(* What is in the blocks of the table scan, and what the iterator makes of *)
(* it.  As long as the reader gets its blocks, the cells of the blocks,    *)
(* one block after the other, are the values of the file in their order,   *)
(* and the iterator stands where the rows delivered so far end: hence the  *)
(* scan implements RowStream.                                              *)
(***************************************************************************)
(* The scan is not yet at its end, and was not refused a block.            *)
Reading == outcome \in {"new", "open"} /\ ~ limitHit

-----------------------------------------------------------------------------
(* The blocks of a scan are numbered as they are filled: first the current *)
(* one of the iterator, then those in the queue, then the reader's.        *)
LastFull == IF rblock = NoBlock THEN sBlockNumber ELSE sBlockNumber - 1
NextTaken == LastFull - Len(queue) + 1

Numbering ==
  /\ rblock # NoBlock => rblock = sBlockNumber
  /\ NextTaken \in 1 .. sBlockNumber + 1
  /\ \A i \in DOMAIN queue : queue[i] = NextTaken - 1 + i
  /\ cblock = NoBlock => NextTaken \in 1 .. sBlockNumber
  /\ cblock # NoBlock => cblock = NextTaken - 1

Chain == {b \in 1 .. sBlockNumber : b = cblock \/ b >= NextTaken}

-----------------------------------------------------------------------------
(* What the cells of a block say.                                          *)
Pos(x) == <<x.line, x.col>>
LastCell(b) == store[b].cells[Len(store[b].cells)]

(* Where the parser is after it has written a cell.                        *)
After(x) == IF x.tag = "AA" THEN <<x.line, x.col + 1>> ELSE <<x.line + 1, 1>>

(* A cell was written for what the file has at its place.                  *)
CellOK(x) ==
  /\ x.line \in DOMAIN file
  /\ x.tag = "AA" => x.col \in RS!Stored(x.line)
  /\ x.tag = "CC" => x.col \in DOMAIN file[x.line]
  /\ x.tag \in {"BB", "DD"} => x.col = Len(file[x.line]) + 1
  /\ x.tag = "DD" => x.line = Len(file)

Follows(x, y) ==
  /\ x.tag \in {"AA", "BB"}
  /\ IF y.tag = "DD" THEN x.tag = "BB" /\ Pos(x) = Pos(y) ELSE Pos(y) = After(x)

BlockOK(b) ==
  LET cells == store[b].cells IN
  /\ \A i \in DOMAIN cells : CellOK(cells[i])
  /\ cells # <<>> => cells[1].tag # "DD"
  /\ \A i \in 1 .. Len(cells) - 1 : Follows(cells[i], cells[i + 1])

(* Where the first cell of a block was, or will be, written.               *)
FirstPos(b) ==
  IF store[b].cells = <<>> THEN <<line, col>> ELSE Pos(store[b].cells[1])

(* A block that is full ends with a marker; the next one starts with the   *)
(* value that did not fit, or behind it.                                   *)
Closed(b) ==
  /\ store[b].cells # <<>>
  /\ LastCell(b).tag = IF b = sBlockNumber THEN "DD" ELSE "CC"

Linked(b) ==
  LET last == LastCell(b) IN
  IF last.col \in RS!Stored(last.line)
  THEN /\ store[b + 1].cells # <<>>
       /\ store[b + 1].cells[1].tag = "AA"
       /\ Pos(store[b + 1].cells[1]) = Pos(last)
  ELSE FirstPos(b + 1) = <<last.line, last.col + 1>>

ChainOK ==
  /\ \A b \in Chain : BlockOK(b)
  /\ \A b \in Chain : b <= LastFull => Closed(b)
  /\ \A b \in Chain : b < sBlockNumber => Linked(b)
  /\ cblock = NoBlock => FirstPos(NextTaken) = <<1, 1>>

-----------------------------------------------------------------------------
(* The reader goes on where the cells of its block end.                    *)
ReaderAt ==
  /\ line \in DOMAIN file
  /\ rpc \in {"unstarted", "line", "loop", "finish"} => rblock # NoBlock
  /\ rpc \in {"notify", "done"} => rblock = NoBlock
  /\ rpc = "unstarted" => line = 1 /\ col = 1 /\ store[rblock].cells = <<>>
  /\ rpc = "line" =>
       /\ col \in 1 .. Len(file[line]) + 1
       /\ store[rblock].cells # <<>> =>
            /\ LastCell(rblock).tag \in {"AA", "BB"}
            /\ After(LastCell(rblock)) = <<line, col>>
  /\ rpc \in {"loop", "finish"} =>
       /\ store[rblock].cells # <<>>
       /\ LastCell(rblock).tag = "BB" /\ Pos(LastCell(rblock)) = <<line, col>>
       /\ moreLines <=> line < Len(file)
  /\ rpc = "finish" => line = Len(file)

(* A file without lines never fills a block.                               *)
NothingToTake ==
  /\ queue = <<>> /\ cblock = NoBlock
  /\ rblock # NoBlock /\ rpc \in {"unstarted", "line", "loop"}
  /\ line = 1 /\ moreLines

-----------------------------------------------------------------------------
(* The iterator.                                                           *)
Done == Len(delivered)
Here == store[cblock].cells[offset + 1]
Origin(i) == store[row[i].block].cells[row[i].index]

(* The values of line l up to column c that are stored make up the row.    *)
RowSoFar(l, c) ==
  /\ \A i \in DOMAIN row :
       Origin(i).line = l /\ Origin(i).col \in RS!Stored(l) /\ Origin(i).col < c
  /\ \A i, j \in DOMAIN row : i < j => Origin(i).col < Origin(j).col
  /\ \A k \in RS!Stored(l) : k < c => \E i \in DOMAIN row : Origin(i).col = k
  /\ RS!Stored(l) = DOMAIN file[l] => Len(row) = c - 1

NothingBefore(l, c) ==
  /\ \A k \in RS!Stored(l) : k >= c
  /\ RS!Stored(l) = DOMAIN file[l] => c = 1

Phase ==
  /\ (outcome \in {"new", "open"}) <=>
       (cpc \notin {"closed", "dropStream", "dropPrevious", "dropCurrent",
                    "stopReader", "join"})
  /\ outcome = "new" => cpc = "idle" /\ cblock = NoBlock
  /\ Reading => continue

NoneTaken ==
  delivered = <<>> /\ offset = 0 /\ ret = "marker" /\ (cpc = "idle" \/ Fetching)

BlockTaken ==
  /\ offset \in 0 .. endOffset - 1 /\ endOffset = Len(store[cblock].cells)
  /\ Fetching => ret \in {"begin", "taken"}
  /\ cpc # "marker" => Here.tag # "DD"
  /\ Fetching => Here.tag = "CC"
  /\ cpc = "idle" =>
       /\ Done > 0 /\ offset > 0
       /\ Here.line = Done
       /\ Here.col - 1 = delivered[Done][NumColumns][2]
       /\ RS!Stored(Done) = DOMAIN file[Done] => Here.col = NumColumns + 1
       /\ \A l \in 1 .. Done - 1 : RS!FillsRow(l)
  /\ cpc # "idle" =>
       /\ \A l \in 1 .. Done : RS!FillsRow(l)
       /\ IF Here.tag = "DD" THEN Done = Len(file) ELSE Here.line = Done + 1
  /\ cpc = "marker" /\ Here.tag # "DD" => Here.col = 1
  /\ cpc = "begin" \/ (Fetching /\ ret = "begin") => NothingBefore(Done + 1, Here.col)
  /\ cpc \in {"value", "taken", "use"} \/ (Fetching /\ ret = "taken") =>
       RowSoFar(Done + 1, Here.col)
  /\ cpc \in {"value", "taken"} \/ (Fetching /\ ret = "taken") => Len(row) < NumColumns
  /\ cpc = "taken" /\ RS!Stored(Done + 1) = DOMAIN file[Done + 1] => Here.tag = "AA"
  /\ cpc = "use" =>
       /\ offset > 0
       /\ Len(row) = NumColumns /\ Origin(NumColumns).col = Here.col - 1

IteratorAt == IF cblock = NoBlock THEN NoneTaken ELSE BlockTaken

RowsOK == ~ limitHit => \A r \in DOMAIN delivered : delivered[r] \in RS!RowsOf(r)

ScanIInv ==
  /\ Phase /\ RowsOK
  /\ Reading => Numbering
  /\ Reading /\ file # <<>> => ChainOK /\ ReaderAt /\ IteratorAt
  /\ Reading /\ file = <<>> => NothingToTake /\ NoneTaken

-----------------------------------------------------------------------------
(* Types, in the form in which the proofs below use them.                  *)

LEMMA Shapes ==
  ASSUME TypeIInv
  PROVE  /\ sBlockNumber \in Nat /\ NoBlock = 0 /\ rblock \in 0 .. sBlockNumber
         /\ cblock \in 0 .. sBlockNumber /\ offset \in Nat /\ endOffset \in Nat
         /\ queue \in Seq(Nat \ {0}) /\ Len(queue) \in Nat
         /\ DOMAIN queue = 1 .. Len(queue)
         /\ line \in Nat \ {0} /\ col \in Nat \ {0}
         /\ NumColumns \in Nat \ {0} /\ Capacity \in Nat
  BY ScanAssumption
  DEF TypeIInv, TypeOK, BM!TypeOK, ReaderTypeOK, SharedTypeOK, IteratorTypeOK,
      NoBlock, BM!NoBlock

LEMMA CellShapes ==
  ASSUME TypeIInv, NEW b \in 1 .. sBlockNumber
  PROVE  /\ store[b] \in Contents
         /\ store[b].cells \in Seq(Cells)
         /\ Len(store[b].cells) \in Nat
         /\ DOMAIN store[b].cells = 1 .. Len(store[b].cells)
         /\ store[b].cells # <<>> <=> Len(store[b].cells) # 0
         /\ \A i \in 1 .. Len(store[b].cells) :
              /\ store[b].cells[i] \in Cells
              /\ store[b].cells[i].line \in Nat /\ store[b].cells[i].col \in Nat
              /\ store[b].cells[i].tag \in {"AA", "BB", "CC", "DD"}
<1>1. store[b] \in Contents
  BY DEF TypeIInv, TypeOK, StoreTypeOK
<1>2. store[b].cells \in Seq(Cells)
  BY <1>1 DEF Contents
<1>3. \A x \in Cells : x.line \in Nat /\ x.col \in Nat /\ x.tag \in {"AA", "BB", "CC", "DD"}
  BY DEF Cells
<1> QED
  BY <1>1, <1>2, <1>3

LEMMA FileShapes ==
  ASSUME TypeIInv
  PROVE  /\ file \in Seq(Seq(Nat)) /\ Len(file) \in Nat
         /\ DOMAIN file = 1 .. Len(file)
         /\ file # <<>> <=> Len(file) # 0
         /\ \A l \in 1 .. Len(file) :
              /\ file[l] \in Seq(Nat) /\ Len(file[l]) \in Nat
              /\ DOMAIN file[l] = 1 .. Len(file[l])
              /\ \A c \in 1 .. Len(file[l]) : file[l][c] \in Nat
              /\ RS!Stored(l) \subseteq 1 .. Len(file[l])
<1>1. file \in Seq(Seq(Nat))
  BY ScanAssumption DEF TypeIInv, TypeOK, ScanTypeOK
<1> QED
  BY <1>1 DEF RS!Stored

LEMMA RowShapes ==
  ASSUME TypeIInv
  PROVE  /\ Len(row) \in Nat /\ DOMAIN row = 1 .. Len(row)
         /\ \A i \in DOMAIN row :
              /\ row[i].block \in 1 .. sBlockNumber
              /\ row[i].index \in 1 .. Len(store[row[i].block].cells)
              /\ Origin(i) \in Cells
         /\ Done \in Nat /\ DOMAIN delivered = 1 .. Done
<1>1. row \in Seq([block : Nat, index : Nat]) /\ delivered \in Seq(Seq(Nat \X Nat))
  BY DEF TypeIInv, TypeOK, IteratorTypeOK, ScanTypeOK
<1>2. ASSUME NEW i \in DOMAIN row
      PROVE  /\ row[i].block \in 1 .. sBlockNumber
             /\ row[i].index \in 1 .. Len(store[row[i].block].cells)
             /\ Origin(i) \in Cells
  BY <1>2, CellShapes DEF TypeIInv, RowPointers, Origin
<1> QED
  BY <1>1, <1>2 DEF Done

-----------------------------------------------------------------------------
(* What a step writes.                                                     *)

(* A cell is added to the reader's block.                                  *)
Wrote(tag) ==
  /\ rblock \in 1 .. sBlockNumber
  /\ \A b \in 1 .. sBlockNumber :
       store'[b].cells = IF b = rblock
                         THEN Append(store[b].cells, Mark(tag, line, col))
                         ELSE store[b].cells

KeptCells ==
  \A b \in 1 .. sBlockNumber : store'[b].cells = store[b].cells

LEMMA ReaderWrites ==
  ASSUME TypeIInv
  PROVE  /\ AddValue => Wrote("AA")
         /\ AddToNextBlock \/ AddToNextBlockThrows => Wrote("CC")
         /\ EndLine => Wrote("BB")
         /\ Finish => Wrote("DD")
<1>1. rblock \in blocks => rblock \in 1 .. sBlockNumber
  BY DEF TypeIInv, TypeOK, BM!TypeOK
<1>2. store \in [1 .. sBlockNumber -> Contents] /\ sBlockNumber \in Nat
  BY DEF TypeIInv, TypeOK, StoreTypeOK, BM!TypeOK
<1>3. ASSUME AddValue PROVE Wrote("AA")
  BY <1>1, <1>2, <1>3 DEF AddValue, Wrote, Added, Value, Mark
<1>4. ASSUME AddToNextBlock PROVE Wrote("CC")
  BY <1>1, <1>2, <1>4 DEF AddToNextBlock, HandOver, Wrote, MarkedAt, BM!CreateBlock
<1>5. ASSUME AddToNextBlockThrows PROVE Wrote("CC")
  BY <1>1, <1>2, <1>5 DEF AddToNextBlockThrows, HandOver, Wrote, MarkedAt
<1>6. ASSUME EndLine PROVE Wrote("BB")
  BY <1>1, <1>2, <1>6 DEF EndLine, Wrote, MarkedAt
<1>7. ASSUME Finish PROVE Wrote("DD")
  BY <1>1, <1>2, <1>7 DEF Finish, Wrote, MarkedAt
<1> QED
  BY <1>3, <1>4, <1>5, <1>6, <1>7

LEMMA OthersKeepCells ==
  ASSUME TypeIInv, [Next]_vars,
         ~ (AddValue \/ AddToNextBlock \/ AddToNextBlockThrows \/ EndLine \/ Finish)
  PROVE  KeptCells
<1>1. CASE store' = store
  BY <1>1 DEF KeptCells
<1>2. CASE NewScan
  <2>1. sBlockNumber \in Nat /\ sBlockNumber' = sBlockNumber + 1
    BY <1>2, Shapes DEF NewScan, BM!CreateBlock
  <2> QED
    BY <1>2, <2>1 DEF NewScan, KeptCells
<1> QED
  BY <1>1, <1>2
  DEF Next, Stopped, Environment, NewScanThrows, Abandon, SpuriousWakeup, GoOn,
      vars, Query, Open, OpenThrows, Throws, NextRow, NextRowThrows, EndOfRows,
      SwitchBlock, BeginRow, ReadValue, RowThrows, UseRow, UseReleasedRow,
      TakeBlock, WaitForBlock, TakeNull, TakeReleasedBlock, DropStream,
      DropPrevious, DropCurrent, ReleaseTwice, StopReader, JoinReader,
      readerSide, Reader, NextLine, LeaveLoop, NotifyEnd, ReadClosedStream,
      WriteReleasedBlock, WriteBeyondBlock, Crash

(* A cell that was written stays as it is, in released blocks too.         *)
LEMMA OldCells ==
  ASSUME TypeIInv, [Next]_vars,
         NEW b \in 1 .. sBlockNumber, NEW i \in 1 .. Len(store[b].cells)
  PROVE  i \in 1 .. Len(store'[b].cells) /\ store'[b].cells[i] = store[b].cells[i]
<1>1. store[b].cells \in Seq(Cells)
  BY CellShapes
<1>2. ASSUME NEW tag \in {"AA", "BB", "CC", "DD"}, Wrote(tag)
      PROVE  i \in 1 .. Len(store'[b].cells) /\ store'[b].cells[i] = store[b].cells[i]
  <2>1. CASE b # rblock
    BY <1>2, <2>1 DEF Wrote
  <2>2. CASE b = rblock
    <3> DEFINE x == Mark(tag, line, col)
    <3>1. x \in Cells
      BY Shapes DEF Mark, Cells
    <3>2. store'[b].cells = Append(store[b].cells, x)
      BY <1>2, <2>2 DEF Wrote
    <3> HIDE DEF x
    <3> QED
      BY <1>1, <3>1, <3>2
  <2> QED
    BY <2>1, <2>2
<1>3. CASE KeptCells
  BY <1>3 DEF KeptCells
<1> QED
  BY <1>2, <1>3, ReaderWrites, OthersKeepCells

-----------------------------------------------------------------------------
(* Steps that leave the iterator where it is.                              *)

LEMMA IteratorKept ==
  ASSUME TypeIInv, [Next]_vars, IteratorAt,
         UNCHANGED <<cblock, offset, endOffset, row, ret, delivered, file>>,
         cblock # NoBlock => Len(store'[cblock].cells) = Len(store[cblock].cells),
         cpc' = cpc \/ (Fetching /\ Fetching')
  PROVE  IteratorAt'
<1>1. CASE cblock = NoBlock
  BY <1>1 DEF IteratorAt, NoneTaken, Fetching
<1>2. CASE cblock # NoBlock
  <2>1. BlockTaken /\ cblock \in 1 .. sBlockNumber
    BY <1>2, Shapes DEF IteratorAt
  <2>2. Here' = Here
    <3>1. offset + 1 \in 1 .. Len(store[cblock].cells)
      BY <2>1, CellShapes, Shapes DEF BlockTaken
    <3> QED
      BY <2>1, <3>1, OldCells DEF Here
  <2>3. \A i \in DOMAIN row : Origin(i)' = Origin(i)
    BY OldCells, RowShapes DEF Origin
  <2>4. Done' = Done
    BY DEF Done
  <2>5. ASSUME NEW l, NEW c, RowSoFar(l, c)
        PROVE  RowSoFar(l, c)'
    BY <2>3, <2>5 DEF RowSoFar, RS!Stored
  <2>6. \A l, c : RowSoFar(l, c) => RowSoFar(l, c)'
    BY <2>5
  <2>7. \A l, c : NothingBefore(l, c) => NothingBefore(l, c)'
    BY DEF NothingBefore, RS!Stored
  <2>8. cpc = "use" => NumColumns \in DOMAIN row
    BY <2>1, RowShapes, Shapes DEF BlockTaken
  <2>9. PICK h, d : h = Here /\ d = Done /\ h = Here' /\ d = Done'
    BY <2>2, <2>4
  <2>10. \A l : RS!FillsRow(l)' <=> RS!FillsRow(l)
    BY DEF RS!FillsRow, RS!RowsOf, RS!Stored
  <2>11. \A l : RS!Stored(l)' = RS!Stored(l)
    BY DEF RS!Stored
  <2> HIDE DEF Here, Done, Origin
  <2>12. BlockTaken'
    BY <1>2, <2>1, <2>3, <2>6, <2>7, <2>8, <2>9, <2>10, <2>11 DEF BlockTaken, Fetching
  <2> QED
    BY <1>2, <2>12 DEF IteratorAt
<1> QED
  BY <1>1, <1>2

-----------------------------------------------------------------------------
(* The reader writes a cell at the place where it is.                      *)

LEMMA NumberingReader ==
  ASSUME TypeIInv, Numbering, Reader, ~ AddToNextBlockThrows
  PROVE  /\ Numbering' /\ NextTaken' = NextTaken
         /\ LastFull' = IF AddToNextBlock \/ Finish THEN LastFull + 1 ELSE LastFull
<1> USE Shapes
<1>1. cblock' = cblock
  BY DEF Reader, AddValue, AddToNextBlock, AddToNextBlockThrows, HandOver,
         EndLine, NextLine, LeaveLoop, Finish, NotifyEnd, ReadClosedStream,
         WriteReleasedBlock, WriteBeyondBlock, Crash, querySide, iteratorVars
<1>2. CASE AddToNextBlock \/ Finish
  <2>1. rblock # NoBlock /\ rblock = sBlockNumber /\ sBlockNumber # 0
    <3>1. rblock \in blocks
      BY <1>2 DEF AddToNextBlock, HandOver, Finish
    <3> QED
      BY <3>1, Numbers DEF Numbering
  <2>2. queue' = Append(queue, rblock)
    BY <1>2 DEF AddToNextBlock, HandOver, Finish
  <2>3. /\ Len(queue') = Len(queue) + 1 /\ DOMAIN queue' = 1 .. Len(queue) + 1
        /\ \A i \in DOMAIN queue : queue'[i] = queue[i]
        /\ queue'[Len(queue) + 1] = rblock
    BY <2>2
  <2>4. LastFull = sBlockNumber - 1 /\ LastFull' = sBlockNumber
    BY <1>2, <2>1
    DEF LastFull, AddToNextBlock, BM!CreateBlock, Finish, managerVars, NoBlock,
        BM!NoBlock
  <2>5. NextTaken' = NextTaken
    BY <2>3, <2>4 DEF NextTaken
  <2>6. sBlockNumber' \in {sBlockNumber, sBlockNumber + 1}
    BY <1>2 DEF AddToNextBlock, BM!CreateBlock, Finish, managerVars
  <2>7. rblock' # NoBlock => rblock' = sBlockNumber'
    BY <1>2 DEF AddToNextBlock, Finish
  <2>8. ASSUME NEW i \in DOMAIN queue' PROVE queue'[i] = NextTaken - 1 + i
    <3>1. CASE i \in DOMAIN queue
      BY <2>3, <3>1 DEF Numbering
    <3>2. CASE i = Len(queue) + 1
      <4>1. queue'[i] = sBlockNumber
        BY <2>1, <2>3, <3>2
      <4>2. NextTaken - 1 + i = sBlockNumber
        <5>1. PICK q \in Nat, s \in Nat : q = Len(queue) /\ s = sBlockNumber
          OBVIOUS
        <5>2. NextTaken = (s - 1) - q + 1
          BY <2>4, <5>1 DEF NextTaken
        <5> QED
          BY <3>2, <5>1, <5>2
      <4> QED
        BY <4>1, <4>2
    <3> QED
      BY <2>3, <3>1, <3>2
  <2>9. NextTaken <= sBlockNumber /\ NextTaken \in Nat
    BY <2>1, <2>4 DEF NextTaken, Numbering
  <2> QED
    BY <1>1, <1>2, <2>4, <2>5, <2>6, <2>7, <2>8, <2>9 DEF Numbering
<1>3. CASE ~ (AddToNextBlock \/ Finish)
  <2>1. UNCHANGED <<queue, rblock, sBlockNumber>>
    BY <1>3
    DEF Reader, AddValue, EndLine, NextLine, LeaveLoop, NotifyEnd,
        ReadClosedStream, WriteReleasedBlock, WriteBeyondBlock, Crash,
        managerVars, readerVars
  <2> QED
    BY <1>1, <1>3, <2>1 DEF Numbering, NextTaken, LastFull
<1> QED
  BY <1>2, <1>3

LEMMA ChainWrote ==
  ASSUME TypeIInv, Numbering, ChainOK, file' = file,
         NEW r \in 1 .. sBlockNumber, r = rblock,
         NEW tag \in {"AA", "BB", "CC", "DD"}, Wrote(tag),
         CellOK(Mark(tag, line, col)),
         IF store[r].cells = <<>> THEN tag # "DD"
         ELSE Follows(LastCell(r), Mark(tag, line, col))
  PROVE  /\ \A b \in Chain :
              /\ BlockOK(b)'
              /\ store'[b].cells # <<>> /\ FirstPos(b)' = FirstPos(b)
              /\ b # r => store'[b].cells = store[b].cells
         /\ \A b \in Chain : b < sBlockNumber => Linked(b)'
         /\ LastCell(r)' = Mark(tag, line, col)
<1> DEFINE x == Mark(tag, line, col)
<1>1. x \in Cells /\ x.tag = tag /\ Pos(x) = <<line, col>>
  BY Shapes DEF Mark, Cells, Pos
<1>2. r = sBlockNumber /\ r \in Chain
  BY Shapes DEF Numbering, Wrote, Chain, NextTaken, LastFull
<1> DEFINE old == store[r].cells
           new == store'[r].cells
<1>3. /\ old \in Seq(Cells) /\ new = Append(old, x)
      /\ Len(new) = Len(old) + 1 /\ new[Len(old) + 1] = x
      /\ \A i \in 1 .. Len(old) : new[i] = old[i]
      /\ Len(old) \in Nat /\ DOMAIN new = 1 .. Len(old) + 1 /\ DOMAIN old = 1 .. Len(old)
      /\ new # <<>> /\ (old # <<>> <=> Len(old) # 0)
  <2>1. old \in Seq(Cells) /\ new = Append(old, x)
    BY <1>2, CellShapes DEF Wrote
  <2> HIDE DEF x, old, new
  <2> QED
    BY <1>1, <2>1
<1>4. \A y : CellOK(y)' <=> CellOK(y)
  BY DEF CellOK, RS!Stored
<1> HIDE DEF x
<1>5. BlockOK(r)'
  <2>1. ASSUME NEW i \in DOMAIN new PROVE CellOK(new[i])
    BY <1>2, <1>3, <2>1 DEF ChainOK, BlockOK, x
  <2>2. ASSUME NEW i \in 1 .. Len(new) - 1 PROVE Follows(new[i], new[i + 1])
    <3>1. CASE i = Len(old)
      BY <1>3, <2>2, <3>1 DEF LastCell, x
    <3>2. CASE i # Len(old)
      <4>1. i \in 1 .. Len(old) - 1 /\ new[i] = old[i] /\ new[i + 1] = old[i + 1]
        BY <1>3, <2>2, <3>2
      <4> QED
        BY <1>2, <4>1 DEF ChainOK, BlockOK
    <3> QED
      BY <3>1, <3>2
  <2>3. new[1].tag # "DD"
    <3>1. CASE old = <<>>
      BY <1>1, <1>3, <3>1 DEF Wrote
    <3>2. CASE old # <<>>
      BY <1>2, <1>3, <3>2 DEF ChainOK, BlockOK
    <3> QED
      BY <3>1, <3>2
  <2> QED
    BY <1>4, <2>1, <2>2, <2>3 DEF BlockOK, Follows, Pos, After
<1>6. FirstPos(r)' = FirstPos(r)
  <2>1. CASE old = <<>>
    BY <1>1, <1>3, <2>1 DEF FirstPos
  <2>2. CASE old # <<>>
    BY <1>3, <2>2 DEF FirstPos, Pos
  <2> QED
    BY <2>1, <2>2
<1>7. ASSUME NEW b \in Chain, b # r
      PROVE  /\ BlockOK(b)' /\ store'[b].cells # <<>> /\ FirstPos(b)' = FirstPos(b)
             /\ store'[b].cells = store[b].cells
  <2>1. store'[b].cells = store[b].cells
    BY <1>7 DEF Wrote, Chain
  <2>2. Closed(b)
    BY <1>2, <1>7, Shapes DEF ChainOK, Chain, LastFull
  <2>3. BlockOK(b)
    BY DEF ChainOK
  <2> QED
    BY <1>4, <2>1, <2>2, <2>3 DEF BlockOK, FirstPos, Closed, Follows, Pos, After
<1>8. ASSUME NEW b \in Chain, b < sBlockNumber PROVE Linked(b)'
  <2>1. b # r /\ b + 1 \in Chain
    BY <1>2, <1>8, Shapes DEF Chain, Numbering
  <2>2. LastCell(b)' = LastCell(b)
    BY <1>7, <2>1 DEF LastCell
  <2>3. Linked(b) /\ \A l : RS!Stored(l)' = RS!Stored(l)
    BY <1>8 DEF ChainOK, RS!Stored
  <2>4. store[b + 1].cells # <<>> =>
          store'[b + 1].cells[1] = store[b + 1].cells[1] /\ store'[b + 1].cells # <<>>
    BY <1>3, <1>7, <2>1
  <2>5. FirstPos(b + 1)' = FirstPos(b + 1)
    BY <1>6, <1>7, <2>1
  <2> HIDE DEF LastCell, FirstPos
  <2> QED
    BY <2>2, <2>3, <2>4, <2>5 DEF Linked
<1> QED
  BY <1>3, <1>5, <1>6, <1>7, <1>8 DEF x, LastCell

(* What the reader has just written, or not, is all that can disturb the   *)
(* chain.                                                                  *)
LEMMA ChainPushed ==
  ASSUME TypeIInv, Numbering, ChainOK, file' = file,
         UNCHANGED <<cblock, sBlockNumber>>, NextTaken' = NextTaken,
         NEW r \in 1 .. sBlockNumber, r = rblock,
         NEW tag \in {"AA", "BB", "DD"}, Wrote(tag),
         CellOK(Mark(tag, line, col)),
         IF store[r].cells = <<>> THEN tag # "DD"
         ELSE Follows(LastCell(r), Mark(tag, line, col)),
         LastFull' = IF tag = "DD" THEN LastFull + 1 ELSE LastFull
  PROVE  ChainOK'
<1>1. /\ \A b \in Chain :
           /\ BlockOK(b)'
           /\ store'[b].cells # <<>> /\ FirstPos(b)' = FirstPos(b)
           /\ b # r => store'[b].cells = store[b].cells
      /\ \A b \in Chain : b < sBlockNumber => Linked(b)'
      /\ LastCell(r)' = Mark(tag, line, col)
  BY ChainWrote
<1>2. Chain' = Chain
  BY DEF Chain
<1>3. r = sBlockNumber /\ LastFull = sBlockNumber - 1 /\ NoBlock = 0
  BY Shapes DEF Numbering, LastFull
<1>4. ASSUME NEW b \in Chain, b <= LastFull' PROVE Closed(b)'
  <2>1. CASE b = r
    BY <1>1, <1>3, <1>4, <2>1, Shapes DEF Closed, Mark
  <2>2. CASE b # r
    <3>1. b <= LastFull /\ LastCell(b)' = LastCell(b)
      BY <1>1, <1>3, <1>4, <2>2, Shapes DEF Chain, LastCell
    <3> QED
      BY <1>1, <3>1 DEF ChainOK, Closed
  <2> QED
    BY <2>1, <2>2
<1>5. ASSUME cblock = NoBlock PROVE FirstPos(NextTaken)' = <<1, 1>>
  <2>1. PICK n : n = NextTaken /\ n = NextTaken'
    OBVIOUS
  <2>2. n \in Chain
    BY <1>5, <2>1 DEF Numbering, Chain
  <2>3. FirstPos(n)' = <<1, 1>>
    BY <1>1, <1>5, <2>1, <2>2 DEF ChainOK
  <2> QED
    BY <2>1, <2>3 DEF FirstPos
<1> QED
  BY <1>1, <1>2, <1>4, <1>5 DEF ChainOK, NoBlock, BM!NoBlock

LEMMA ReaderAddsValue ==
  ASSUME TypeIInv, Numbering, ChainOK, ReaderAt, file # <<>>, AddValue
  PROVE  ChainOK' /\ ReaderAt'
<1>1. PICK r : r = rblock
  OBVIOUS
<1> DEFINE x == Mark("AA", line, col)
<1>2. /\ rblock' = r /\ r \in 1 .. sBlockNumber /\ Wrote("AA")
      /\ UNCHANGED <<cblock, sBlockNumber, file, rpc, line>>
      /\ rpc = "line" /\ col' = col + 1
      /\ LastFull' = LastFull /\ NextTaken' = NextTaken
  <2>1. Wrote("AA")
    BY ReaderWrites
  <2>2. Reader /\ ~ AddToNextBlockThrows /\ ~ AddToNextBlock /\ ~ Finish
    BY DEF Reader, AddValue, AddToNextBlockThrows, AddToNextBlock, HandOver, Finish
  <2>3. LastFull' = LastFull /\ NextTaken' = NextTaken
    BY <2>2, NumberingReader
  <2> QED
    BY <1>1, <2>1, <2>3
    DEF AddValue, Wrote, managerVars, querySide, iteratorVars, scanVars
<1>3. line \in 1 .. Len(file) /\ col \in 1 .. Len(file[line])
  BY FileShapes, Shapes DEF AddValue, LineDone, ReaderAt
<1>4. CellOK(x)
  <2>1. file[line][col] <= Capacity - 3
    <3>1. store[r].used \in Nat /\ file[line][col] \in Nat
      BY <1>2, <1>3, CellShapes, FileShapes DEF Contents
    <3>2. store[r].used + file[line][col] + 2 < Capacity
      BY <1>1 DEF AddValue, HasSizeFor
    <3> QED
      BY <3>1, <3>2, Shapes
  <2> QED
    BY <1>3, <2>1, FileShapes DEF CellOK, Mark, RS!Stored
<1>5. store[r].cells # <<>> => Follows(LastCell(r), x)
  BY <1>1, <1>2 DEF ReaderAt, Follows, Mark, Pos
<1>6. ChainOK'
  BY <1>1, <1>2, <1>4, <1>5, ChainPushed
<1>7. LastCell(r)' = x
  BY <1>1, <1>2, <1>4, <1>5, ChainWrote
<1>8. After(x) = <<line, col + 1>> /\ x.tag = "AA"
  BY DEF After, Mark
<1>9. ReaderAt'
  <2>1. LastCell(rblock)' = x
    BY <1>2, <1>7 DEF LastCell
  <2>2. col + 1 \in 1 .. Len(file[line]) + 1
    BY <1>3, FileShapes, Shapes
  <2>3. After(LastCell(rblock))' = After(x)
    BY <2>1 DEF After
  <2>4. rblock # NoBlock /\ NoBlock' = NoBlock
    BY <1>1, <1>2, Shapes DEF NoBlock, BM!NoBlock
  <2> HIDE DEF x, LastCell
  <2> QED
    BY <1>1, <1>2, <1>3, <1>8, <2>1, <2>2, <2>3, <2>4, FileShapes DEF ReaderAt
<1> QED
  BY <1>6, <1>9

LEMMA ReaderEndsLine ==
  ASSUME TypeIInv, Numbering, ChainOK, ReaderAt, file # <<>>, EndLine
  PROVE  ChainOK' /\ ReaderAt'
<1>1. PICK r : r = rblock
  OBVIOUS
<1> DEFINE x == Mark("BB", line, col)
<1>2. /\ rblock' = r /\ r \in 1 .. sBlockNumber /\ Wrote("BB")
      /\ UNCHANGED <<cblock, sBlockNumber, file, line, col>>
      /\ rpc = "line" /\ rpc' = "loop" /\ moreLines' = (line < Len(file))
      /\ LastFull' = LastFull /\ NextTaken' = NextTaken
  <2>1. Wrote("BB")
    BY ReaderWrites
  <2>2. Reader /\ ~ AddToNextBlockThrows /\ ~ AddToNextBlock /\ ~ Finish
    BY DEF Reader, EndLine, AddToNextBlockThrows, AddToNextBlock, HandOver, Finish
  <2>3. LastFull' = LastFull /\ NextTaken' = NextTaken
    BY <2>2, NumberingReader
  <2> QED
    BY <1>1, <2>1, <2>3
    DEF EndLine, Wrote, managerVars, querySide, iteratorVars, scanVars
<1>3. line \in 1 .. Len(file) /\ col = Len(file[line]) + 1
  BY FileShapes, Shapes DEF EndLine, LineDone, ReaderAt
<1>4. CellOK(x)
  BY <1>3, FileShapes DEF CellOK, Mark
<1>5. store[r].cells # <<>> => Follows(LastCell(r), x)
  BY <1>1, <1>2 DEF ReaderAt, Follows, Mark, Pos
<1>6. ChainOK'
  BY <1>1, <1>2, <1>4, <1>5, ChainPushed
<1>7. LastCell(r)' = x /\ store'[r].cells # <<>>
  <2>1. r \in Chain
    BY <1>1, <1>2, Shapes DEF Numbering, Chain, NextTaken, LastFull
  <2> QED
    BY <1>1, <1>2, <1>4, <1>5, <2>1, ChainWrote
<1>8. Pos(x) = <<line, col>> /\ x.tag = "BB"
  BY DEF Pos, Mark
<1>9. ReaderAt'
  <2>1. LastCell(rblock)' = x /\ store'[rblock'].cells # <<>>
    BY <1>2, <1>7 DEF LastCell
  <2>2. Pos(LastCell(rblock))' = Pos(x)
    BY <2>1 DEF Pos
  <2>4. rblock # NoBlock /\ NoBlock' = NoBlock
    BY <1>1, <1>2, Shapes DEF NoBlock, BM!NoBlock
  <2> HIDE DEF x, LastCell
  <2> QED
    BY <1>1, <1>2, <1>3, <1>8, <2>1, <2>2, <2>4, FileShapes DEF ReaderAt
<1> QED
  BY <1>6, <1>9

(* The value that did not fit is the first one of the new block, or it is  *)
(* lost.                                                                   *)
LEMMA OpenedBlock ==
  ASSUME NEW l \in Nat, NEW c \in Nat, NEW size \in Nat, Capacity \in Nat
  PROVE  IF size <= Capacity - 3
         THEN /\ Opened(l, c, size).cells = <<Mark("AA", l, c)>>
              /\ Opened(l, c, size).used = 1 + size
         ELSE Opened(l, c, size) = Empty
  BY DEF Opened, HasSizeFor, Empty, Added, Value, Mark

LEMMA ReaderTakesBlock ==
  ASSUME TypeIInv, Numbering, ChainOK, ReaderAt, file # <<>>, AddToNextBlock
  PROVE  ChainOK' /\ ReaderAt'
<1>1. PICK r, n : r = rblock /\ n = sBlockNumber + 1
  OBVIOUS
<1> DEFINE x == Mark("CC", line, col)
           new == store'[n]
<1>2. /\ n = sBlockNumber' /\ rblock' = n /\ r \in 1 .. sBlockNumber /\ Wrote("CC")
      /\ UNCHANGED <<cblock, file, line, rpc>>
      /\ rpc = "line" /\ col' = col + 1
      /\ LastFull' = LastFull + 1 /\ NextTaken' = NextTaken
      /\ new = Opened(line, col, file[line][col])
  <2>1. Wrote("CC")
    BY ReaderWrites
  <2>2. Reader /\ ~ AddToNextBlockThrows
    BY Shapes DEF Reader, AddToNextBlock, AddToNextBlockThrows, HandOver,
                  BM!CreateBlock, BM!CreateBlockThrows
  <2>3. LastFull' = LastFull + 1 /\ NextTaken' = NextTaken
    BY <2>2, NumberingReader
  <2>4. n \in 1 .. sBlockNumber' /\ sBlockNumber' = n
    BY <1>1, Shapes DEF AddToNextBlock, BM!CreateBlock
  <2>5. new = Opened(line, col, file[line][col])
    BY <2>4 DEF AddToNextBlock
  <2> HIDE DEF new
  <2> QED
    BY <1>1, <2>1, <2>3, <2>4, <2>5
    DEF AddToNextBlock, HandOver, Wrote, querySide, iteratorVars, scanVars
<1>3. line \in 1 .. Len(file) /\ col \in 1 .. Len(file[line])
  BY FileShapes, Shapes DEF AddToNextBlock, HandOver, LineDone, ReaderAt
<1>4. CellOK(x) /\ file[line][col] \in Nat
  BY <1>3, FileShapes DEF CellOK, Mark
<1>5. store[r].cells # <<>> => Follows(LastCell(r), x)
  BY <1>1, <1>2 DEF ReaderAt, Follows, Mark, Pos
<1>6. /\ \A b \in Chain :
           /\ BlockOK(b)'
           /\ store'[b].cells # <<>> /\ FirstPos(b)' = FirstPos(b)
           /\ b # r => store'[b].cells = store[b].cells
      /\ \A b \in Chain : b < sBlockNumber => Linked(b)'
      /\ LastCell(r)' = x
  BY <1>1, <1>2, <1>4, <1>5, ChainWrote
<1>7. /\ r = sBlockNumber /\ n = r + 1 /\ NoBlock = 0 /\ r \in Chain
      /\ Chain' = Chain \cup {n}
      /\ LastFull = r - 1
  <2>1. r = sBlockNumber /\ NoBlock = 0
    BY <1>1, <1>2, Shapes DEF Numbering
  <2>2. cblock <= sBlockNumber /\ NextTaken \in 1 .. sBlockNumber /\ LastFull = r - 1
    BY <1>1, <1>2, <2>1, Shapes DEF Numbering, NextTaken, LastFull
  <2>3. sBlockNumber' = sBlockNumber + 1
    BY <1>1, <1>2
  <2> QED
    BY <1>1, <1>2, <2>1, <2>2, <2>3, Shapes DEF Chain
<1>8. IF col \in RS!Stored(line)
      THEN new.cells = <<Mark("AA", line, col)>>
      ELSE new.cells = <<>>
  <2>1. col \in RS!Stored(line) <=> file[line][col] <= Capacity - 3
    BY <1>3, FileShapes DEF RS!Stored
  <2>2. line \in Nat /\ col \in Nat /\ Capacity \in Nat
    BY Shapes
  <2>3. PICK size \in Nat : size = file[line][col]
    BY <1>4
  <2> HIDE DEF new
  <2>4. new = Opened(line, col, size)
    BY <1>2, <2>3
  <2>5. IF size <= Capacity - 3
        THEN Opened(line, col, size).cells = <<Mark("AA", line, col)>>
        ELSE Opened(line, col, size) = Empty
    BY <2>2, OpenedBlock
  <2> QED
    BY <2>1, <2>3, <2>4, <2>5 DEF Empty
<1>9. BlockOK(n)'
  <2>1. CASE col \in RS!Stored(line)
    <3>0. PICK y : y = Mark("AA", line, col)
      OBVIOUS
    <3>1. CellOK(y)
      BY <1>3, <2>1, <3>0, FileShapes DEF CellOK, Mark
    <3>2. CellOK(y)'
      BY <1>2, <3>1 DEF CellOK, RS!Stored
    <3>3. new.cells = <<y>>
      BY <1>8, <2>1, <3>0
    <3> HIDE DEF new
    <3>4. DOMAIN new.cells = {1} /\ Len(new.cells) = 1 /\ new.cells[1] = y
      BY <3>3
    <3> QED
      BY <3>0, <3>2, <3>4 DEF BlockOK, new, Mark
  <2>2. CASE col \notin RS!Stored(line)
    BY <1>8, <2>2 DEF BlockOK
  <2> QED
    BY <2>1, <2>2
<1>10. Linked(r)'
  <2>1. x.line = line /\ x.col = col
    BY DEF Mark
  <2>2. RS!Stored(line)' = RS!Stored(line)
    BY <1>2 DEF RS!Stored
  <2>3. CASE col \in RS!Stored(line)
    <3>1. store'[r + 1].cells = <<Mark("AA", line, col)>>
      BY <1>7, <1>8, <2>3
    <3> QED
      BY <1>2, <1>6, <2>1, <2>2, <2>3, <3>1 DEF Linked, Pos, Mark
  <2>4. CASE col \notin RS!Stored(line)
    <3>1. store'[r + 1].cells = <<>>
      BY <1>7, <1>8, <2>4
    <3>2. FirstPos(r + 1)' = <<line, col + 1>>
      BY <1>2, <3>1 DEF FirstPos
    <3> QED
      BY <1>2, <1>6, <2>1, <2>2, <2>4, <3>2 DEF Linked
  <2> QED
    BY <2>3, <2>4
<1>11. ASSUME NEW b \in Chain', b <= LastFull' PROVE Closed(b)'
  <2>1. CASE b = r
    BY <1>2, <1>6, <1>7, <2>1 DEF Closed, Mark
  <2>2. CASE b # r
    <3>0. b \in Chain /\ b \in Nat /\ b <= r
      BY <1>2, <1>7, <1>11, Shapes DEF Chain
    <3>1. LastCell(b)' = LastCell(b)
      BY <1>6, <2>2, <3>0 DEF LastCell
    <3>2. b <= LastFull /\ b < sBlockNumber
      BY <1>2, <1>7, <2>2, <3>0
    <3> QED
      BY <1>2, <1>6, <1>7, <3>0, <3>1, <3>2 DEF ChainOK, Closed
  <2> QED
    BY <2>1, <2>2
<1>12. ASSUME cblock = NoBlock PROVE FirstPos(NextTaken)' = <<1, 1>>
  <2>1. PICK m : m = NextTaken /\ m = NextTaken'
    BY <1>2
  <2>2. m \in Chain
    BY <1>12, <2>1 DEF Numbering, Chain
  <2>3. FirstPos(m)' = <<1, 1>>
    BY <1>6, <1>12, <2>1, <2>2 DEF ChainOK
  <2> QED
    BY <2>1, <2>3 DEF FirstPos
<1>13. ChainOK'
  <2>1. \A b \in Chain' : BlockOK(b)'
    BY <1>6, <1>7, <1>9
  <2>2. ASSUME NEW b \in Chain', b < sBlockNumber' PROVE Linked(b)'
    BY <1>2, <1>6, <1>7, <1>10, <2>2, Shapes DEF Chain
  <2> QED
    BY <1>2, <1>11, <1>12, <2>1, <2>2 DEF ChainOK, NoBlock, BM!NoBlock
<1>14. ReaderAt'
  <2>1. /\ rblock' # NoBlock /\ NoBlock' = NoBlock
        /\ col' \in 1 .. Len(file[line]) + 1
    BY <1>2, <1>3, <1>7, FileShapes, Shapes DEF NoBlock, BM!NoBlock
  <2>2. new.cells # <<>> =>
          LastCell(n)'.tag = "AA" /\ After(LastCell(n)') = <<line, col + 1>>
    BY <1>8 DEF LastCell, After, Mark
  <2>3. LastCell(rblock)' = LastCell(n)' /\ store'[rblock'] = new
    BY <1>2 DEF LastCell
  <2>4. After(LastCell(rblock))' = After(LastCell(n)')
    BY <2>3 DEF After
  <2> HIDE DEF LastCell, new
  <2> QED
    BY <1>2, <1>3, <2>1, <2>2, <2>3, <2>4, FileShapes DEF ReaderAt
<1> QED
  BY <1>13, <1>14

LEMMA ReaderFinishes ==
  ASSUME TypeIInv, Numbering, ChainOK, ReaderAt, file # <<>>, Finish
  PROVE  ChainOK' /\ ReaderAt'
<1>1. PICK r : r = rblock
  OBVIOUS
<1> DEFINE x == Mark("DD", line, col)
<1>2. /\ rblock' = NoBlock /\ r \in 1 .. sBlockNumber /\ Wrote("DD")
      /\ UNCHANGED <<cblock, sBlockNumber, file, line, col>>
      /\ rpc = "finish" /\ rpc' = "notify"
      /\ LastFull' = LastFull + 1 /\ NextTaken' = NextTaken
  <2>1. Wrote("DD")
    BY ReaderWrites
  <2>2. Reader /\ ~ AddToNextBlockThrows
    BY DEF Reader, Finish, AddToNextBlockThrows, HandOver
  <2>3. LastFull' = LastFull + 1 /\ NextTaken' = NextTaken
    BY <2>2, NumberingReader
  <2> QED
    BY <1>1, <2>1, <2>3
    DEF Finish, Wrote, managerVars, querySide, iteratorVars, scanVars
<1>3. /\ line = Len(file) /\ line \in 1 .. Len(file) /\ store[r].cells # <<>>
      /\ LastCell(r).tag = "BB" /\ Pos(LastCell(r)) = <<line, col>>
  BY <1>1, <1>2, FileShapes DEF ReaderAt
<1>4. CellOK(x)
  <2>1. r \in Chain
    BY <1>1, <1>2, Shapes DEF Numbering, Chain, NextTaken, LastFull
  <2>2. Len(store[r].cells) \in DOMAIN store[r].cells
    BY <1>2, <1>3, CellShapes
  <2>3. CellOK(LastCell(r))
    BY <2>1, <2>2 DEF ChainOK, BlockOK, LastCell
  <2>4. col = Len(file[line]) + 1
    BY <1>3, <2>3 DEF CellOK, Pos
  <2> QED
    BY <1>3, <2>4, FileShapes DEF CellOK, Mark
<1>5. Follows(LastCell(r), x)
  BY <1>3 DEF Follows, Mark, Pos
<1>6. ChainOK'
  BY <1>1, <1>2, <1>3, <1>4, <1>5, ChainPushed
<1>7. ReaderAt'
  BY <1>2, <1>3, FileShapes DEF ReaderAt, NoBlock, BM!NoBlock
<1> QED
  BY <1>6, <1>7

(* Nothing is written.                                                     *)
LEMMA CellsUntouched ==
  ASSUME UNCHANGED <<store, sBlockNumber, file>>
  PROVE  \A b : /\ BlockOK(b) => BlockOK(b)'
                /\ Closed(b) => Closed(b)'
<1>1. ASSUME NEW b, BlockOK(b), NEW i \in DOMAIN store[b].cells
      PROVE  CellOK(store[b].cells[i])'
  BY <1>1 DEF BlockOK, CellOK, RS!Stored
<1>2. ASSUME NEW b, BlockOK(b)
      PROVE  \A i \in 1 .. Len(store[b].cells) - 1 :
               Follows(store[b].cells[i], store[b].cells[i + 1])'
  BY <1>2 DEF BlockOK, Follows, Pos, After
<1>3. ASSUME NEW b, BlockOK(b) PROVE BlockOK(b)'
  BY <1>1, <1>2, <1>3 DEF BlockOK
<1>4. ASSUME NEW b, Closed(b) PROVE Closed(b)'
  BY <1>4 DEF Closed, LastCell
<1> QED
  BY <1>3, <1>4

(* Nothing is written, and no block changes hands.                         *)
LEMMA ChainUntouched ==
  ASSUME TypeIInv, Numbering, ChainOK,
         UNCHANGED <<store, sBlockNumber, queue, rblock, cblock, file>>,
         \/ UNCHANGED <<line, col>>
         \/ rblock # NoBlock /\ store[rblock].cells # <<>>
  PROVE  ChainOK'
<1>1. LastFull' = LastFull /\ NextTaken' = NextTaken /\ Chain' = Chain
  BY DEF LastFull, NextTaken, Chain, NoBlock, BM!NoBlock
<1>2. ASSUME NEW b \in Chain PROVE FirstPos(b)' = FirstPos(b)
  <2>1. CASE UNCHANGED <<line, col>>
    BY <2>1 DEF FirstPos, Pos
  <2>2. CASE rblock # NoBlock /\ store[rblock].cells # <<>>
    <3>1. b = rblock \/ b <= LastFull
      BY <2>2, Shapes DEF Numbering, LastFull, Chain
    <3>2. store[b].cells # <<>>
      BY <2>2, <3>1 DEF ChainOK, Closed
    <3> QED
      BY <3>2 DEF FirstPos, Pos
  <2> QED
    BY <2>1, <2>2
<1>3. \A b : /\ BlockOK(b) => BlockOK(b)'
             /\ Closed(b) => Closed(b)' 
  BY CellsUntouched
<1>4. ASSUME NEW b \in Chain, b < sBlockNumber PROVE Linked(b)'
  <2>1. b + 1 \in Chain
    BY <1>4, Shapes DEF Chain, Numbering
  <2>2. FirstPos(b + 1)' = FirstPos(b + 1)
    BY <1>2, <2>1
  <2>3. Linked(b)
    BY <1>4 DEF ChainOK
  <2> QED
    BY <2>2, <2>3 DEF Linked, LastCell, Pos, RS!Stored
<1>5. ASSUME cblock = NoBlock PROVE FirstPos(NextTaken)' = <<1, 1>>
  <2>1. PICK m : m = NextTaken /\ m = NextTaken'
    BY <1>1
  <2>2. m \in Chain
    BY <1>5, <2>1 DEF Numbering, Chain
  <2>3. FirstPos(m)' = <<1, 1>>
    BY <1>2, <1>5, <2>1, <2>2 DEF ChainOK
  <2> QED
    BY <2>1, <2>3 DEF FirstPos
<1> QED
  BY <1>1, <1>3, <1>4, <1>5 DEF ChainOK, NoBlock, BM!NoBlock

(* The reader goes on in its own time: no cell is written.                 *)
LEMMA ReaderMoves ==
  ASSUME TypeIInv, Numbering, ChainOK, ReaderAt, file # <<>>, continue, Reader,
         ~ (AddValue \/ AddToNextBlock \/ AddToNextBlockThrows \/ EndLine \/ Finish)
  PROVE  ChainOK' /\ ReaderAt'
<1>1. /\ UNCHANGED <<store, sBlockNumber, queue, rblock, cblock, file>>
      /\ NextLine \/ LeaveLoop \/ NotifyEnd \/ UNCHANGED readerVars
  BY DEF Reader, NextLine, LeaveLoop, NotifyEnd, ReadClosedStream,
         WriteReleasedBlock, WriteBeyondBlock, Crash, querySide, readerVars,
         managerVars, iteratorVars, scanVars
<1>2. ChainOK'
  BY <1>1, ChainUntouched DEF NextLine, LeaveLoop, NotifyEnd, readerVars, ReaderAt
<1>3. ReaderAt'
  <2>0. LastCell(rblock)' = LastCell(rblock) /\ NoBlock' = NoBlock
    BY <1>1 DEF LastCell, NoBlock, BM!NoBlock
  <2>1. CASE NextLine
    <3>1. line < Len(file) /\ line + 1 \in DOMAIN file
      BY <2>1, FileShapes, Shapes DEF NextLine, ReaderAt
    <3>2. line' = line + 1 /\ col' = 1 /\ rpc' = "line"
      BY <2>1 DEF NextLine
    <3>3. After(LastCell(rblock))' = <<line + 1, 1>> /\ LastCell(rblock).tag = "BB"
      BY <2>0, <2>1 DEF NextLine, ReaderAt, After, Pos
    <3>4. 1 \in 1 .. Len(file[line + 1]) + 1
      BY <3>1, FileShapes
    <3> HIDE DEF LastCell
    <3> QED
      BY <1>1, <2>0, <2>1, <3>1, <3>2, <3>3, <3>4 DEF NextLine, ReaderAt
  <2>2. CASE LeaveLoop
    <3>1. line = Len(file)
      BY <2>2, FileShapes, Shapes DEF LeaveLoop, ReaderAt
    <3>2. Pos(LastCell(rblock))' = Pos(LastCell(rblock))
      BY <2>0 DEF Pos
    <3> HIDE DEF LastCell
    <3> QED
      BY <1>1, <2>0, <2>2, <3>1, <3>2 DEF LeaveLoop, ReaderAt
  <2>3. CASE NotifyEnd
    BY <1>1, <2>0, <2>3 DEF NotifyEnd, ReaderAt
  <2>4. CASE UNCHANGED readerVars
    <3>1. /\ Pos(LastCell(rblock))' = Pos(LastCell(rblock))
          /\ After(LastCell(rblock))' = After(LastCell(rblock))
      BY <2>0 DEF Pos, After
    <3> HIDE DEF LastCell
    <3> QED
      BY <1>1, <2>0, <2>4, <3>1 DEF readerVars, ReaderAt
  <2> QED
    BY <1>1, <2>1, <2>2, <2>3, <2>4
<1> QED
  BY <1>2, <1>3

LEMMA ReaderChain ==
  ASSUME TypeIInv, Numbering, ChainOK, ReaderAt, file # <<>>, continue, Reader,
         ~ AddToNextBlockThrows
  PROVE  Numbering' /\ ChainOK' /\ ReaderAt'
  BY NumberingReader, ReaderAddsValue, ReaderEndsLine, ReaderTakesBlock,
     ReaderFinishes, ReaderMoves

-----------------------------------------------------------------------------
(* The iterator reads what was written.                                    *)

(* What it finds where it stands, and behind that.                         *)
LEMMA HereFacts ==
  ASSUME TypeIInv, Numbering, ChainOK, BlockTaken, cblock # NoBlock
  PROVE  LET cells == store[cblock].cells IN
         /\ cblock \in 1 .. sBlockNumber /\ Here \in Cells
         /\ offset + 1 \in 1 .. Len(cells) /\ offset # endOffset
         /\ Here = cells[offset + 1] /\ TagAt(offset) = Here.tag
         /\ CellOK(Here)
         /\ Here.tag \in {"AA", "BB"} =>
              /\ offset + 2 \in 1 .. Len(cells)
              /\ CellOK(cells[offset + 2]) /\ Follows(Here, cells[offset + 2])
         /\ Here.tag = "CC" =>
              cblock < sBlockNumber /\ Here = LastCell(cblock) /\ offset + 1 = Len(cells)
         /\ Here.tag = "DD" => cblock = sBlockNumber /\ rblock = NoBlock
<1> DEFINE cells == store[cblock].cells
<1>1. /\ cblock \in 1 .. sBlockNumber /\ cblock \in Chain /\ cblock <= LastFull
      /\ cblock \in Nat /\ sBlockNumber \in Nat
      /\ cblock = sBlockNumber => rblock = NoBlock
  <2>1. cblock \in 1 .. sBlockNumber /\ sBlockNumber \in Nat /\ cblock \in Nat
    BY Shapes
  <2>3. LastFull = IF rblock = NoBlock THEN sBlockNumber ELSE sBlockNumber - 1
    BY DEF LastFull
  <2>4. cblock = NextTaken - 1 /\ NextTaken = LastFull - Len(queue) + 1
    BY DEF Numbering, NextTaken
  <2>5. Len(queue) \in Nat /\ LastFull \in Int
    BY <2>1, <2>3, Shapes
  <2>2. cblock = LastFull - Len(queue) /\ Len(queue) \in Nat
    BY <2>4, <2>5
  <2> QED
    BY <2>1, <2>2, <2>3, <2>5 DEF Chain
<1>2. /\ Len(cells) \in Nat /\ DOMAIN cells = 1 .. Len(cells)
      /\ \A i \in 1 .. Len(cells) : cells[i] \in Cells
  BY <1>1, CellShapes
<1>3. offset + 1 \in 1 .. Len(cells) /\ offset # endOffset /\ TagAt(offset) = Here.tag
  <2>1. offset \in 0 .. endOffset - 1 /\ endOffset = Len(cells)
    BY DEF BlockTaken
  <2>2. TagAt(offset) = Here.tag
    BY <1>2, <2>1 DEF TagAt, Here
  <2> QED
    BY <1>2, <2>1, <2>2
<1>4. /\ \A i \in DOMAIN cells : CellOK(cells[i])
      /\ \A i \in 1 .. Len(cells) - 1 : Follows(cells[i], cells[i + 1])
  BY <1>1 DEF ChainOK, BlockOK
<1>5. /\ cells # <<>>
      /\ LastCell(cblock).tag = IF cblock = sBlockNumber THEN "DD" ELSE "CC"
  BY <1>1 DEF ChainOK, Closed
<1>6. Here = cells[offset + 1] /\ LastCell(cblock) = cells[Len(cells)]
  BY DEF Here, LastCell
<1>7. Here \in Cells /\ CellOK(Here)
  BY <1>2, <1>3, <1>4, <1>6
<1>8. CASE offset + 1 = Len(cells)
  <2>1. Here = LastCell(cblock)
    BY <1>6, <1>8
  <2>2. Here.tag = "CC" => cblock < sBlockNumber
    BY <1>1, <1>5, <2>1
  <2> HIDE DEF Here, cells
  <2> QED
    BY <1>1, <1>3, <1>5, <1>6, <1>7, <1>8, <2>1, <2>2 DEF cells
<1>9. CASE offset + 1 # Len(cells)
  <2>1. offset + 1 \in 1 .. Len(cells) - 1 /\ offset + 2 \in 1 .. Len(cells)
    BY <1>2, <1>3, <1>9, Shapes
  <2>2. cells[offset + 1 + 1] = cells[offset + 2]
    BY Shapes
  <2>3. Follows(cells[offset + 1], cells[offset + 2])
    BY <1>4, <2>1, <2>2
  <2>4. Follows(Here, cells[offset + 2]) /\ CellOK(cells[offset + 2])
    BY <1>2, <1>4, <1>6, <2>1, <2>3
  <2>5. Here.tag \in {"AA", "BB"}
    BY <2>4 DEF Follows
  <2> HIDE DEF Here, cells
  <2> QED
    BY <1>1, <1>3, <1>6, <1>7, <2>1, <2>4, <2>5 DEF cells
<1> QED
  BY <1>8, <1>9

(* The iterator moves within its block: where it stands then.              *)
LEMMA HereNext ==
  ASSUME TypeIInv, Numbering, ChainOK, BlockTaken, cblock # NoBlock,
         Here.tag \in {"AA", "BB"}, UNCHANGED <<store, cblock>>,
         offset' = offset + 1
  PROVE  /\ Here' \in Cells /\ CellOK(Here') /\ Follows(Here, Here')
         /\ offset' \in 0 .. endOffset - 1
<1>1. Here' = store[cblock].cells[offset + 2]
  BY Shapes DEF Here
<1>2. offset + 2 \in 1 .. Len(store[cblock].cells) /\ cblock \in 1 .. sBlockNumber
  BY HereFacts
<1> QED
  BY <1>1, <1>2, HereFacts, CellShapes, Shapes DEF BlockTaken

LEMMA FileKept ==
  ASSUME file' = file
  PROVE  \A l : /\ RS!Stored(l)' = RS!Stored(l)
                /\ RS!RowsOf(l)' = RS!RowsOf(l)
                /\ RS!FillsRow(l)' <=> RS!FillsRow(l)
  BY DEF RS!FillsRow, RS!RowsOf, RS!Stored

(* A row that ends where its line ends.                                    *)
LEMMA RowEnds ==
  ASSUME NEW l, delivered[l] \in RS!RowsOf(l),
         delivered[l][NumColumns][2] = Len(file[l])
  PROVE  RS!FillsRow(l)
  BY DEF RS!FillsRow

LEMMA IteratorToNextRow ==
  ASSUME TypeIInv, Numbering, ChainOK, RowsOK, ~ limitHit, IteratorAt,
         file # <<>>, NextRow
  PROVE  IteratorAt'
<1>1. /\ cpc = "idle"
      /\ UNCHANGED <<store, cblock, ret, endOffset, row, delivered, file>>
      /\ NoBlock' = NoBlock
  BY DEF NextRow, GoOn, readerSide, scanVars, NoBlock, BM!NoBlock
<1>2. CASE cblock = NoBlock
  <2>1. cpc' = "block" /\ offset' = 0
    BY <1>2 DEF NextRow, GoOn
  <2> QED
    BY <1>1, <1>2, <2>1 DEF IteratorAt, NoneTaken, Fetching
<1>3. CASE cblock # NoBlock
  <2>1. BlockTaken /\ offset > 0
    BY <1>1, <1>3 DEF IteratorAt, BlockTaken
  <2>2. Here.tag = "BB" /\ offset' = offset + 1 /\ cpc' = "marker"
    BY <1>3, <2>1, HereFacts, Shapes DEF NextRow, GoOn
  <2>3. /\ Here' \in Cells /\ CellOK(Here') /\ Follows(Here, Here')
        /\ offset' \in 0 .. endOffset - 1
    BY <1>1, <1>3, <2>1, <2>2, HereNext
  <2>4. Here.line = Done /\ Here.col = Len(file[Done]) + 1 /\ Done \in 1 .. Len(file)
    BY <1>1, <1>3, <2>1, <2>2, HereFacts, FileShapes DEF BlockTaken, CellOK
  <2>5. RS!FillsRow(Done)
    <3>1. delivered[Done] \in RS!RowsOf(Done)
      BY <2>1, <1>1, RowShapes DEF RowsOK, BlockTaken
    <3>2. delivered[Done][NumColumns][2] = Len(file[Done])
      BY <1>1, <2>1, <2>4, FileShapes DEF BlockTaken
    <3> QED
      BY <3>1, <3>2, RowEnds
  <2>6. \A l \in 1 .. Done : RS!FillsRow(l)
    BY <1>1, <2>1, <2>5, RowShapes DEF BlockTaken
  <2>7. IF Here'.tag = "DD" THEN Done = Len(file)
        ELSE Here'.line = Done + 1 /\ Here'.col = 1
    BY <1>1, <2>2, <2>3, <2>4 DEF Follows, Pos, After, CellOK
  <2>8. Done' = Done
    BY <1>1 DEF Done
  <2> HIDE DEF Here, Done
  <2>9. BlockTaken'
    BY <1>1, <2>1, <2>2, <2>3, <2>6, <2>7, <2>8, FileKept DEF BlockTaken, Fetching
  <2> QED
    BY <1>1, <1>3, <2>9 DEF IteratorAt
<1> QED
  BY <1>2, <1>3

(* A next-block marker before the row, or inside it.                       *)
LEMMA IteratorSwitches ==
  ASSUME TypeIInv, Numbering, ChainOK, IteratorAt, SwitchBlock
  PROVE  IteratorAt'
<1>1. /\ cpc \in {"marker", "value"} /\ cpc' = "block" /\ TagAt(offset) = "CC"
      /\ ret' = IF cpc = "marker" THEN "begin" ELSE "taken"
      /\ UNCHANGED <<store, cblock, offset, endOffset, row, delivered, file>>
      /\ NoBlock' = NoBlock
  BY DEF SwitchBlock, AtSwitch, readerSide, scanVars, NoBlock, BM!NoBlock
<1>2. cblock # NoBlock
  BY <1>1 DEF TypeIInv, HasBlock
<1>3. BlockTaken
  BY <1>2 DEF IteratorAt
<1>4. Here.tag = "CC" /\ Here.line = Done + 1
  BY <1>1, <1>2, <1>3, HereFacts DEF BlockTaken
<1>5. Here' = Here /\ Done' = Done /\ \A i \in DOMAIN row : Origin(i)' = Origin(i)
  BY <1>1 DEF Here, Done, Origin
<1>6. \A l \in 1 .. Done : RS!FillsRow(l)
  BY <1>1, <1>3 DEF BlockTaken
<1>7. cpc = "marker" => NothingBefore(Done + 1, Here.col)
  <2>1. cpc = "marker" => Here.col = 1
    BY <1>3, <1>4 DEF BlockTaken
  <2>2. \A k \in RS!Stored(Done + 1) : k >= 1
    <3>1. CellOK(Here)
      BY <1>2, <1>3, HereFacts
    <3>2. Done + 1 \in 1 .. Len(file)
      BY <1>4, <3>1, FileShapes DEF CellOK
    <3> QED
      BY <3>2, FileShapes
  <2> QED
    BY <2>1, <2>2 DEF NothingBefore
<1>8. cpc = "value" => RowSoFar(Done + 1, Here.col) /\ Len(row) < NumColumns
  BY <1>3 DEF BlockTaken
<1> HIDE DEF Here, Done, Origin
<1>9. cpc = "marker" => NothingBefore(Done + 1, Here.col)'
  BY <1>1, <1>5, <1>7, FileKept DEF NothingBefore
<1>10. cpc = "value" => RowSoFar(Done + 1, Here.col)'
  BY <1>1, <1>5, <1>8, FileKept DEF RowSoFar
<1>11. BlockTaken'
  BY <1>1, <1>3, <1>4, <1>5, <1>6, <1>8, <1>9, <1>10, FileKept DEF BlockTaken, Fetching
<1> QED
  BY <1>1, <1>2, <1>11 DEF IteratorAt

(* The row starts with no value, because none comes before this place.     *)
LEMMA IteratorBeginsRow ==
  ASSUME TypeIInv, Numbering, ChainOK, IteratorAt, BeginRow
  PROVE  IteratorAt'
<1>1. /\ cpc = "begin" \/ (cpc = "marker" /\ TagAt(offset) \notin {"CC", "DD"})
      /\ cpc' = "value" /\ row' = <<>>
      /\ UNCHANGED <<store, cblock, offset, endOffset, delivered, file>>
      /\ NoBlock' = NoBlock
  BY DEF BeginRow, readerSide, scanVars, NoBlock, BM!NoBlock
<1>2. cblock # NoBlock
  BY <1>1 DEF TypeIInv, HasBlock
<1>3. BlockTaken
  BY <1>2 DEF IteratorAt
<1>4. Here.tag # "DD" /\ Here.line = Done + 1 /\ Here \in Cells
  BY <1>1, <1>2, <1>3, HereFacts DEF BlockTaken
<1>5. Here' = Here /\ Done' = Done
  BY <1>1 DEF Here, Done
<1>6. \A l \in 1 .. Done : RS!FillsRow(l)
  BY <1>1, <1>3 DEF BlockTaken
<1>7. NothingBefore(Done + 1, Here.col)
  <2>1. CASE cpc = "begin"
    BY <1>3, <2>1 DEF BlockTaken
  <2>2. CASE cpc = "marker"
    <3>1. Here.col = 1
      BY <1>3, <1>4, <2>2 DEF BlockTaken
    <3>2. CellOK(Here)
      BY <1>2, <1>3, HereFacts
    <3>3. Done + 1 \in 1 .. Len(file)
      BY <1>4, <3>2, FileShapes DEF CellOK
    <3>4. \A k \in RS!Stored(Done + 1) : k >= 1
      BY <3>3, FileShapes
    <3> QED
      BY <3>1, <3>4 DEF NothingBefore
  <2> QED
    BY <1>1, <2>1, <2>2
<1>8. CellOK(Here)
  BY <1>2, <1>3, HereFacts
<1> HIDE DEF Here, Done, Origin
<1>9. RowSoFar(Done + 1, Here.col)'
  <2>1. Here.col \in Nat
    BY <1>4 DEF Cells
  <2>2. \A k \in RS!Stored(Done + 1) : k \in Nat
    BY <1>4, <1>8, FileShapes DEF CellOK
  <2>3. row' = <<>> /\ DOMAIN row' = {} /\ Len(row') = 0
    BY <1>1
  <2>4. PICK d, c : d = Done + 1 /\ d = Done' + 1 /\ c = Here.col /\ c = Here'.col
    BY <1>5
  <2>5. \A k \in RS!Stored(d) : ~ (k < c)
    BY <1>7, <2>1, <2>2, <2>4 DEF NothingBefore
  <2>6. RS!Stored(d) = DOMAIN file[d] => c = 1
    BY <1>7, <2>4 DEF NothingBefore
  <2>7. RowSoFar(d, c)'
    BY <1>1, <2>3, <2>5, <2>6, FileKept DEF RowSoFar
  <2> QED
    BY <2>4, <2>7 DEF RowSoFar, Origin, RS!Stored
<1>10. BlockTaken'
  BY <1>1, <1>3, <1>4, <1>5, <1>6, <1>9, Shapes, FileKept DEF BlockTaken, Fetching
<1> QED
  BY <1>1, <1>2, <1>10 DEF IteratorAt

(* A value of the row is read.                                             *)
LEMMA IteratorReadsValue ==
  ASSUME TypeIInv, Numbering, ChainOK, IteratorAt, ReadValue
  PROVE  IteratorAt'
<1>1. /\ cpc \in {"value", "taken"} /\ TagAt(offset) = "AA"
      /\ row' = Append(row, [block |-> cblock, index |-> offset + 1])
      /\ offset' = offset + 1
      /\ cpc' = IF Len(row') = NumColumns THEN "use" ELSE "value"
      /\ UNCHANGED <<store, cblock, endOffset, delivered, file>>
      /\ NoBlock' = NoBlock
  BY DEF ReadValue, readerSide, scanVars, NoBlock, BM!NoBlock
<1>2. cblock # NoBlock
  BY <1>1 DEF TypeIInv, HasBlock
<1>3. BlockTaken
  BY <1>2 DEF IteratorAt
<1>4. /\ Here.tag = "AA" /\ Here.line = Done + 1 /\ Here \in Cells /\ CellOK(Here)
      /\ Here.col \in RS!Stored(Done + 1)
  BY <1>1, <1>2, <1>3, HereFacts DEF BlockTaken, CellOK
<1>5. PICK h, l, c : h = Here /\ l = Done + 1 /\ c = Here.col
  OBVIOUS
<1>6. /\ l \in 1 .. Len(file) /\ c \in Nat /\ c \in RS!Stored(l)
      /\ \A k \in RS!Stored(l) : k \in Nat
  BY <1>4, <1>5, FileShapes DEF CellOK, Cells
<1>7. RowSoFar(l, c) /\ Len(row) < NumColumns /\ \A k \in 1 .. Done : RS!FillsRow(k)
  BY <1>1, <1>3, <1>5 DEF BlockTaken
<1>8. Here'.tag # "DD" /\ Here'.line = l /\ Here'.col = c + 1 /\ offset' \in 0 .. endOffset - 1
  <2>1. Follows(Here, Here') /\ offset' \in 0 .. endOffset - 1
    BY <1>1, <1>2, <1>3, <1>4, HereNext
  <2>2. PICK y : y = Here'
    OBVIOUS
  <2>3. Follows(h, y) /\ h.tag = "AA" /\ h.line = l /\ h.col = c
    BY <1>4, <1>5, <2>1, <2>2
  <2> HIDE DEF Here, Done
  <2> QED
    BY <2>1, <2>2, <2>3 DEF Follows, Pos, After
<1>9. Done' = Done
  BY <1>1 DEF Done
<1>17. PICK n : n = Len(row)
  OBVIOUS
<1>10. /\ n \in Nat /\ Len(row') = n + 1 /\ DOMAIN row' = 1 .. n + 1
       /\ DOMAIN row = 1 .. n
       /\ \A i \in 1 .. n : row'[i] = row[i]
       /\ row'[n + 1] = [block |-> cblock, index |-> offset + 1]
  <2>1. row \in Seq([block : Nat, index : Nat])
    BY DEF TypeIInv, TypeOK, IteratorTypeOK
  <2>2. [block |-> cblock, index |-> offset + 1] \in [block : Nat, index : Nat]
    BY Shapes
  <2> QED
    BY <1>1, <1>17, <2>1, <2>2
<1>11. (\A i \in 1 .. n : Origin(i)' = Origin(i)) /\ Origin(n + 1)' = h
  <2>1. \A i \in 1 .. n : Origin(i)' = Origin(i)
    BY <1>1, <1>10 DEF Origin
  <2>2. Origin(n + 1)' = Here
    BY <1>1, <1>10, Shapes DEF Origin, Here
  <2> QED
    BY <1>5, <2>1, <2>2
<1>12. h.line = l /\ h.col = c
  BY <1>4, <1>5
<1> HIDE DEF Here, Done, Origin
<1>13. RowSoFar(l, c + 1)'
  <2>1. \A i \in 1 .. n : Origin(i).line = l /\ Origin(i).col \in RS!Stored(l) /\ Origin(i).col < c
    BY <1>7, <1>10 DEF RowSoFar
  <2>2. \A i, j \in 1 .. n : i < j => Origin(i).col < Origin(j).col
    BY <1>7, <1>10 DEF RowSoFar
  <2>3. \A k \in RS!Stored(l) : k < c => \E i \in 1 .. n : Origin(i).col = k
    BY <1>7, <1>10 DEF RowSoFar
  <2>4. RS!Stored(l)' = RS!Stored(l)
    BY <1>1, FileKept
  <2>5. \A i \in 1 .. n + 1 : Origin(i)'.line = l /\ Origin(i)'.col \in RS!Stored(l) /\ Origin(i)'.col < c + 1
    <3>1. ASSUME NEW i \in 1 .. n
          PROVE  Origin(i)'.line = l /\ Origin(i)'.col \in RS!Stored(l) /\ Origin(i)'.col < c + 1
      <4>1. Origin(i)' = Origin(i)
        BY <1>11
      <4>2. /\ Origin(i).line = l /\ Origin(i).col \in RS!Stored(l) /\ Origin(i).col < c
            /\ Origin(i).col \in Nat /\ c \in Nat
        BY <1>6, <2>1
      <4>3. PICK o : o = Origin(i) /\ o = Origin(i)'
        BY <4>1
      <4> QED
        BY <4>2, <4>3
    <3>2. Origin(n + 1)'.line = l /\ Origin(n + 1)'.col = c /\ c < c + 1
      BY <1>6, <1>11, <1>12
    <3>3. \A i \in 1 .. n + 1 : i \in 1 .. n \/ i = n + 1
      BY <1>10
    <3> QED
      BY <1>6, <3>1, <3>2, <3>3
  <2>6. ASSUME NEW i \in 1 .. n + 1, NEW j \in 1 .. n + 1, i < j
        PROVE  Origin(i)'.col < Origin(j)'.col
    <3>1. CASE j = n + 1
      <4>1. i \in 1 .. n
        BY <1>10, <2>6, <3>1
      <4>2. Origin(i)' = Origin(i) /\ Origin(j)' = h /\ Origin(i).col < c
        BY <1>11, <2>1, <3>1, <4>1
      <4> QED
        BY <1>12, <4>2
    <3>2. CASE j # n + 1
      <4>1. i \in 1 .. n /\ j \in 1 .. n
        BY <1>10, <2>6, <3>2
      <4> QED
        BY <1>11, <2>2, <2>6, <4>1
    <3> QED
      BY <3>1, <3>2
  <2>7. ASSUME NEW k \in RS!Stored(l), k < c + 1
        PROVE  \E i \in 1 .. n + 1 : Origin(i)'.col = k
    <3>1. CASE k = c
      <4>1. n + 1 \in 1 .. n + 1
        BY <1>10
      <4> QED
        BY <1>11, <1>12, <3>1, <4>1
    <3>2. CASE k # c
      <4>1. k < c
        BY <1>6, <2>7, <3>2
      <4>2. PICK i \in 1 .. n : Origin(i).col = k
        BY <2>3, <4>1
      <4>3. i \in 1 .. n + 1 /\ Origin(i)' = Origin(i)
        BY <1>10, <1>11
      <4> QED
        BY <4>2, <4>3
    <3> QED
      BY <3>1, <3>2
  <2>8. RS!Stored(l) = DOMAIN file[l] => n + 1 = c + 1 - 1
    BY <1>6, <1>7, <1>17 DEF RowSoFar
  <2>9. file' = file
    BY <1>1
  <2>10. PICK D, S : D = DOMAIN row' /\ S = RS!Stored(l)' /\ S = RS!Stored(l)
    BY <2>4
  <2>11. D = 1 .. n + 1 /\ Len(row') = n + 1
    BY <1>10, <2>10
  <2>12. /\ \A i \in DOMAIN row' :
              Origin(i)'.line = l /\ Origin(i)'.col \in RS!Stored(l)' /\ Origin(i)'.col < c + 1
         /\ \A i, j \in DOMAIN row' : i < j => Origin(i)'.col < Origin(j)'.col
    BY <2>5, <2>6, <2>10, <2>11
  <2>13. \A k \in RS!Stored(l)' : k < c + 1 => \E i \in DOMAIN row' : Origin(i)'.col = k
    BY <2>7, <2>10, <2>11
  <2>14. RS!Stored(l)' = DOMAIN file'[l] => Len(row') = c + 1 - 1
    BY <2>8, <2>9, <2>10, <2>11
  <2>15. PICK e : e = c + 1
    OBVIOUS
  <2>16. RS!Stored(l)' = DOMAIN file'[l] => Len(row') = e - 1
    BY <1>6, <2>14, <2>15
  <2>17. RowSoFar(l, e)'
    BY <2>12, <2>13, <2>15, <2>16 DEF RowSoFar
  <2> QED
    BY <2>15, <2>17
<1>14. RowSoFar(Done + 1, Here.col)'
  BY <1>5, <1>8, <1>9, <1>13 DEF RowSoFar
<1>15. cpc' = "use" => NumColumns = n + 1 /\ Origin(NumColumns)'.col = Here'.col - 1
  BY <1>1, <1>6, <1>8, <1>10, <1>11, <1>12
<1>16. cpc' \in {"use", "value"} /\ (cpc' = "value" => Len(row') < NumColumns)
  BY <1>1, <1>7, <1>10, <1>17, Shapes
<1>18. BlockTaken'
  <2>1. offset' > 0 /\ endOffset' = Len(store'[cblock'].cells) /\ offset' \in 0 .. endOffset' - 1
    BY <1>1, <1>3, <1>8, Shapes DEF BlockTaken
  <2>2. Here'.line = Done' + 1
    BY <1>5, <1>8, <1>9
  <2>3. \A k \in 1 .. Done' : RS!FillsRow(k)'
    BY <1>1, <1>7, <1>9, FileKept
  <2>4. cpc' = "use" => Origin(NumColumns)'.col = Here'.col - 1
    BY <1>15
  <2>5. cpc' = "use" => Len(row') = NumColumns
    BY <1>10, <1>15
  <2> QED
    BY <1>8, <1>14, <1>16, <2>1, <2>2, <2>3, <2>4, <2>5 DEF BlockTaken, Fetching
<1> QED
  BY <1>1, <1>2, <1>18 DEF IteratorAt

(* The row is used: it is one of its line.                                 *)
LEMMA IteratorUsesRow ==
  ASSUME TypeIInv, Numbering, ChainOK, RowsOK, ~ limitHit, file # <<>>, HasBlock,
         IteratorAt, UseRow
  PROVE  IteratorAt' /\ RowsOK'
<1>1. /\ cpc = "use" /\ cpc' = "idle"
      /\ delivered' = Append(delivered,
           [i \in DOMAIN row |-> <<Origin(i).line, Origin(i).col>>])
      /\ UNCHANGED <<store, cblock, offset, endOffset, row, file>>
      /\ NoBlock' = NoBlock
  BY DEF UseRow, Origin, iteratorVars, readerSide, NoBlock, BM!NoBlock
<1>2. cblock # NoBlock
  BY <1>1 DEF IteratorAt, NoneTaken, Fetching
<1>3. BlockTaken
  BY <1>2 DEF IteratorAt
<1>4. /\ Here.line = Done + 1 /\ CellOK(Here) /\ Here \in Cells
      /\ RowSoFar(Done + 1, Here.col) /\ offset > 0
      /\ Len(row) = NumColumns /\ Origin(NumColumns).col = Here.col - 1
      /\ \A l \in 1 .. Done : RS!FillsRow(l)
  BY <1>1, <1>2, <1>3, HereFacts DEF BlockTaken
<1>5. PICK l, c : l = Done + 1 /\ c = Here.col
  OBVIOUS
<1>6. l \in 1 .. Len(file) /\ c \in Nat /\ \A k \in RS!Stored(l) : k \in Nat
  BY <1>4, <1>5, FileShapes DEF CellOK, Cells
<1> DEFINE r == [i \in DOMAIN row |-> <<Origin(i).line, Origin(i).col>>]
<1>7. DOMAIN row = 1 .. NumColumns /\ NumColumns \in DOMAIN row
  BY <1>4, RowShapes, Shapes
<1>8. /\ \A i \in DOMAIN row : r[i] = <<Origin(i).line, Origin(i).col>>
      /\ DOMAIN r = 1 .. NumColumns
  BY <1>7
<1>9. delivered' = Append(delivered, r)
  BY <1>1
<1>10. Done \in Nat /\ Done' = l /\ delivered'[l] = r /\ \A k \in 1 .. Done : delivered'[k] = delivered[k]
  <2>1. delivered \in Seq(Seq(Nat \X Nat))
    BY DEF TypeIInv, TypeOK, ScanTypeOK
  <2>2. r \in Seq(Nat \X Nat)
    <3>1. r = [i \in 1 .. NumColumns |-> <<Origin(i).line, Origin(i).col>>]
      BY <1>7
    <3>2. \A i \in 1 .. NumColumns : <<Origin(i).line, Origin(i).col>> \in Nat \X Nat
      BY <1>7, RowShapes DEF Cells
    <3> HIDE DEF Origin, r
    <3>3. r \in [1 .. NumColumns -> Nat \X Nat]
      BY <3>1, <3>2
    <3> QED
      BY <3>3, Shapes, SeqDef
  <2> HIDE DEF r
  <2> QED
    BY <1>5, <1>9, <2>1, <2>2 DEF Done
<1> HIDE DEF r, Here, Done
<1>11. r \in RS!RowsOf(l)
  <2>1. \A i \in 1 .. NumColumns : Origin(i).line = l /\ Origin(i).col \in RS!Stored(l)
    BY <1>4, <1>5, <1>7 DEF RowSoFar
  <2>2. \A i, j \in 1 .. NumColumns : i < j => Origin(i).col < Origin(j).col
    BY <1>4, <1>5, <1>7 DEF RowSoFar
  <2>3. \A k \in RS!Stored(l) : k < c => \E i \in 1 .. NumColumns : Origin(i).col = k
    BY <1>4, <1>5, <1>7 DEF RowSoFar
  <2>4. \A i \in 1 .. NumColumns : r[i] = <<l, Origin(i).col>>
    BY <1>7, <1>8, <2>1
  <2> HIDE DEF Origin
  <2>5. r \in [1 .. NumColumns -> {l} \X RS!Stored(l)]
    <3>1. r = [i \in 1 .. NumColumns |-> <<l, Origin(i).col>>]
      BY <1>8, <2>1, <2>4, <1>7 DEF r
    <3> QED
      BY <2>1, <3>1
  <2>6. \A i, j \in 1 .. NumColumns : i < j => r[i][2] < r[j][2]
    BY <2>2, <2>4
  <2>7. ASSUME NEW k \in RS!Stored(l), k <= r[NumColumns][2]
        PROVE  \E i \in 1 .. NumColumns : r[i][2] = k
    <3>1. r[NumColumns][2] = c - 1
      BY <1>4, <1>5, <1>7, <2>4
    <3>2. k < c
      BY <1>6, <2>7, <3>1
    <3> QED
      BY <2>3, <2>4, <3>2
  <2> QED
    BY <2>5, <2>6, <2>7 DEF RS!RowsOf
<1>12. RowsOK'
  <2>1. \A k : RS!RowsOf(k)' = RS!RowsOf(k)
    BY <1>1, FileKept
  <2>2. \A k \in 1 .. Done : delivered[k] \in RS!RowsOf(k)
    BY RowShapes DEF RowsOK
  <2>3. DOMAIN delivered' = 1 .. l
    <3>1. delivered \in Seq(Seq(Nat \X Nat))
      BY DEF TypeIInv, TypeOK, ScanTypeOK
    <3> QED
      BY <1>5, <1>9, <3>1 DEF Done
  <2>4. \A k \in 1 .. l : delivered'[k] \in RS!RowsOf(k)
    BY <1>5, <1>10, <1>11, <2>2
  <2> QED
    BY <2>1, <2>3, <2>4 DEF RowsOK
<1>13. BlockTaken'
  <2>1. Here' = Here
    BY <1>1 DEF Here
  <2>2. Done' > 0 /\ Here'.line = Done'
    BY <1>4, <1>5, <1>6, <1>10, <2>1
  <2>3. Here'.col - 1 = delivered'[Done'][NumColumns][2]
    <3>1. r[NumColumns][2] = Origin(NumColumns).col
      BY <1>7, <1>8
    <3> QED
      BY <1>4, <1>10, <2>1, <3>1
  <2>4. RS!Stored(Done') = DOMAIN file[Done'] => Here'.col = NumColumns + 1
    BY <1>4, <1>5, <1>6, <1>10, <2>1, Shapes DEF RowSoFar
  <2>5. \A k \in 1 .. Done' - 1 : RS!FillsRow(k)
    BY <1>4, <1>5, <1>10
  <2>6. /\ offset' > 0 /\ endOffset' = Len(store'[cblock'].cells)
        /\ offset' \in 0 .. endOffset' - 1 /\ Here'.tag # "DD"
    BY <1>1, <1>3, <1>4, <2>1 DEF BlockTaken
  <2>7. /\ \A k : RS!FillsRow(k)' <=> RS!FillsRow(k)
        /\ (RS!Stored(Done) = DOMAIN file[Done])' <=> RS!Stored(Done') = DOMAIN file[Done']
    BY <1>1 DEF RS!FillsRow, RS!RowsOf, RS!Stored
  <2> QED
    BY <1>1, <2>2, <2>3, <2>4, <2>5, <2>6, <2>7 DEF BlockTaken, Fetching
<1> QED
  BY <1>1, <1>2, <1>12, <1>13 DEF IteratorAt

(* The iterator takes the next block from the queue.                       *)
LEMMA IteratorNumbering ==
  ASSUME TypeIInv, Numbering, TakeBlock
  PROVE  /\ Numbering' /\ LastFull' = LastFull /\ NextTaken' = NextTaken + 1
         /\ cblock' = NextTaken /\ NextTaken \in 1 .. LastFull
         /\ LastFull \in Nat /\ LastFull <= sBlockNumber
<1>1. /\ queue # <<>> /\ queue' = Tail(queue) /\ cblock' = Head(queue)
      /\ UNCHANGED <<sBlockNumber, rblock>> /\ NoBlock' = NoBlock
  BY DEF TakeBlock, managerVars, NoBlock, BM!NoBlock
<1>2. queue \in Seq(Nat \ {0}) /\ sBlockNumber \in Nat /\ NoBlock = 0 /\ rblock \in 0 .. sBlockNumber
  BY Shapes
<1>3. /\ Len(queue) \in Nat \ {0} /\ Len(queue') = Len(queue) - 1
      /\ DOMAIN queue' = 1 .. Len(queue) - 1 /\ DOMAIN queue = 1 .. Len(queue)
      /\ \A i \in 1 .. Len(queue) - 1 : queue'[i] = queue[i + 1]
      /\ cblock' = queue[1]
  BY <1>1, <1>2
<1>4. LastFull = IF rblock = NoBlock THEN sBlockNumber ELSE sBlockNumber - 1
  BY DEF LastFull
<1>5. LastFull' = LastFull
  BY <1>1 DEF LastFull
<1>6. LastFull \in Nat /\ LastFull <= sBlockNumber
  BY <1>2, <1>4
<1>7. NextTaken = LastFull - Len(queue) + 1 /\ NextTaken' = LastFull' - Len(queue') + 1
  BY DEF NextTaken
<1>8. NextTaken' = NextTaken + 1 /\ NextTaken \in Int
  BY <1>3, <1>5, <1>6, <1>7
<1>9. NextTaken \in 1 .. LastFull
  BY <1>2, <1>3, <1>6, <1>7 DEF Numbering
<1>10. queue[1] = NextTaken
  BY <1>3, <1>8 DEF Numbering
<1>11. \A i \in DOMAIN queue' : queue'[i] = NextTaken' - 1 + i
  <2>1. ASSUME NEW i \in DOMAIN queue' PROVE queue'[i] = NextTaken' - 1 + i
    <3>1. i + 1 \in DOMAIN queue /\ i \in Nat /\ queue'[i] = queue[i + 1]
      BY <1>3
    <3>2. queue[i + 1] = NextTaken - 1 + (i + 1)
      BY <3>1 DEF Numbering
    <3> QED
      BY <1>8, <3>1, <3>2
  <2> QED
    BY <2>1
<1>12. rblock # NoBlock => rblock = sBlockNumber
  BY DEF Numbering
<1> HIDE DEF LastFull, NextTaken, NoBlock
<1>13. Numbering'
  BY <1>1, <1>2, <1>3, <1>6, <1>8, <1>9, <1>10, <1>11, <1>12 DEF Numbering
<1> QED
  BY <1>3, <1>5, <1>6, <1>8, <1>9, <1>10, <1>13

LEMMA IteratorTakesBlock ==
  ASSUME TypeIInv, Numbering, ChainOK, ReaderAt, IteratorAt, file # <<>>, TakeBlock
  PROVE  ChainOK' /\ ReaderAt' /\ IteratorAt'
<1>1. /\ Fetching /\ offset' = 0 /\ cpc' = ret
      /\ endOffset' = Len(store[cblock'].cells)
      /\ UNCHANGED <<store, sBlockNumber, rblock, ret, row, delivered, file,
                     rpc, line, col, moreLines>>
      /\ NoBlock' = NoBlock
  BY DEF TakeBlock, Fetching, managerVars, readerSide, scanVars, NoBlock, BM!NoBlock
<1>2. PICK n : n = NextTaken
  OBVIOUS
<1>3. /\ n \in 1 .. LastFull /\ cblock' = n /\ NextTaken' = n + 1 /\ LastFull' = LastFull
      /\ LastFull \in Nat /\ LastFull <= sBlockNumber /\ sBlockNumber \in Nat
      /\ cblock' # NoBlock
  BY <1>2, IteratorNumbering, Shapes
<1>4. Chain' \subseteq Chain /\ n \in Chain
  BY <1>1, <1>2, <1>3 DEF Chain
<1>5. \A b : /\ BlockOK(b) => BlockOK(b)'
             /\ Closed(b) => Closed(b)'
  BY <1>1, CellsUntouched
<1>6. \A b : Linked(b) => Linked(b)'
  BY <1>1 DEF Linked, LastCell, RS!Stored, Pos, FirstPos
<1>7. ChainOK'
  BY <1>1, <1>3, <1>4, <1>5, <1>6 DEF ChainOK
<1>8. ReaderAt'
  BY <1>1 DEF ReaderAt, LastCell, After, Pos
<1>13. cblock' # NoBlock'
  BY <1>3 DEF NoBlock, BM!NoBlock
<1>9. PICK h, d : h = store[n].cells[1] /\ d = Done
  OBVIOUS
<1>10. /\ Here' = h /\ Done' = d /\ h \in Cells /\ h.tag # "DD" /\ CellOK(h)
       /\ offset' \in 0 .. endOffset' - 1 /\ endOffset' = Len(store'[cblock'].cells)
       /\ FirstPos(n) = <<h.line, h.col>> /\ store[n].cells # <<>>
  <2>1. Closed(n) /\ BlockOK(n) /\ n \in 1 .. sBlockNumber
    BY <1>3, <1>4 DEF ChainOK
  <2>2. /\ Len(store[n].cells) \in Nat \ {0} /\ 1 \in DOMAIN store[n].cells /\ h \in Cells
        /\ store[n].cells # <<>>
    BY <1>9, <2>1, CellShapes DEF Closed
  <2>3. CellOK(h) /\ h.tag # "DD"
    BY <1>9, <2>1, <2>2 DEF BlockOK
  <2>4. Here' = h
    BY <1>1, <1>3, <1>9 DEF Here
  <2>5. Done' = d
    BY <1>1, <1>9 DEF Done
  <2> QED
    BY <1>1, <1>3, <1>9, <2>2, <2>3, <2>4, <2>5 DEF FirstPos, Pos
<1> HIDE DEF Here, Done, Origin, NextTaken, LastFull
<1>11. CASE cblock = NoBlock
  <2>1. delivered = <<>> /\ d = 0 /\ cpc' = "marker"
    BY <1>1, <1>9, <1>11 DEF IteratorAt, NoneTaken, Done
  <2>2. h.line = 1 /\ h.col = 1
    BY <1>2, <1>10, <1>11 DEF ChainOK
  <2>3. BlockTaken'
    BY <1>1, <1>10, <2>1, <2>2 DEF BlockTaken, Fetching
  <2> QED
    BY <1>7, <1>8, <1>13, <2>3 DEF IteratorAt
<1>12. CASE cblock # NoBlock
  <2>1. PICK o, l, c : o = Here /\ l = d + 1 /\ c = o.col
    OBVIOUS
  <2>2. /\ BlockTaken /\ ret \in {"begin", "taken"} /\ o.tag = "CC" /\ o.line = l
        /\ \A k \in 1 .. d : RS!FillsRow(k)
    BY <1>1, <1>9, <1>12, <2>1 DEF IteratorAt, BlockTaken, Fetching
  <2>3. /\ o = LastCell(cblock) /\ cblock < sBlockNumber /\ CellOK(o) /\ o \in Cells
        /\ cblock \in 1 .. sBlockNumber
    BY <1>12, <2>1, <2>2, HereFacts
  <2>4. cblock + 1 = n /\ Linked(cblock)
    <3>1. cblock = n - 1
      BY <1>2, <1>12 DEF Numbering
    <3>2. cblock \in Chain
      BY <2>3 DEF Chain
    <3> QED
      BY <1>3, <2>3, <3>1, <3>2 DEF ChainOK
  <2>5. /\ l \in 1 .. Len(file) /\ c \in 1 .. Len(file[l]) /\ DOMAIN file[l] = 1 .. Len(file[l])
        /\ \A k \in RS!Stored(l) : k \in Nat
    BY <2>1, <2>2, <2>3, FileShapes DEF CellOK
  <2>6. /\ h.line = l
        /\ IF c \in RS!Stored(l) THEN h.tag = "AA" /\ h.col = c ELSE h.col = c + 1
    BY <1>9, <1>10, <2>1, <2>2, <2>3, <2>4 DEF Linked, Pos
  <2>7. ret = "begin" => NothingBefore(l, h.col)
    <3>1. ret = "begin" => NothingBefore(l, c)
      BY <1>1, <1>9, <2>1, <2>2 DEF BlockTaken
    <3>2. CASE c \in RS!Stored(l)
      BY <2>6, <3>1, <3>2
    <3>3. CASE c \notin RS!Stored(l)
      BY <2>5, <2>6, <3>1, <3>3 DEF NothingBefore
    <3> QED
      BY <3>2, <3>3
  <2>8. ret = "taken" => RowSoFar(l, h.col) /\ Len(row) < NumColumns
    <3>1. ret = "taken" => RowSoFar(l, c) /\ Len(row) < NumColumns
      BY <1>1, <1>9, <2>1, <2>2 DEF BlockTaken
    <3>2. CASE c \in RS!Stored(l)
      BY <2>6, <3>1, <3>2
    <3>3. CASE c \notin RS!Stored(l)
      <4>1. RS!Stored(l) # DOMAIN file[l]
        BY <2>5, <3>3
      <4>2. \A k \in RS!Stored(l) : k < c + 1 => k < c
        BY <2>5, <3>3
      <4>3. \A k \in RS!Stored(l) : k < c => k < c + 1
        BY <2>5
      <4> QED
        BY <2>6, <3>1, <4>1, <4>2, <4>3 DEF RowSoFar
    <3> QED
      BY <3>2, <3>3
  <2>9. RS!Stored(l) = DOMAIN file[l] => h.tag = "AA"
    BY <2>5, <2>6
  <2>10. ret = "begin" => NothingBefore(Done + 1, Here.col)'
    BY <1>1, <1>10, <2>1, <2>7, FileKept DEF NothingBefore
  <2>11. ret = "taken" => RowSoFar(Done + 1, Here.col)'
    <3>1. \A i \in DOMAIN row : Origin(i)' = Origin(i)
      BY <1>1 DEF Origin
    <3> QED
      BY <1>1, <1>10, <2>1, <2>8, <3>1, FileKept DEF RowSoFar
  <2>12. BlockTaken'
    BY <1>1, <1>10, <2>1, <2>2, <2>6, <2>8, <2>9, <2>10, <2>11, FileKept DEF BlockTaken, Fetching
  <2> QED
    BY <1>7, <1>8, <1>13, <2>12 DEF IteratorAt
<1> QED
  BY <1>7, <1>8, <1>11, <1>12

-----------------------------------------------------------------------------
(* The steps of a scan.                                                    *)

LEMMA PhaseStep ==
  ASSUME TypeIInv, Phase, [Next]_vars
  PROVE  Phase'
<1>1. NoBlock' = NoBlock
  BY DEF NoBlock, BM!NoBlock
<1>2. CASE UNCHANGED vars
  BY <1>1, <1>2
  DEF vars, managerVars, readerVars, iteratorVars, scanVars, Phase, Reading
<1>3. CASE Reader
  <2>1. UNCHANGED <<outcome, continue, cblock>> /\ (limitHit => limitHit')
    BY <1>3
    DEF Reader, AddValue, AddToNextBlock, AddToNextBlockThrows, HandOver,
        EndLine, NextLine, LeaveLoop, Finish, NotifyEnd, ReadClosedStream,
        WriteReleasedBlock, WriteBeyondBlock, Crash, querySide, iteratorVars,
        scanVars
  <2>2. cpc' = cpc \/ (cpc = "wait" /\ cpc' = "woken")
    BY <1>3
    DEF Reader, AddValue, AddToNextBlock, AddToNextBlockThrows, HandOver,
        EndLine, NextLine, LeaveLoop, Finish, NotifyEnd, ReadClosedStream,
        WriteReleasedBlock, WriteBeyondBlock, Crash, Notified
  <2> QED
    BY <1>1, <2>1, <2>2 DEF Phase, Reading
<1>4. CASE Environment
  <2>1. CASE NewScan
    BY <1>1, <2>1 DEF NewScan, Phase, Reading
  <2>2. CASE NewScanThrows
    BY <1>1, <2>2 DEF NewScanThrows, Phase, Reading, readerVars, iteratorVars
  <2>3. CASE Abandon
    BY <1>1, <2>3 DEF Abandon, Phase, Reading
  <2>4. CASE SpuriousWakeup
    BY <1>1, <2>4 DEF SpuriousWakeup, GoOn, Phase, Reading, scanVars, readerSide
  <2> QED
    BY <1>4, <2>1, <2>2, <2>3, <2>4 DEF Environment
<1>5. CASE Query
  <2>0. cpc \in {"marker", "begin", "value", "taken", "use", "block", "woken", "wait"}
          => outcome = "open"
    BY DEF Phase, TypeIInv, TypeOK, ScanTypeOK
  <2>1. CASE Open \/ NextRow
    BY <1>1, <2>1 DEF Open, NextRow, GoOn, Phase, Reading, iteratorVars, scanVars, readerSide
  <2>2. CASE OpenThrows \/ NextRowThrows \/ RowThrows \/ EndOfRows
    BY <1>1, <2>2
    DEF OpenThrows, NextRowThrows, RowThrows, EndOfRows, Throws, Phase, Reading
  <2>3. CASE SwitchBlock \/ BeginRow \/ ReadValue \/ UseRow
    BY <1>1, <2>0, <2>3
    DEF SwitchBlock, AtSwitch, BeginRow, ReadValue, UseRow, Phase, Reading,
        iteratorVars, scanVars, readerSide
  <2>4. CASE TakeBlock \/ WaitForBlock
    BY <1>1, <2>0, <2>4
    DEF TakeBlock, WaitForBlock, GoOn, Phase, Reading, scanVars, readerSide,
        TypeIInv, TypeOK, IteratorTypeOK
  <2>5. CASE DropStream \/ DropPrevious \/ DropCurrent \/ StopReader \/ JoinReader
    BY <1>1, <2>5
    DEF DropStream, DropPrevious, DropCurrent, StopReader, JoinReader, Phase,
        Reading, iteratorVars, scanVars, readerSide
  <2>6. CASE UseReleasedRow \/ TakeNull \/ TakeReleasedBlock \/ ReleaseTwice
    BY <1>1, <2>6
    DEF UseReleasedRow, TakeNull, TakeReleasedBlock, ReleaseTwice, Crash,
        Phase, Reading, iteratorVars, scanVars
  <2> QED
    BY <1>5, <2>1, <2>2, <2>3, <2>4, <2>5, <2>6 DEF Query
<1> QED
  BY <1>2, <1>3, <1>4, <1>5 DEF Next, Stopped

(* What a step of the query thread that takes no block, and ends no scan,  *)
(* leaves alone.                                                           *)
LEMMA QuerySame ==
  ASSUME Query, ~ TakeBlock,
         ~ (DropStream \/ DropPrevious \/ DropCurrent \/ StopReader \/ JoinReader)
  PROVE  /\ UNCHANGED <<store, sBlockNumber, queue, rblock, cblock, line, col,
                        moreLines, file, limitHit, continue>>
         /\ rpc' = rpc \/ (Open /\ rpc' = "line")
<1>1. CASE Open
  BY <1>1 DEF Open, readerSide, managerVars, iteratorVars
<1>2. CASE OpenThrows \/ NextRowThrows \/ RowThrows \/ EndOfRows
  BY <1>2
  DEF OpenThrows, NextRowThrows, RowThrows, EndOfRows, Throws, readerSide,
      managerVars, iteratorVars
<1>3. CASE SwitchBlock
  BY <1>3 DEF SwitchBlock, BM!Release, BM!managerVars, readerSide, scanVars
<1>4. CASE BeginRow \/ ReadValue \/ UseRow
  BY <1>4
  DEF BeginRow, ReadValue, UseRow, readerSide, managerVars, iteratorVars, scanVars
<1>5. CASE NextRow \/ WaitForBlock
  BY <1>5 DEF NextRow, WaitForBlock, GoOn, readerSide, managerVars, scanVars
<1>6. CASE UseReleasedRow \/ TakeNull \/ TakeReleasedBlock \/ ReleaseTwice
  BY <1>6
  DEF UseReleasedRow, TakeNull, TakeReleasedBlock, ReleaseTwice, Crash,
      managerVars, readerVars, iteratorVars, scanVars
<1> QED
  BY <1>1, <1>2, <1>3, <1>4, <1>5, <1>6 DEF Query

LEMMA QueryChain ==
  ASSUME TypeIInv, Numbering, ChainOK, ReaderAt, Query, ~ TakeBlock,
         ~ (DropStream \/ DropPrevious \/ DropCurrent \/ StopReader \/ JoinReader)
  PROVE  Numbering' /\ ChainOK' /\ ReaderAt'
<1>1. /\ UNCHANGED <<store, sBlockNumber, queue, rblock, cblock, line, col,
                     moreLines, file, limitHit, continue>>
      /\ rpc' = rpc \/ (Open /\ rpc' = "line")
  BY QuerySame
<1>2. NoBlock' = NoBlock /\ LastCell(rblock)' = LastCell(rblock)
  BY <1>1 DEF NoBlock, BM!NoBlock, LastCell
<1>3. Numbering'
  BY <1>1, <1>2 DEF Numbering, NextTaken, LastFull
<1>4. ChainOK'
  BY <1>1, ChainUntouched
<1>5. ReaderAt'
  <2>1. CASE rpc' = rpc
    BY <1>1, <1>2, <2>1 DEF ReaderAt, After, Pos
  <2>2. CASE Open /\ rpc' = "line"
    <3>1. rpc = "unstarted"
      BY <2>2 DEF Open, TypeIInv, NotStarted
    <3>2. line \in 1 .. Len(file) /\ line = 1 /\ col = 1 /\ store[rblock].cells = <<>>
          /\ rblock # NoBlock
      BY <3>1, FileShapes DEF ReaderAt
    <3>3. 1 \in 1 .. Len(file[line]) + 1
      BY <3>2, FileShapes
    <3> QED
      BY <1>1, <1>2, <2>2, <3>2, <3>3 DEF ReaderAt
  <2> QED
    BY <1>1, <2>1, <2>2
<1> QED
  BY <1>3, <1>4, <1>5

(* The query thread, when the file has lines.                              *)
LEMMA QueryStep ==
  ASSUME TypeIInv, Phase, RowsOK, Reading, Reading', Numbering, ChainOK,
         ReaderAt, IteratorAt, file # <<>>, Query, [Next]_vars
  PROVE  Numbering' /\ ChainOK' /\ ReaderAt' /\ IteratorAt' /\ RowsOK'
<1>1. ~ (DropStream \/ DropPrevious \/ DropCurrent \/ StopReader \/ JoinReader)
  BY DEF Phase, Reading, DropStream, DropPrevious, DropCurrent, StopReader, JoinReader
<1>2. ~ (OpenThrows \/ NextRowThrows \/ RowThrows \/ EndOfRows)
  BY DEF Reading, OpenThrows, NextRowThrows, RowThrows, EndOfRows, Throws
<1>3. CASE TakeBlock
  <2>1. RowsOK'
    BY <1>3, FileKept DEF TakeBlock, RowsOK, scanVars, readerSide
  <2> QED
    BY <1>3, <2>1, IteratorNumbering, IteratorTakesBlock
<1>4. CASE ~ TakeBlock
  <2>1. Numbering' /\ ChainOK' /\ ReaderAt'
    BY <1>1, <1>4, QueryChain
  <2>2. CASE UseRow
    <3>1. IteratorAt' /\ RowsOK'
      BY <2>2, IteratorUsesRow DEF Reading, TypeIInv
    <3> QED
      BY <2>1, <3>1
  <2>3. CASE NextRow
    <3>1. IteratorAt'
      BY <2>3, IteratorToNextRow DEF Reading
    <3>2. RowsOK'
      BY <2>3, FileKept DEF NextRow, GoOn, RowsOK, scanVars, readerSide
    <3> QED
      BY <2>1, <3>1, <3>2
  <2>4. CASE SwitchBlock
    <3>1. RowsOK'
      BY <2>4, FileKept DEF SwitchBlock, RowsOK, scanVars, readerSide
    <3> QED
      BY <2>1, <2>4, <3>1, IteratorSwitches
  <2>5. CASE BeginRow
    <3>1. RowsOK'
      BY <2>5, FileKept DEF BeginRow, RowsOK, scanVars, readerSide
    <3> QED
      BY <2>1, <2>5, <3>1, IteratorBeginsRow
  <2>6. CASE ReadValue
    <3>1. RowsOK'
      BY <2>6, FileKept DEF ReadValue, RowsOK, scanVars, readerSide
    <3> QED
      BY <2>1, <2>6, <3>1, IteratorReadsValue
  <2>7. CASE Open \/ WaitForBlock \/ UseReleasedRow \/ TakeNull
             \/ TakeReleasedBlock \/ ReleaseTwice
    <3>1. /\ UNCHANGED <<store, cblock, offset, endOffset, row, ret, delivered,
                         file, limitHit>>
          /\ cpc' = cpc \/ (Fetching /\ Fetching')
      <4>1. CASE Open
        BY <4>1 DEF Open, readerSide, iteratorVars
      <4>2. CASE WaitForBlock
        BY <4>2 DEF WaitForBlock, GoOn, readerSide, scanVars, Fetching
      <4>3. CASE UseReleasedRow \/ TakeNull \/ TakeReleasedBlock \/ ReleaseTwice
        BY <4>3
        DEF UseReleasedRow, TakeNull, TakeReleasedBlock, ReleaseTwice, Crash,
            iteratorVars, scanVars
      <4> QED
        BY <2>7, <4>1, <4>2, <4>3
    <3>2. IteratorAt'
      BY <3>1, IteratorKept
    <3>3. RowsOK'
      BY <3>1, FileKept DEF RowsOK
    <3> QED
      BY <2>1, <3>2, <3>3
  <2> QED
    BY <1>1, <1>2, <1>4, <2>2, <2>3, <2>4, <2>5, <2>6, <2>7 DEF Query
<1> QED
  BY <1>3, <1>4

(* The reader thread, when the file has lines.                             *)
LEMMA ReaderStep ==
  ASSUME TypeIInv, Phase, RowsOK, Reading, Reading', Numbering, ChainOK,
         ReaderAt, IteratorAt, file # <<>>, Reader, [Next]_vars
  PROVE  Numbering' /\ ChainOK' /\ ReaderAt' /\ IteratorAt' /\ RowsOK'
<1>1. ~ AddToNextBlockThrows
  BY DEF Reading, AddToNextBlockThrows
<1>2. Numbering' /\ ChainOK' /\ ReaderAt'
  BY <1>1, ReaderChain DEF Phase
<1>3. UNCHANGED <<iteratorVars, delivered, file>>
  BY DEF Reader, AddValue, AddToNextBlock, AddToNextBlockThrows, HandOver,
         EndLine, NextLine, LeaveLoop, Finish, NotifyEnd, ReadClosedStream,
         WriteReleasedBlock, WriteBeyondBlock, Crash, querySide, scanVars
<1>4. cpc' = cpc \/ (Fetching /\ Fetching')
  BY DEF Reader, AddValue, AddToNextBlock, AddToNextBlockThrows, HandOver,
         EndLine, NextLine, LeaveLoop, Finish, NotifyEnd, ReadClosedStream,
         WriteReleasedBlock, WriteBeyondBlock, Crash, Notified, Fetching
<1>5. ASSUME cblock # NoBlock
      PROVE  Len(store'[cblock].cells) = Len(store[cblock].cells)
  <2>1. cblock \in 1 .. sBlockNumber
    BY <1>5, Shapes
  <2>2. rblock # cblock
    <3>1. cblock = NextTaken - 1 /\ (rblock # NoBlock => rblock = sBlockNumber)
      BY <1>5 DEF Numbering
    <3>2. CASE rblock # NoBlock
      <4>1. NextTaken = sBlockNumber - 1 - Len(queue) + 1 /\ Len(queue) \in Nat
        BY <3>2, Shapes DEF NextTaken, LastFull
      <4> QED
        BY <3>1, <3>2, <4>1, Shapes
    <3> QED
      BY <1>5, <3>2
  <2>3. \A tag : Wrote(tag) => store'[cblock].cells = store[cblock].cells
    BY <2>1, <2>2 DEF Wrote
  <2>4. KeptCells => store'[cblock].cells = store[cblock].cells
    BY <2>1 DEF KeptCells
  <2> QED
    BY <2>3, <2>4, ReaderWrites, OthersKeepCells
<1>6. IteratorAt'
  BY <1>3, <1>4, <1>5, IteratorKept DEF iteratorVars
<1>7. RowsOK'
  BY <1>3, FileKept DEF RowsOK, Reading
<1> QED
  BY <1>2, <1>6, <1>7

(* A file without lines: the reader goes on for ever, nothing is taken.    *)
LEMMA EmptyFileStep ==
  ASSUME TypeIInv, Phase, RowsOK, Reading, Reading', Numbering, NothingToTake,
         NoneTaken, file = <<>>, Reader \/ Query \/ SpuriousWakeup
  PROVE  Numbering' /\ NothingToTake' /\ NoneTaken' /\ RowsOK' /\ file' = file
<1>1. NoBlock' = NoBlock
  BY DEF NoBlock, BM!NoBlock
<1>2. CASE Reader
  <2>1. EndLine \/ NextLine \/ ReadClosedStream \/ WriteReleasedBlock \/ WriteBeyondBlock
    BY <1>2
    DEF Reader, AddValue, AddToNextBlock, AddToNextBlockThrows, HandOver,
        LineDone, LeaveLoop, Finish, NotifyEnd, NothingToTake, Phase
  <2>2. /\ UNCHANGED <<queue, rblock, cblock, sBlockNumber, line, delivered,
                       offset, ret, cpc, file>>
        /\ moreLines' /\ rpc' \in {"unstarted", "line", "loop"}
    BY <2>1
    DEF EndLine, NextLine, ReadClosedStream, WriteReleasedBlock, WriteBeyondBlock,
        Crash, querySide, managerVars, readerVars, iteratorVars, scanVars,
        NothingToTake
  <2> QED
    BY <1>1, <2>2, FileKept
    DEF Numbering, NextTaken, LastFull, NothingToTake, NoneTaken, Fetching,
        RowsOK, Reading
<1>3. CASE Query \/ SpuriousWakeup
  <2>1. Open \/ (NextRow /\ cpc' = "block" /\ offset' = 0) \/ WaitForBlock \/ SpuriousWakeup
    <3>1. cpc \in {"idle", "block", "wait", "woken"} /\ queue = <<>>
          /\ cblock = NoBlock /\ rblock # NoBlock
      BY DEF NoneTaken, NothingToTake, Fetching
    <3> QED
      BY <1>3, <3>1
      DEF Query, OpenThrows, NextRow, GoOn, NextRowThrows, Throws, EndOfRows, SwitchBlock,
          AtSwitch, BeginRow, ReadValue, RowThrows, UseRow, UseReleasedRow,
          TakeBlock, TakeNull, TakeReleasedBlock, DropStream, DropPrevious,
          DropCurrent, ReleaseTwice, StopReader, JoinReader, Reading
  <2>2. /\ UNCHANGED <<queue, rblock, cblock, sBlockNumber, line, moreLines,
                       delivered, ret, file>>
        /\ offset' = 0
        /\ rpc' \in {"unstarted", "line", "loop"}
        /\ cpc' \in {"idle", "block", "wait", "woken"}
    BY <2>1
    DEF Open, NextRow, WaitForBlock, SpuriousWakeup, GoOn, readerSide,
        managerVars, iteratorVars, scanVars, NothingToTake, NoneTaken, Fetching
  <2> QED
    BY <1>1, <2>2, FileKept
    DEF Numbering, NextTaken, LastFull, NothingToTake, NoneTaken, Fetching,
        RowsOK, Reading
<1> QED
  BY <1>2, <1>3

LEMMA NewScanRows ==
  ASSUME TypeIInv, TypeIInv', NewScan
  PROVE  /\ Numbering' /\ RowsOK' /\ NoneTaken' /\ cblock' = NoBlock'
         /\ file' # <<>> => ChainOK' /\ ReaderAt'
         /\ file' = <<>> => NothingToTake'
<1>1. /\ sBlockNumber \in Nat /\ NoBlock = 0 /\ NoBlock' = 0
  BY Shapes DEF NoBlock, BM!NoBlock
<1>2. PICK n : n = sBlockNumber + 1
  OBVIOUS
<1>3. /\ sBlockNumber' = n /\ rblock' = n /\ n \in Nat \ {0}
      /\ queue' = <<>> /\ cblock' = 0 /\ offset' = 0 /\ cpc' = "idle"
      /\ delivered' = <<>> /\ rpc' = "unstarted" /\ ret' = "marker"
      /\ line' = 1 /\ col' = 1 /\ moreLines' = TRUE
      /\ store'[n].cells = <<>>
  BY <1>1, <1>2 DEF NewScan, BM!CreateBlock, Empty, NoBlock, BM!NoBlock
<1>4. LastFull' = n - 1 /\ NextTaken' = n
  BY <1>1, <1>3 DEF LastFull, NextTaken
<1>5. Numbering'
  BY <1>1, <1>3, <1>4 DEF Numbering
<1>6. RowsOK' /\ NoneTaken'
  BY <1>3 DEF RowsOK, NoneTaken
<1>7. Chain' = {n}
  BY <1>3, <1>4 DEF Chain
<1>8. ChainOK'
  <2>1. \A b \in Chain' : b = n
    BY <1>7
  <2>2. BlockOK(n)'
    BY <1>3 DEF BlockOK
  <2>3. FirstPos(n)' = <<1, 1>>
    BY <1>3 DEF FirstPos
  <2>4. FirstPos(NextTaken)' = FirstPos(n)'
    BY <1>4 DEF FirstPos
  <2>5. ~ (n <= LastFull') /\ ~ (n < sBlockNumber')
    BY <1>3, <1>4
  <2> HIDE DEF LastFull, NextTaken
  <2> QED
    BY <2>1, <2>2, <2>3, <2>4, <2>5 DEF ChainOK
<1>9. file' # <<>> => ReaderAt'
  <2>1. file' \in Seq(Seq(Nat))
    BY ScanAssumption DEF TypeIInv, TypeOK, ScanTypeOK
  <2>2. file' # <<>> => 1 \in DOMAIN file'
    BY <2>1
  <2> QED
    BY <1>1, <1>3, <2>2 DEF ReaderAt
<1>10. NothingToTake'
  BY <1>1, <1>3 DEF NothingToTake
<1> QED
  BY <1>1, <1>3, <1>5, <1>6, <1>8, <1>9, <1>10

(* While a scan is being read it is the same scan.                         *)
LEMMA StillReading ==
  ASSUME TypeIInv, ScanIInv, [Next]_vars, Reading', ~ NewScan, ~ UNCHANGED vars
  PROVE  Reading /\ file' = file /\ (Reader \/ Query \/ SpuriousWakeup)
<1>1. Reader \/ Query \/ SpuriousWakeup
  <2>1. ~ Abandon
    BY DEF Abandon, Reading
  <2>2. ~ NewScanThrows
    BY DEF NewScanThrows, Reading, ScanIInv, Phase
  <2> QED
    BY <2>1, <2>2 DEF Next, Stopped, Environment
<1>2. ~ limitHit
  BY LimitStays DEF Reading
<1>3. /\ outcome' = outcome \/ (Open /\ outcome = "new") \/ outcome' \notin {"new", "open"}
      /\ file' = file
  BY <1>1
  DEF SpuriousWakeup, GoOn, Query, Open, OpenThrows, Throws, NextRow,
      NextRowThrows, EndOfRows, SwitchBlock, BeginRow, ReadValue, RowThrows,
      UseRow, UseReleasedRow, TakeBlock, WaitForBlock, TakeNull,
      TakeReleasedBlock, DropStream, DropPrevious, DropCurrent,
      ReleaseTwice, StopReader, JoinReader, Reader, AddValue, HandOver,
      AddToNextBlock, AddToNextBlockThrows, EndLine, NextLine, LeaveLoop,
      Finish, NotifyEnd, ReadClosedStream, WriteReleasedBlock,
      WriteBeyondBlock, Crash, querySide, scanVars
<1> QED
  BY <1>1, <1>2, <1>3 DEF Reading

LEMMA RowsStep ==
  ASSUME TypeIInv, TypeIInv', ScanIInv, [Next]_vars
  PROVE  ScanIInv'
<1>1. Phase'
  BY PhaseStep DEF ScanIInv
<1>2. CASE UNCHANGED vars
  <2>1. UNCHANGED <<sBlockNumber, store, rpc, rblock, line, col, moreLines,
                    queue, cpc, ret, cblock, offset, endOffset, row, file,
                    delivered, outcome, limitHit>>
    BY <1>2 DEF vars, managerVars, readerVars, iteratorVars, scanVars
  <2>2. NoBlock' = NoBlock
    BY DEF NoBlock, BM!NoBlock
  <2>3. Reading' <=> Reading
    BY <2>1 DEF Reading
  <2>4. RowsOK => RowsOK'
    BY <2>1, FileKept DEF RowsOK
  <2>5. Numbering => Numbering'
    BY <2>1, <2>2 DEF Numbering, NextTaken, LastFull
  <2>6. Numbering /\ ChainOK => ChainOK'
    BY <2>1, ChainUntouched
  <2>7. ReaderAt => ReaderAt'
    BY <2>1, <2>2 DEF ReaderAt, LastCell, After, Pos
  <2>8. IteratorAt => IteratorAt'
    BY <2>1, IteratorKept
  <2>9. (NothingToTake => NothingToTake') /\ (NoneTaken => NoneTaken')
    BY <2>1, <2>2 DEF NothingToTake, NoneTaken, Fetching
  <2> QED
    BY <1>1, <2>1, <2>3, <2>4, <2>5, <2>6, <2>7, <2>8, <2>9 DEF ScanIInv
<1>3. CASE NewScan
  <2>1. /\ Numbering' /\ RowsOK' /\ NoneTaken' /\ IteratorAt'
        /\ file' # <<>> => ChainOK' /\ ReaderAt'
        /\ file' = <<>> => NothingToTake'
    BY <1>3, NewScanRows DEF IteratorAt
  <2> QED
    BY <1>1, <2>1 DEF ScanIInv
<1>4. CASE ~ Reading' /\ ~ NewScan
  <2>1. RowsOK'
    <3>1. CASE limitHit'
      BY <3>1 DEF RowsOK
    <3>2. CASE ~ limitHit' /\ UseRow
      <4>1. ~ limitHit /\ outcome' = outcome /\ cpc = "use"
        BY <3>2 DEF UseRow, readerSide
      <4>2. Reading'
        BY <3>2, <4>1 DEF Reading, ScanIInv, Phase
      <4> QED
        BY <1>4, <4>2
    <3>3. CASE ~ limitHit' /\ ~ UseRow
      <4>1. UNCHANGED <<delivered, file>>
        BY <1>4, <3>3
        DEF Next, Stopped, Environment, NewScanThrows, Abandon, SpuriousWakeup,
            GoOn, vars, Query, Open, OpenThrows, Throws, NextRow, NextRowThrows,
            EndOfRows, SwitchBlock, BeginRow, ReadValue, RowThrows,
            UseReleasedRow, TakeBlock, WaitForBlock, TakeNull,
            TakeReleasedBlock, DropStream, DropPrevious, DropCurrent,
            ReleaseTwice, StopReader, JoinReader, Reader, AddValue, HandOver,
            AddToNextBlock, AddToNextBlockThrows, EndLine, NextLine, LeaveLoop,
            Finish, NotifyEnd, ReadClosedStream, WriteReleasedBlock,
            WriteBeyondBlock, Crash, querySide, scanVars
      <4>2. ~ limitHit
        BY <3>3, LimitStays
      <4> QED
        BY <4>1, <4>2, FileKept DEF RowsOK, ScanIInv
    <3> QED
      BY <3>1, <3>2, <3>3
  <2> QED
    BY <1>1, <1>4, <2>1 DEF ScanIInv
<1>5. CASE Reading' /\ ~ NewScan /\ ~ UNCHANGED vars
  <2>1. Reader \/ Query \/ SpuriousWakeup
    BY <1>5, StillReading
  <2>2. Reading /\ file' = file
    BY <1>5, StillReading
  <2>3. CASE file = <<>>
    <3>1. Numbering' /\ NothingToTake' /\ NoneTaken' /\ RowsOK' /\ file' = file
      BY <1>5, <2>1, <2>2, <2>3, EmptyFileStep DEF ScanIInv
    <3> QED
      BY <1>1, <2>3, <3>1 DEF ScanIInv
  <2>4. CASE file # <<>>
    <3>1. Numbering /\ ChainOK /\ ReaderAt /\ IteratorAt /\ RowsOK /\ Phase
      BY <2>2, <2>4 DEF ScanIInv
    <3>2. Numbering' /\ ChainOK' /\ ReaderAt' /\ IteratorAt' /\ RowsOK'
      <4>1. CASE Reader
        BY <1>5, <2>2, <2>4, <3>1, <4>1, ReaderStep
      <4>2. CASE Query
        BY <1>5, <2>2, <2>4, <3>1, <4>2, QueryStep
      <4>3. CASE SpuriousWakeup
        <5>1. /\ UNCHANGED <<sBlockNumber, store, rpc, rblock, line, col,
                             moreLines, queue, ret, cblock, offset, endOffset,
                             row, file, delivered, limitHit>>
              /\ Fetching /\ Fetching'
          BY <4>3 DEF SpuriousWakeup, GoOn, managerVars, readerSide, scanVars, Fetching
        <5>2. NoBlock' = NoBlock
          BY DEF NoBlock, BM!NoBlock
        <5>3. Numbering'
          BY <3>1, <5>1, <5>2 DEF Numbering, NextTaken, LastFull
        <5>4. ChainOK'
          BY <3>1, <5>1, ChainUntouched
        <5>5. ReaderAt'
          BY <3>1, <5>1, <5>2 DEF ReaderAt, LastCell, After, Pos
        <5>6. IteratorAt'
          BY <3>1, <5>1, IteratorKept
        <5>7. RowsOK'
          BY <3>1, <5>1, FileKept DEF RowsOK
        <5> QED
          BY <5>3, <5>4, <5>5, <5>6, <5>7
      <4> QED
        BY <2>1, <4>1, <4>2, <4>3
    <3>3. file' # <<>>
      BY <2>2, <2>4
    <3> QED
      BY <1>1, <3>2, <3>3 DEF ScanIInv
  <2> QED
    BY <2>3, <2>4
<1> QED
  BY <1>2, <1>3, <1>4, <1>5

LEMMA SpecRows == Spec => []ScanIInv
<1>1. Init => ScanIInv
  BY DEF Init, ScanIInv, Phase, RowsOK, Reading
<1>2. TypeIInv /\ TypeIInv' /\ ScanIInv /\ [Next]_vars => ScanIInv'
  BY RowsStep
<1> QED
  BY <1>1, <1>2, SpecTypes, PTL DEF Spec

(* The iterator releases its current block only after it has left it.      *)
BlockInUse ==
  cpc \in {"idle", "marker", "begin", "value", "taken", "use"} /\ cblock # NoBlock
    => cblock \in blocks

LEMMA BlockInUseStep ==
  ASSUME TypeIInv, BlockInUse, [Next]_vars
  PROVE  BlockInUse'
<1>1. NoBlock' = NoBlock
  BY DEF NoBlock, BM!NoBlock
<1>2. CASE UNCHANGED vars
  BY <1>1, <1>2 DEF vars, managerVars, iteratorVars, BlockInUse
<1>3. CASE Reader
  <2>1. UNCHANGED cblock /\ blocks \subseteq blocks'
    BY <1>3
    DEF Reader, AddValue, AddToNextBlock, AddToNextBlockThrows, HandOver,
        EndLine, NextLine, LeaveLoop, Finish, NotifyEnd, ReadClosedStream,
        WriteReleasedBlock, WriteBeyondBlock, Crash, querySide, iteratorVars,
        managerVars, BM!CreateBlock, BM!CreateBlockThrows
  <2>2. cpc' = cpc \/ cpc' = "woken"
    BY <1>3
    DEF Reader, AddValue, AddToNextBlock, AddToNextBlockThrows, HandOver,
        EndLine, NextLine, LeaveLoop, Finish, NotifyEnd, ReadClosedStream,
        WriteReleasedBlock, WriteBeyondBlock, Crash, Notified
  <2> QED
    BY <1>1, <2>1, <2>2 DEF BlockInUse
<1>4. CASE Environment
  BY <1>1, <1>4
  DEF Environment, NewScan, NewScanThrows, BM!CreateBlockThrows, Abandon,
      SpuriousWakeup, GoOn, managerVars, iteratorVars, BlockInUse
<1>5. CASE Query
  <2>1. CASE Open \/ NextRow
    BY <1>1, <2>1 DEF Open, NextRow, GoOn, managerVars, iteratorVars, BlockInUse
  <2>2. CASE OpenThrows \/ NextRowThrows \/ RowThrows \/ EndOfRows
    BY <2>2 DEF OpenThrows, NextRowThrows, RowThrows, EndOfRows, Throws, BlockInUse
  <2>3. CASE SwitchBlock \/ DropStream \/ DropPrevious \/ DropCurrent
             \/ StopReader \/ JoinReader
    BY <2>3
    DEF SwitchBlock, DropStream, DropPrevious, DropCurrent, StopReader,
        JoinReader, BlockInUse
  <2>4. CASE BeginRow \/ ReadValue \/ UseRow
    BY <1>1, <2>4
    DEF BeginRow, ReadValue, UseRow, managerVars, iteratorVars, BlockInUse
  <2>5. CASE TakeBlock
    BY <2>5 DEF TakeBlock, managerVars, BlockInUse
  <2>6. CASE WaitForBlock
    BY <2>6 DEF WaitForBlock, GoOn, BlockInUse
  <2>7. CASE UseReleasedRow \/ TakeNull \/ TakeReleasedBlock \/ ReleaseTwice
    BY <1>1, <2>7
    DEF UseReleasedRow, TakeNull, TakeReleasedBlock, ReleaseTwice, Crash,
        managerVars, iteratorVars, BlockInUse
  <2> QED
    BY <1>5, <2>1, <2>2, <2>3, <2>4, <2>5, <2>6, <2>7 DEF Query
<1> QED
  BY <1>2, <1>3, <1>4, <1>5 DEF Next, Stopped

(* Whatever the interleaving of the two threads, the row that getNextRow() *)
(* returns is the next line of the file, its values in their order, none   *)
(* left out and none twice; and the iterator always has a block, even      *)
(* after the reader was refused one.                                       *)
THEOREM RowsBeforeLimitHolds == Spec => []RowsBeforeLimit
<1>1. Init => BlockInUse
  BY DEF Init, BlockInUse
<1>2. TypeIInv /\ BlockInUse /\ [Next]_vars => BlockInUse'
  BY BlockInUseStep
<1>3. TypeIInv /\ BlockInUse /\ ScanIInv => RowsBeforeLimit
  BY DEF TypeIInv, HasBlock, BlockInUse, ScanIInv, RowsOK, RowsBeforeLimit,
         CurrentBlockExists
<1> QED
  BY <1>1, <1>2, <1>3, SpecTypes, SpecRows, PTL DEF Spec

-----------------------------------------------------------------------------
(* The refinement.                                                         *)

(* A line that is read as it should be gives the row it should give.       *)
LEMMA RefinedStep ==
  ASSUME TypeIInv, ScanIInv, ~ limitHit', [Next]_vars
  PROVE  [RS!Next]_RS!streamVars
<1>0. ~ limitHit
  BY LimitStays
<1>1. CASE UNCHANGED <<file, delivered, outcome>>
  BY <1>1 DEF RS!streamVars
<1>2. CASE NewScan
  <2>1. outcome \notin {"new", "open"}
    BY <1>2 DEF NewScan, ScanIInv, Phase
  <2>2. outcome \in {"none", "eof", "threw", "abandoned"}
    BY <2>1 DEF TypeIInv, TypeOK, ScanTypeOK
  <2> QED
    BY <1>2, <2>2 DEF NewScan, RS!NextScan, RS!Next
<1>3. CASE Open
  BY <1>3 DEF Open, RS!Open, RS!Next
<1>4. CASE OpenThrows
  BY <1>4 DEF OpenThrows, Throws, RS!Fail, RS!Next
<1>5. CASE Abandon
  BY <1>5 DEF Abandon, RS!Abandon, RS!Next
<1>6. CASE UseRow
  <2>1. Reading /\ cblock # NoBlock /\ file # <<>> /\ cpc = "use" /\ outcome = "open"
    <3>1. cpc = "use"
      BY <1>6 DEF UseRow
    <3>2. outcome = "open"
      BY <3>1 DEF ScanIInv, Phase, TypeIInv, TypeOK, ScanTypeOK
    <3>3. Reading
      BY <1>0, <3>2 DEF Reading
    <3> QED
      BY <3>1, <3>2, <3>3 DEF ScanIInv, IteratorAt, NoneTaken, Fetching
  <2>2. Numbering /\ ChainOK /\ IteratorAt /\ BlockTaken /\ RowsOK
    BY <2>1 DEF ScanIInv, IteratorAt
  <2>3. /\ Here.line = Done + 1 /\ CellOK(Here)
        /\ \A k \in 1 .. Done : RS!FillsRow(k)
    BY <2>1, <2>2, HereFacts DEF BlockTaken
  <2>4. PICK r : r = [i \in DOMAIN row |-> <<Origin(i).line, Origin(i).col>>]
    OBVIOUS
  <2>5. delivered' = Append(delivered, r)
    BY <1>6, <2>4 DEF UseRow, Origin
  <2>6. RowsOK' /\ UNCHANGED <<file, outcome>>
    <3>1. RowsOK'
      BY <1>0, <1>6, <2>1, <2>2, IteratorUsesRow DEF TypeIInv
    <3> QED
      BY <1>6, <3>1 DEF UseRow
  <2>7. PICK l : l = Done + 1
    OBVIOUS
  <2>8. r \in RS!RowsOf(l)
    <3>1. delivered \in Seq(Seq(Nat \X Nat))
      BY DEF TypeIInv, TypeOK, ScanTypeOK
    <3>2. delivered' \in Seq(Seq(Nat \X Nat))
      BY <1>6, UseRowTypes
    <3>3. l \in DOMAIN delivered' /\ delivered'[l] = r
      BY <2>5, <2>7, <3>1, <3>2 DEF Done
    <3>4. delivered'[l] \in RS!RowsOf(l)'
      BY <2>6, <3>3 DEF RowsOK
    <3> QED
      BY <2>6, <3>3, <3>4, FileKept
  <2>9. l <= Len(file) /\ l = Len(delivered) + 1
    <3>1. l \in 1 .. Len(file)
      BY <2>3, <2>7, FileShapes DEF CellOK
    <3> QED
      BY <2>7, <3>1, FileShapes DEF Done
  <2>10. \A k \in 1 .. l - 1 : RS!FillsRow(k)
    BY <2>3, <2>7, RowShapes
  <2>11. RS!Deliver
    BY <2>1, <2>5, <2>6, <2>8, <2>9, <2>10 DEF RS!Deliver
  <2> QED
    BY <2>11 DEF RS!Next
<1>7. CASE EndOfRows
  <2>1. cpc = "marker" /\ TagAt(offset) = "DD" /\ UNCHANGED <<file, delivered>>
        /\ outcome' = "eof"
    BY <1>7 DEF EndOfRows
  <2>2. outcome = "open" /\ cblock # NoBlock
    BY <2>1 DEF ScanIInv, Phase, TypeIInv, TypeOK, ScanTypeOK, HasBlock
  <2>3. Reading /\ file # <<>>
    BY <1>0, <2>1, <2>2 DEF Reading, ScanIInv, NoneTaken, Fetching
  <2>4. Numbering /\ ChainOK /\ BlockTaken
    BY <2>2, <2>3 DEF ScanIInv, IteratorAt
  <2>5. Here.tag = "DD"
    BY <2>1, <2>2, <2>4, HereFacts
  <2>6. Done = Len(file) /\ \A k \in 1 .. Done : RS!FillsRow(k)
    BY <2>1, <2>4, <2>5 DEF BlockTaken
  <2>7. RS!End
    BY <2>1, <2>2, <2>6 DEF RS!End, Done
  <2> QED
    BY <2>7 DEF RS!Next
<1>8. CASE NextRowThrows \/ RowThrows
  <2>1. /\ cpc \in {"idle", "marker", "begin", "value", "taken"} /\ cblock # NoBlock
        /\ outcome = "open" /\ UNCHANGED <<file, delivered>> /\ outcome' = "threw"
    BY <1>8
    DEF NextRowThrows, RowThrows, Throws, ScanIInv, Phase, TypeIInv, TypeOK,
        ScanTypeOK, HasBlock
  <2>2. Reading /\ file # <<>>
    BY <1>0, <1>8, <2>1
    DEF Reading, ScanIInv, NothingToTake
  <2>3. Numbering /\ ChainOK /\ BlockTaken
    BY <2>1, <2>2 DEF ScanIInv, IteratorAt
  <2>4. /\ offset # endOffset /\ TagAt(offset) = Here.tag /\ CellOK(Here) /\ Here \in Cells
        /\ Here.tag \in {"AA", "BB", "CC", "DD"}
    BY <2>1, <2>3, HereFacts DEF Cells
  <2>5. ASSUME NEW l \in 1 .. Len(file), l <= Len(delivered) + 1, ~ RS!WellFormed(l)
        PROVE  RS!Next
    <3>1. RS!Fail
      BY <2>1, <2>5 DEF RS!Fail
    <3> QED
      BY <3>1 DEF RS!Next
  <2>6. CASE NextRowThrows
    <3>1. /\ cpc = "idle" /\ Here.tag # "BB" /\ Here.tag # "DD"
          /\ Here.line = Done /\ Done > 0
          /\ RS!Stored(Done) = DOMAIN file[Done] => Here.col = NumColumns + 1
      BY <2>3, <2>4, <2>6 DEF NextRowThrows, BlockTaken
    <3>2. Here.col \in DOMAIN file[Done] /\ Done \in 1 .. Len(file)
      BY <2>4, <3>1, FileShapes DEF CellOK, RS!Stored
    <3>3. ~ RS!WellFormed(Done)
      <4>1. SUFFICES ASSUME RS!WellFormed(Done) PROVE FALSE
        OBVIOUS
      <4>2. NumColumns + 1 \in 1 .. NumColumns
        BY <3>1, <3>2, <4>1, FileShapes DEF RS!WellFormed
      <4> QED
        BY <4>2, Shapes
    <3> QED
      BY <2>5, <3>2, <3>3, RowShapes DEF Done
  <2>7. CASE RowThrows
    <3>1. /\ cpc \in {"value", "taken"} /\ Here.tag # "AA"
          /\ cpc = "value" => Here.tag = "BB"
          /\ Here.tag # "DD" /\ Here.line = Done + 1
          /\ RowSoFar(Done + 1, Here.col) /\ Len(row) < NumColumns
          /\ cpc = "taken" /\ RS!Stored(Done + 1) = DOMAIN file[Done + 1] => Here.tag = "AA"
      BY <2>3, <2>4, <2>7 DEF RowThrows, BlockTaken
    <3>2. Done + 1 \in 1 .. Len(file)
      BY <2>4, <3>1, FileShapes DEF CellOK
    <3>3. ~ RS!WellFormed(Done + 1)
      <4>1. SUFFICES ASSUME RS!WellFormed(Done + 1) PROVE FALSE
        OBVIOUS
      <4>2. cpc = "value" /\ Here.tag = "BB"
        BY <3>1, <4>1 DEF RS!WellFormed
      <4>3. Here.col = NumColumns + 1
        BY <2>4, <3>1, <4>1, <4>2 DEF CellOK, RS!WellFormed
      <4>4. Len(row) = Here.col - 1
        BY <3>1, <4>1 DEF RowSoFar, RS!WellFormed
      <4> QED
        BY <3>1, <4>3, <4>4, Shapes
    <3> QED
      BY <2>5, <3>2, <3>3, RowShapes DEF Done
  <2> QED
    BY <1>8, <2>6, <2>7
<1>9. CASE ~ (NewScan \/ Open \/ OpenThrows \/ Abandon \/ UseRow \/ EndOfRows
              \/ NextRowThrows \/ RowThrows)
  <2>1. UNCHANGED <<file, delivered, outcome>>
    BY <1>9
    DEF Next, Stopped, Environment, NewScanThrows, SpuriousWakeup, GoOn, vars,
        Query, NextRow, SwitchBlock, BeginRow, ReadValue, UseReleasedRow,
        TakeBlock, WaitForBlock, TakeNull, TakeReleasedBlock, DropStream,
        DropPrevious, DropCurrent, ReleaseTwice, StopReader, JoinReader,
        Reader, AddValue, HandOver, AddToNextBlock, AddToNextBlockThrows,
        EndLine, NextLine, LeaveLoop, Finish, NotifyEnd, ReadClosedStream,
        WriteReleasedBlock, WriteBeyondBlock, Crash, querySide, scanVars
  <2> QED
    BY <1>1, <2>1
<1> QED
  BY <1>2, <1>3, <1>4, <1>5, <1>6, <1>7, <1>8, <1>9

(* The scan implements RowStream as long as the reader gets its blocks:    *)
(* wherever the threads interleave and wherever the end of a block cuts a  *)
(* row, the rows come out complete, once and in order; the end comes after *)
(* the last line; and only a malformed line makes the scan fail.           *)
THEOREM RowStreamImplemented == Spec /\ []~ limitHit => ImplementsRowStream
<1>1. Init => RS!Init
  BY DEF Init, RS!Init
<1>2. TypeIInv /\ ScanIInv /\ (~ limitHit)' /\ [Next]_vars => [RS!Next]_RS!streamVars
  BY RefinedStep
<1> QED
  BY <1>1, <1>2, SpecTypes, SpecRows, PTL DEF Spec, ImplementsRowStream, RS!Spec

-----------------------------------------------------------------------------
(* No block is lost.                                                       *)

Dropping == cpc \in {"dropStream", "dropPrevious", "dropCurrent", "stopReader", "join"}

(* Who has let go of its blocks.                                           *)
LetGo ==
  /\ Fetching /\ cblock # NoBlock => cblock = previousBlock
  /\ cpc \in {"dropCurrent", "stopReader", "join", "closed"} => previousBlock = NoBlock
  /\ cpc \in {"stopReader", "join", "closed"} => cblock = NoBlock
  /\ cpc = "closed" => queue = <<>> /\ rblock = NoBlock

Ledger ==
  complete /\ ~ limitHit =>
    /\ blocks \subseteq Held
    /\ Dropping => queue = <<>> /\ rblock = NoBlock

LEMMA LetGoStep ==
  ASSUME TypeIInv, LetGo, [Next]_vars
  PROVE  LetGo'
<1>1. NoBlock' = NoBlock /\ NoBlock = 0
  BY DEF NoBlock, BM!NoBlock
<1>2. CASE UNCHANGED vars
  BY <1>1, <1>2 DEF vars, readerVars, iteratorVars, LetGo, Fetching
<1>3. CASE Reader
  <2>1. UNCHANGED <<cblock, previousBlock>>
    BY <1>3
    DEF Reader, AddValue, AddToNextBlock, AddToNextBlockThrows, HandOver,
        EndLine, NextLine, LeaveLoop, Finish, NotifyEnd, ReadClosedStream,
        WriteReleasedBlock, WriteBeyondBlock, Crash, querySide, iteratorVars
  <2>2. cpc' = cpc \/ (Fetching /\ Fetching')
    BY <1>3
    DEF Reader, AddValue, AddToNextBlock, AddToNextBlockThrows, HandOver,
        EndLine, NextLine, LeaveLoop, Finish, NotifyEnd, ReadClosedStream,
        WriteReleasedBlock, WriteBeyondBlock, Crash, Notified, Fetching
  <2>3. rblock = NoBlock => UNCHANGED <<queue, rblock>>
    BY <1>1, <1>3, Numbers
    DEF Reader, AddValue, AddToNextBlock, AddToNextBlockThrows, HandOver,
        EndLine, NextLine, LeaveLoop, Finish, NotifyEnd, ReadClosedStream,
        WriteReleasedBlock, WriteBeyondBlock, Crash, readerVars
  <2> QED
    BY <1>1, <2>1, <2>2, <2>3 DEF LetGo, Fetching
<1>4. CASE Environment
  <2>1. CASE NewScan
    BY <1>1, <2>1 DEF NewScan, LetGo, Fetching
  <2>2. CASE NewScanThrows
    BY <1>1, <2>2 DEF NewScanThrows, LetGo, Fetching, readerVars, iteratorVars
  <2>3. CASE Abandon
    BY <1>1, <2>3 DEF Abandon, LetGo, Fetching, iteratorVars
  <2>4. CASE SpuriousWakeup
    BY <1>1, <2>4 DEF SpuriousWakeup, GoOn, LetGo, Fetching
  <2> QED
    BY <1>4, <2>1, <2>2, <2>3, <2>4 DEF Environment
<1>5. CASE Query
  <2>1. CASE Open \/ NextRow \/ WaitForBlock
    BY <1>1, <2>1 DEF Open, NextRow, WaitForBlock, GoOn, LetGo, Fetching, iteratorVars
  <2>2. CASE OpenThrows \/ NextRowThrows \/ RowThrows \/ EndOfRows
    BY <1>1, <2>2
    DEF OpenThrows, NextRowThrows, RowThrows, EndOfRows, Throws, LetGo, Fetching,
        iteratorVars
  <2>3. CASE SwitchBlock
    BY <1>1, <2>3 DEF SwitchBlock, LetGo, Fetching
  <2>4. CASE BeginRow \/ ReadValue \/ UseRow
    BY <1>1, <2>4 DEF BeginRow, ReadValue, UseRow, LetGo, Fetching, iteratorVars
  <2>5. CASE TakeBlock
    BY <1>1, <2>5 DEF TakeBlock, LetGo, Fetching, TypeIInv, TypeOK, IteratorTypeOK
  <2>6. CASE DropStream \/ DropPrevious \/ DropCurrent \/ StopReader \/ JoinReader
    BY <1>1, <2>6
    DEF DropStream, DropPrevious, DropCurrent, StopReader, JoinReader, LetGo,
        Fetching, iteratorVars
  <2>7. CASE UseReleasedRow \/ TakeNull \/ TakeReleasedBlock \/ ReleaseTwice
    BY <1>1, <2>7
    DEF UseReleasedRow, TakeNull, TakeReleasedBlock, ReleaseTwice, Crash,
        readerVars, iteratorVars, LetGo, Fetching
  <2> QED
    BY <1>5, <2>1, <2>2, <2>3, <2>4, <2>5, <2>6, <2>7 DEF Query
<1> QED
  BY <1>2, <1>3, <1>4, <1>5 DEF Next, Stopped

(* The end marker is in the last block.                                    *)
LEMMA EndIsLast ==
  ASSUME TypeIInv, ScanIInv, ~ limitHit, cpc = "marker", TagAt(offset) = "DD"
  PROVE  queue = <<>> /\ rblock = NoBlock /\ file # <<>> /\ rpc \in {"notify", "done"}
<1>1. outcome = "open" /\ cblock # NoBlock
  BY DEF ScanIInv, Phase, TypeIInv, TypeOK, ScanTypeOK, HasBlock
<1>2. Reading /\ file # <<>>
  BY <1>1 DEF Reading, ScanIInv, NoneTaken, Fetching
<1>3. Numbering /\ ChainOK /\ BlockTaken /\ ReaderAt
  BY <1>1, <1>2 DEF ScanIInv, IteratorAt
<1>4. cblock = sBlockNumber /\ rblock = NoBlock
  BY <1>1, <1>3, HereFacts
<1>5. Len(queue) = 0
  <2>1. sBlockNumber = NextTaken - 1 /\ NextTaken = sBlockNumber - Len(queue) + 1
    BY <1>1, <1>3, <1>4 DEF Numbering, NextTaken, LastFull
  <2> QED
    BY <2>1, Shapes
<1>6. rpc \in {"notify", "done"}
  BY <1>3, <1>4 DEF ReaderAt, TypeIInv, TypeOK, ReaderTypeOK
<1> QED
  BY <1>2, <1>4, <1>5, <1>6, Shapes

LEMMA LedgerStep ==
  ASSUME TypeIInv, OneOwner, ScanIInv, LetGo, Ledger, [Next]_vars
  PROVE  Ledger'
<1>0. /\ NoBlock = 0 /\ NoBlock' = 0
      /\ sBlockNumber \in Nat /\ blocks \subseteq 1 .. sBlockNumber
      /\ queue \in Seq(Nat \ {NoBlock}) /\ NoBlock \notin Queued
  BY Numbers DEF NoBlock, BM!NoBlock
<1> SUFFICES ASSUME complete', ~ limitHit'
             PROVE  /\ blocks' \subseteq Held'
                    /\ Dropping' => queue' = <<>> /\ rblock' = NoBlock
  BY <1>0 DEF Ledger
<1>1. ~ limitHit
  BY LimitStays
<1>2. complete
  BY DEF Next, Stopped, Environment, NewScan, NewScanThrows, Abandon, SpuriousWakeup,
      GoOn, vars, Query, Open, OpenThrows, Throws, NextRow, NextRowThrows, EndOfRows,
      SwitchBlock, BeginRow, ReadValue, RowThrows, UseRow, UseReleasedRow,
      TakeBlock, WaitForBlock, TakeNull, TakeReleasedBlock, DropStream,
      DropPrevious, DropCurrent, ReleaseTwice, StopReader, JoinReader, scanVars,
      Reader, AddValue, HandOver, AddToNextBlock, AddToNextBlockThrows, EndLine,
      NextLine, LeaveLoop, Finish, NotifyEnd, ReadClosedStream, querySide,
      WriteReleasedBlock, WriteBeyondBlock, Crash
<1>3. blocks \subseteq Held /\ (Dropping => queue = <<>> /\ rblock = NoBlock)
  BY <1>1, <1>2 DEF Ledger
<1>4. ASSUME UNCHANGED <<blocks, queue, rblock, cblock, previousBlock>>
      PROVE  /\ blocks' \subseteq Held'
             /\ Dropping => queue' = <<>> /\ rblock' = NoBlock
  BY <1>0, <1>3, <1>4 DEF Held, Queued
<1>5. CASE UNCHANGED vars
  BY <1>4, <1>5 DEF vars, managerVars, readerVars, iteratorVars, Dropping
<1>6. CASE Reader
  <2>1. UNCHANGED <<cblock, previousBlock>> /\ (Dropping' => Dropping)
    <3>1. UNCHANGED <<cblock, previousBlock>>
      BY <1>6
      DEF Reader, AddValue, AddToNextBlock, AddToNextBlockThrows, HandOver,
          EndLine, NextLine, LeaveLoop, Finish, NotifyEnd, ReadClosedStream,
          WriteReleasedBlock, WriteBeyondBlock, Crash, querySide, iteratorVars
    <3>2. cpc' = cpc \/ cpc' = "woken"
      BY <1>6
      DEF Reader, AddValue, AddToNextBlock, AddToNextBlockThrows, HandOver,
          EndLine, NextLine, LeaveLoop, Finish, NotifyEnd, ReadClosedStream,
          WriteReleasedBlock, WriteBeyondBlock, Crash, Notified
    <3> QED
      BY <3>1, <3>2 DEF Dropping
  <2>2. CASE AddToNextBlock \/ Finish
    <3>1. /\ rblock \in blocks /\ queue' = Append(queue, rblock)
          /\ blocks' \subseteq blocks \cup {rblock'}
          /\ rblock' = NoBlock => blocks' = blocks
          /\ NoBlock \notin blocks'
      BY <1>0, <2>2
      DEF AddToNextBlock, HandOver, Finish, BM!CreateBlock, managerVars, NoBlock,
          BM!NoBlock
    <3>2. Queued' = Queued \cup {rblock}
      BY <1>0, <3>1, PushedQueue
    <3>3. ~ Dropping
      BY <1>0, <1>3, <3>1
    <3> QED
      BY <1>0, <1>3, <2>1, <3>1, <3>2, <3>3 DEF Held
  <2>3. CASE ~ (AddToNextBlock \/ Finish)
    <3>1. UNCHANGED <<blocks, queue, rblock>>
      BY <1>6, <2>3
      DEF Reader, AddValue, AddToNextBlockThrows, EndLine, NextLine, LeaveLoop,
          NotifyEnd, ReadClosedStream, WriteReleasedBlock, WriteBeyondBlock,
          Crash, managerVars, readerVars
    <3> QED
      BY <1>4, <2>1, <3>1
  <2> QED
    BY <2>2, <2>3
<1>7. CASE Environment
  <2>1. CASE NewScan
    <3>1. blocks = {}
      BY <1>0, <1>3, <2>1 DEF NewScan, LetGo, Held, Queued
    <3>2. blocks' = {rblock'} /\ cpc' = "idle"
      BY <2>1, <3>1 DEF NewScan, BM!CreateBlock
    <3>3. rblock' # 0
      BY <1>0, <2>1 DEF NewScan, BM!CreateBlock
    <3> QED
      BY <1>0, <3>2, <3>3 DEF Held, Dropping
  <2>2. CASE NewScanThrows
    BY <1>4, <2>2
    DEF NewScanThrows, BM!CreateBlockThrows, readerVars, iteratorVars, Dropping
  <2>3. CASE Abandon
    BY <2>3 DEF Abandon
  <2>4. CASE SpuriousWakeup
    BY <1>4, <2>4 DEF SpuriousWakeup, GoOn, managerVars, Dropping
  <2> QED
    BY <1>7, <2>1, <2>2, <2>3, <2>4 DEF Environment
<1>8. CASE Query
  <2>1. CASE Open \/ NextRow \/ WaitForBlock
    BY <1>4, <2>1
    DEF Open, NextRow, WaitForBlock, GoOn, managerVars, iteratorVars, Dropping
  <2>2. CASE OpenThrows \/ NextRowThrows \/ RowThrows
    BY <2>2 DEF OpenThrows, NextRowThrows, RowThrows, Throws
  <2>3. CASE EndOfRows
    <3>1. queue = <<>> /\ rblock = NoBlock
      BY <1>1, <2>3, EndIsLast DEF EndOfRows
    <3> QED
      BY <1>0, <1>4, <2>3, <3>1 DEF EndOfRows, managerVars, iteratorVars
  <2>4. CASE SwitchBlock
    <3>1. blocks' \subseteq blocks /\ (previousBlock # NoBlock => previousBlock \notin blocks')
      BY <1>0, <2>4 DEF SwitchBlock, BM!Release, BM!managerVars, NoBlock
    <3>2. UNCHANGED <<queue, rblock, cblock>> /\ previousBlock' = cblock /\ cpc' = "block"
      BY <2>4 DEF SwitchBlock
    <3> QED
      BY <1>0, <1>3, <3>1, <3>2 DEF Held, Queued, Dropping
  <2>5. CASE BeginRow \/ ReadValue \/ UseRow
    BY <1>4, <2>5
    DEF BeginRow, ReadValue, UseRow, managerVars, iteratorVars, Dropping
  <2>6. CASE TakeBlock
    <3>1. /\ queue # <<>> /\ queue' = Tail(queue) /\ cblock' = Head(queue)
          /\ UNCHANGED <<blocks, rblock, previousBlock>>
          /\ cpc' \in {"marker", "begin", "taken"} /\ Fetching
      BY <2>6
      DEF TakeBlock, managerVars, Fetching, TypeIInv, TypeOK, IteratorTypeOK
    <3>2. Queued' = Queued \ {Head(queue)} /\ Head(queue) \in Queued
      BY <1>0, <1>1, <3>1, PoppedQueue DEF OneOwner, UniqueQueue
    <3>3. cblock \in {NoBlock, previousBlock}
      BY <3>1 DEF LetGo
    <3> QED
      BY <1>0, <1>3, <3>1, <3>2, <3>3 DEF Held, Dropping
  <2>7. CASE DropStream \/ StopReader
    BY <1>4, <2>7 DEF DropStream, StopReader, managerVars, iteratorVars, Dropping
  <2>8. CASE DropPrevious
    <3>1. blocks' \subseteq blocks /\ (previousBlock # NoBlock => previousBlock \notin blocks')
      BY <1>0, <2>8 DEF DropPrevious, BM!Release, BM!managerVars, NoBlock
    <3>2. UNCHANGED <<queue, rblock, cblock>> /\ previousBlock' = NoBlock /\ Dropping
      BY <2>8 DEF DropPrevious, Dropping
    <3> QED
      BY <1>0, <1>3, <3>1, <3>2 DEF Held, Queued
  <2>9. CASE DropCurrent
    <3>1. blocks' \subseteq blocks /\ (cblock # NoBlock => cblock \notin blocks')
      BY <1>0, <2>9 DEF DropCurrent, BM!Release, BM!managerVars, NoBlock
    <3>2. UNCHANGED <<queue, rblock, previousBlock>> /\ cblock' = NoBlock /\ Dropping
      BY <2>9 DEF DropCurrent, Dropping
    <3> QED
      BY <1>0, <1>3, <3>1, <3>2 DEF Held, Queued
  <2>10. CASE JoinReader
    <3>1. blocks = {}
      BY <1>0, <1>3, <2>10 DEF JoinReader, LetGo, Held, Queued, Dropping
    <3> QED
      BY <2>10, <3>1 DEF JoinReader, managerVars, Dropping
  <2>11. CASE UseReleasedRow \/ TakeNull \/ TakeReleasedBlock \/ ReleaseTwice
    BY <1>0, <1>3, <1>4, <2>11
    DEF UseReleasedRow, TakeNull, TakeReleasedBlock, ReleaseTwice, Crash,
        managerVars, readerVars, iteratorVars, Dropping
  <2> QED
    BY <1>8, <2>1, <2>2, <2>3, <2>4, <2>5, <2>6, <2>7, <2>8, <2>9, <2>10, <2>11 DEF Query
<1> QED
  BY <1>5, <1>6, <1>7, <1>8 DEF Next, Stopped

LEMMA SpecLedger == Spec => [](LetGo /\ Ledger)
<1>1. Init => LetGo /\ Ledger
  BY DEF Init, LetGo, Ledger, BM!Init, Fetching, Dropping
<1>2. TypeIInv /\ OneOwner /\ ScanIInv /\ LetGo /\ Ledger /\ [Next]_vars
        => (LetGo /\ Ledger)'
  BY LetGoStep, LedgerStep
<1> QED
  BY <1>1, <1>2, SpecTypes, OneOwnerHolds, SpecRows, PTL DEF Spec

(* As long as every scan is read to its end, somebody still has every      *)
(* block of the block manager, and between two statements there is none.   *)
THEOREM NothingLostHolds == Spec => []NothingLost
<1>1. LetGo /\ Ledger => NothingLost
  BY DEF LetGo, Ledger, NothingLost, Held, Queued
<1> QED
  BY <1>1, SpecLedger, PTL

-----------------------------------------------------------------------------
(* The bytes of a line.                                                    *)

Below == {p \in Nat \X Nat : p[1] < p[2]}

(* Induction over the natural numbers, for a set.                          *)
LEMMA NatSetInduction ==
  ASSUME NEW S, 0 \in S, \A n \in Nat : n \in S => n + 1 \in S
  PROVE  Nat \subseteq S
<1> DEFINE T == {n \in Nat : n \notin S}
<1>1. SUFFICES ASSUME T # {} PROVE FALSE
  OBVIOUS
<1>2. IsWellFoundedOn(Below, Nat)
  <2>1. Below = OpToRel(<, Nat)
    BY DEF Below, OpToRel
  <2> QED
    BY <2>1, NatLessThanWellFounded
<1>3. PICK x \in T : \A y \in T : ~ (<<y, x>> \in Below)
  <2>1. T \subseteq Nat
    OBVIOUS
  <2> HIDE DEF T
  <2> QED
    BY <1>1, <1>2, <2>1, WFMin
<1>4. x # 0 /\ x - 1 \in Nat /\ x - 1 \in T
  BY <1>3
<1>5. <<x - 1, x>> \in Below
  BY <1>3, <1>4 DEF Below
<1> QED
  BY <1>3, <1>4, <1>5

(* f gives the bytes that the first c values of a line take, for c up to n. *)
SumsTo(list, n, f) ==
  f = [c \in 0 .. n |-> IF c = 0 THEN 0 ELSE f[c - 1] + 1 + list[c]]

SumsOf(list) == CHOOSE f : SumsTo(list, Len(list), f)
Sums(l) == SumsOf(file[l])

LEMMA SumsExist ==
  ASSUME NEW list, NEW n \in Nat
  PROVE  \E f : SumsTo(list, n, f)
<1> DEFINE S == {m \in Nat : \E f : SumsTo(list, m, f)}
<1>1. 0 \in S
  <2>1. SumsTo(list, 0, [c \in 0 .. 0 |-> 0])
    BY DEF SumsTo
  <2> QED
    BY <2>1
<1>2. ASSUME NEW m \in Nat, m \in S
      PROVE  m + 1 \in S
  <2>1. PICK f : SumsTo(list, m, f)
    BY <1>2
  <2> DEFINE g == [c \in 0 .. m + 1 |->
                     IF c \in 0 .. m THEN f[c] ELSE f[m] + 1 + list[c]]
  <2>2. SumsTo(list, m + 1, g)
    <3> DEFINE body(c) == IF c = 0 THEN 0 ELSE g[c - 1] + 1 + list[c]
    <3>1. ASSUME NEW c \in 0 .. m + 1
          PROVE  g[c] = body(c)
      <4>1. CASE c = 0
        BY <2>1, <4>1 DEF SumsTo
      <4>2. CASE c \in 1 .. m
        <5>1. f[c] = f[c - 1] + 1 + list[c]
          BY <2>1, <4>2 DEF SumsTo
        <5>2. c - 1 \in 0 .. m /\ c \in 0 .. m + 1 /\ c - 1 \in 0 .. m + 1
          BY <4>2
        <5> QED
          BY <4>2, <5>1, <5>2
      <4>3. CASE c = m + 1
        <5>1. c - 1 = m /\ c # 0 /\ c \notin 0 .. m /\ m \in 0 .. m + 1 /\ m \in 0 .. m
          BY <4>3
        <5> QED
          BY <4>3, <5>1
      <4> QED
        BY <4>1, <4>2, <4>3
    <3>2. g = [c \in 0 .. m + 1 |-> body(c)]
      BY <3>1
    <3> QED
      BY <3>2 DEF SumsTo
  <2> QED
    BY <2>2
<1> HIDE DEF S
<1>3. Nat \subseteq S
  BY <1>1, <1>2, NatSetInduction
<1> QED
  BY <1>3 DEF S

LEMMA LineSums ==
  ASSUME TypeIInv, NEW l \in 1 .. Len(file)
  PROVE  LET n == Len(file[l]) IN
         /\ LineBytes(l) = Sums(l)[n] /\ Sums(l)[0] = 0
         /\ \A c \in 1 .. n : Sums(l)[c] = Sums(l)[c - 1] + 1 + file[l][c]
         /\ \A c \in 0 .. n : Sums(l)[c] \in Nat /\ Sums(l)[c] >= c
         /\ \A c \in 0 .. n : Sums(l)[c] <= Sums(l)[n]
<1>1. PICK n : n = Len(file[l])
  OBVIOUS
<1>2. n \in Nat /\ \A c \in 1 .. n : file[l][c] \in Nat
  BY <1>1, FileShapes
<1>3. PICK s : s = Sums(l)
  OBVIOUS
<1>4. SumsTo(file[l], n, s)
  <2>1. \E f : SumsTo(file[l], n, f)
    BY <1>2, SumsExist
  <2> QED
    BY <1>1, <1>3, <2>1 DEF Sums, SumsOf
<1>5. LineBytes(l) = s[n]
  <2>1. LineBytes(l) = Sums(l)[Len(file[l])]
    BY Zenon DEF LineBytes, Sums, SumsOf, SumsTo
  <2> QED
    BY <1>1, <1>3, <2>1
<1>6. s[0] = 0 /\ \A c \in 1 .. n : s[c] = s[c - 1] + 1 + file[l][c]
  <2>1. \A c \in 0 .. n : s[c] = IF c = 0 THEN 0 ELSE s[c - 1] + 1 + file[l][c]
    BY <1>4 DEF SumsTo
  <2>2. 0 \in 0 .. n /\ \A c \in 1 .. n : c \in 0 .. n /\ c # 0
    BY <1>2
  <2> QED
    BY <2>1, <2>2
<1>7. \A c \in 0 .. n : s[c] \in Nat /\ s[c] >= c
  <2> DEFINE S == {c \in Nat : c <= n => s[c] \in Nat /\ s[c] >= c}
  <2>1. 0 \in S
    BY <1>6
  <2>2. ASSUME NEW c \in Nat, c \in S PROVE c + 1 \in S
    <3>1. SUFFICES ASSUME c + 1 <= n PROVE s[c + 1] \in Nat /\ s[c + 1] >= c + 1
      OBVIOUS
    <3>2. s[c] \in Nat /\ s[c] >= c /\ c + 1 \in 1 .. n
      BY <1>2, <2>2, <3>1
    <3>3. s[c + 1] = s[c] + 1 + file[l][c + 1] /\ file[l][c + 1] \in Nat
      BY <1>2, <1>6, <3>2
    <3> QED
      BY <3>2, <3>3
  <2> HIDE DEF S
  <2>3. Nat \subseteq S
    BY <2>1, <2>2, NatSetInduction
  <2> QED
    BY <1>2, <2>3 DEF S
<1>8. \A c \in 0 .. n : s[c] <= s[n]
  <2> DEFINE S == {c \in Nat : c <= n => s[n - c] <= s[n]}
  <2>1. 0 \in S
    BY <1>2, <1>7
  <2>2. ASSUME NEW c \in Nat, c \in S PROVE c + 1 \in S
    <3>1. SUFFICES ASSUME c + 1 <= n PROVE s[n - (c + 1)] <= s[n]
      OBVIOUS
    <3>2. PICK d : d = n - c
      OBVIOUS
    <3>3. d \in 1 .. n /\ d - 1 = n - (c + 1) /\ d - 1 \in 0 .. n /\ d \in 0 .. n
      BY <1>2, <3>1, <3>2
    <3>4. s[d] <= s[n] /\ s[d] = s[d - 1] + 1 + file[l][d] /\ file[l][d] \in Nat
      BY <1>2, <1>6, <2>2, <3>1, <3>2, <3>3
    <3>5. s[d] \in Nat /\ s[d - 1] \in Nat /\ s[n] \in Nat
      BY <1>2, <1>7, <3>3
    <3> QED
      BY <3>3, <3>4, <3>5
  <2> HIDE DEF S
  <2>3. Nat \subseteq S
    BY <2>1, <2>2, NatSetInduction
  <2>4. ASSUME NEW c \in 0 .. n PROVE s[c] <= s[n]
    <3>1. n - c \in S /\ n - c \in Nat /\ n - c <= n /\ n - (n - c) = c
      BY <1>2, <2>3
    <3> QED
      BY <3>1 DEF S
  <2> QED
    BY <2>4
<1> QED
  BY <1>1, <1>3, <1>5, <1>6, <1>7, <1>8

(* A block that holds nothing but values of one line, and perhaps the      *)
(* marker for the next of them, which did not fit.                         *)
ValuesTo(b, n) == \A i \in 1 .. n : store[b].cells[i].tag = "AA"

Weighed(b) ==
  LET cells == store[b].cells
      n     == Len(cells)
      taken == Sums(cells[1].line)[cells[n].col] - Sums(cells[1].line)[cells[1].col - 1]
  IN
  /\ n = 0 => store[b].used = 0
  /\ n > 0 /\ ValuesTo(b, n) =>
       cells[n].line = cells[1].line /\ store[b].used = taken
  /\ n > 0 /\ ValuesTo(b, n - 1) /\ cells[n].tag = "CC" =>
       cells[n].line = cells[1].line /\ taken + 1 >= Capacity

AllWeighed == \A b \in Chain : Weighed(b)

LEMMA WeighedKept ==
  ASSUME NEW b, store'[b] = store[b], file' = file, Weighed(b)
  PROVE  Weighed(b)'
  BY DEF Weighed, ValuesTo, Sums

(* What the reader writes to its block.                                    *)
LEMMA WeighedWrote ==
  ASSUME TypeIInv, file' = file, NEW r \in 1 .. sBlockNumber, BlockOK(r), Weighed(r),
         NEW tag \in {"AA", "BB", "CC", "DD"},
         store'[r].cells = Append(store[r].cells, Mark(tag, line, col)),
         line \in 1 .. Len(file),
         tag \in {"AA", "CC"} => col \in 1 .. Len(file[line]),
         store[r].cells # <<>> /\ LastCell(r).tag = "AA" =>
           LastCell(r).line = line /\ LastCell(r).col + 1 = col,
         tag = "AA" => store'[r].used = store[r].used + 1 + file[line][col],
         tag = "CC" => store[r].used + file[line][col] + 2 >= Capacity
  PROVE  Weighed(r)'
<1>1. PICK x, old, new, n, s, m :
        /\ m = line
        /\ x = Mark(tag, line, col) /\ old = store[r].cells /\ new = store'[r].cells
        /\ n = Len(old) /\ s = Sums(m)
  OBVIOUS
<1>2. x \in Cells /\ x.tag = tag /\ x.line = line /\ x.col = col
  BY <1>1, Shapes DEF Mark, Cells
<1>3. /\ old \in Seq(Cells) /\ n \in Nat /\ (old = <<>> <=> n = 0)
      /\ store[r].used \in Nat
  BY <1>1, CellShapes DEF Contents
<1>4. /\ Len(new) = n + 1 /\ new[n + 1] = x /\ \A i \in 1 .. n : new[i] = old[i]
      /\ new[n + 1 - 1 + 1] = x
  BY <1>1, <1>2, <1>3
<1>5. Sums(m)' = s /\ m = line
  BY <1>1 DEF Sums
<1>6. /\ s[0] = 0
      /\ \A c \in 1 .. Len(file[line]) : s[c] = s[c - 1] + 1 + file[line][c]
      /\ \A c \in 0 .. Len(file[line]) : s[c] \in Nat
      /\ \A c \in 1 .. Len(file[line]) : file[line][c] \in Nat
      /\ Len(file[line]) \in Nat /\ Capacity \in Nat
  BY <1>1, LineSums, FileShapes, Shapes
<1>7. /\ n > 0 /\ (\A i \in 1 .. n : old[i].tag = "AA") =>
           /\ old[n].line = old[1].line /\ old[n].tag = "AA"
           /\ store[r].used = Sums(old[1].line)[old[n].col] - Sums(old[1].line)[old[1].col - 1]
      /\ n = 0 => store[r].used = 0
  BY <1>1, <1>3 DEF Weighed, ValuesTo
<1>8. ASSUME tag \in {"AA", "CC"}, \A i \in 1 .. n : old[i].tag = "AA"
      PROVE  /\ new[1].line = m /\ s[new[1].col - 1] \in Nat
             /\ store[r].used = s[col - 1] - s[new[1].col - 1]
             /\ s[col] = s[col - 1] + 1 + file[line][col]
             /\ s[col] \in Nat /\ s[col - 1] \in Nat /\ file[line][col] \in Nat
  <2>1. /\ s[col] = s[col - 1] + 1 + file[line][col] /\ s[col] \in Nat
        /\ s[col - 1] \in Nat /\ file[line][col] \in Nat
    BY <1>6, <1>8
  <2>2. CASE n = 0
    BY <1>2, <1>4, <1>5, <1>7, <2>1, <2>2
  <2>3. CASE n # 0
    <3>1. n > 0 /\ n \in 1 .. n /\ 1 \in 1 .. n
      BY <1>3, <2>3
    <3>2. new[1] = old[1] /\ old[n] = LastCell(r) /\ old[1].tag = "AA"
      BY <1>1, <1>4, <1>8, <3>1 DEF LastCell
    <3>3. old[1].line = line /\ old[n].col = col - 1
      <4>1. old[n].line = line /\ old[n].col + 1 = col /\ old[n] \in Cells
        BY <1>1, <1>3, <1>7, <1>8, <3>1, <3>2
      <4> QED
        BY <1>7, <1>8, <3>1, <4>1 DEF Cells
    <3>4. old[1].col \in 1 .. Len(file[line])
      <4>1. CellOK(old[1])
        BY <1>1, <1>3, <3>1 DEF BlockOK
      <4> QED
        BY <3>2, <3>3, <4>1, FileShapes DEF CellOK
    <3>5. s[old[1].col - 1] \in Nat
      BY <1>6, <3>4
    <3> QED
      BY <1>1, <1>5, <1>7, <1>8, <2>1, <3>1, <3>2, <3>3, <3>5
  <2> QED
    BY <2>2, <2>3
<1>9. ASSUME tag = "AA", \A i \in 1 .. n + 1 : new[i].tag = "AA"
      PROVE  new[n + 1].line = new[1].line
             /\ store'[r].used = s[new[n + 1].col] - s[new[1].col - 1]
             /\ new[1].line = m
  <2>1. ASSUME NEW i \in 1 .. n PROVE old[i].tag = "AA"
    <3>1. i \in 1 .. n + 1 /\ new[i] = old[i]
      BY <1>3, <1>4
    <3> QED
      BY <1>9, <3>1
  <2>2. /\ new[1].line = m /\ s[new[1].col - 1] \in Nat
        /\ store[r].used = s[col - 1] - s[new[1].col - 1]
        /\ s[col] = s[col - 1] + 1 + file[line][col]
        /\ s[col] \in Nat /\ s[col - 1] \in Nat /\ file[line][col] \in Nat
    BY <1>8, <1>9, <2>1
  <2>3. new[n + 1].line = m /\ new[n + 1].col = col
    BY <1>2, <1>4, <1>5
  <2>4. store'[r].used = store[r].used + 1 + file[line][col]
    BY <1>9
  <2>5. PICK p, q, z :
          p = s[col - 1] /\ q = s[new[1].col - 1] /\ z = file[line][col]
    OBVIOUS
  <2>6. p \in Nat /\ q \in Nat /\ z \in Nat /\ s[col] = p + 1 + z
        /\ store'[r].used = (p - q) + 1 + z
    BY <2>2, <2>4, <2>5
  <2>7. store'[r].used = s[col] - q
    BY <2>6
  <2> QED
    BY <2>2, <2>3, <2>5, <2>7
<1>10. ASSUME tag = "CC", \A i \in 1 .. n : new[i].tag = "AA"
       PROVE  new[n + 1].line = new[1].line
              /\ s[new[n + 1].col] - s[new[1].col - 1] + 1 >= Capacity
              /\ new[1].line = m
  <2>1. \A i \in 1 .. n : old[i].tag = "AA"
    BY <1>4, <1>10
  <2>2. store[r].used + file[line][col] + 2 >= Capacity
    BY <1>10
  <2>3. /\ new[1].line = m /\ s[new[1].col - 1] \in Nat
        /\ store[r].used = s[col - 1] - s[new[1].col - 1]
        /\ s[col] = s[col - 1] + 1 + file[line][col]
        /\ s[col] \in Nat /\ s[col - 1] \in Nat /\ file[line][col] \in Nat
    BY <1>8, <1>10, <2>1
  <2>4. new[n + 1].line = m /\ new[n + 1].col = col
    BY <1>2, <1>4, <1>5
  <2>5. PICK p, q, z :
          p = s[col - 1] /\ q = s[new[1].col - 1] /\ z = file[line][col]
    OBVIOUS
  <2>6. p \in Nat /\ q \in Nat /\ z \in Nat /\ s[col] = p + 1 + z
        /\ (p - q) + z + 2 >= Capacity
    BY <2>2, <2>3, <2>5
  <2>7. s[col] - q + 1 >= Capacity
    BY <1>6, <2>6
  <2> QED
    BY <2>3, <2>4, <2>5, <2>7
<1>11. tag # "AA" => ~ \A i \in 1 .. n + 1 : new[i].tag = "AA"
  BY <1>2, <1>3, <1>4
<1>12. PICK u : u = store'[r].used
  OBVIOUS
<1>13. /\ n + 1 - 1 = n /\ n + 1 > 0 /\ n + 1 # 0
  BY <1>3
<1>14. tag # "CC" => new[n + 1].tag # "CC"
  BY <1>2, <1>4
<1>15. /\ n + 1 > 0 /\ (\A i \in 1 .. n + 1 : new[i].tag = "AA") =>
            /\ new[n + 1].line = new[1].line
            /\ store'[r].used = Sums(new[1].line)'[new[n + 1].col] - Sums(new[1].line)'[new[1].col - 1]
  BY <1>5, <1>9, <1>11
<1>16. /\ n + 1 > 0 /\ (\A i \in 1 .. n : new[i].tag = "AA") /\ new[n + 1].tag = "CC" =>
            /\ new[n + 1].line = new[1].line
            /\ Sums(new[1].line)'[new[n + 1].col] - Sums(new[1].line)'[new[1].col - 1] + 1 >= Capacity
  BY <1>5, <1>10, <1>14
<1> HIDE DEF Sums
<1> QED
  BY <1>1, <1>4, <1>13, <1>15, <1>16 DEF Weighed, ValuesTo

LEMMA WeighedUntouched ==
  ASSUME AllWeighed, UNCHANGED <<store, file>>, Chain' \subseteq Chain
  PROVE  AllWeighed'
<1>1. ASSUME NEW b \in Chain' PROVE Weighed(b)'
  <2>1. Weighed(b) /\ store'[b] = store[b]
    BY DEF AllWeighed
  <2> QED
    BY <2>1, WeighedKept
<1> QED
  BY <1>1 DEF AllWeighed

LEMMA WeighedReader ==
  ASSUME TypeIInv, Numbering, ChainOK, ReaderAt, AllWeighed, file # <<>>, Reader,
         ~ AddToNextBlockThrows
  PROVE  AllWeighed'
<1>1. /\ UNCHANGED <<file, cblock>> /\ NoBlock = 0 /\ NoBlock' = 0
      /\ NextTaken' = NextTaken
  <2>1. UNCHANGED <<file, cblock>>
    BY DEF Reader, AddValue, AddToNextBlock, AddToNextBlockThrows, HandOver,
           EndLine, NextLine, LeaveLoop, Finish, NotifyEnd, ReadClosedStream,
           WriteReleasedBlock, WriteBeyondBlock, Crash, querySide,
           iteratorVars, scanVars
  <2> QED
    BY <2>1, NumberingReader, Shapes DEF NoBlock, BM!NoBlock
<1>2. line \in 1 .. Len(file) /\ sBlockNumber \in Nat /\ Capacity \in Nat
  BY FileShapes, Shapes DEF ReaderAt
<1>3. CASE ~ (AddValue \/ EndLine \/ Finish \/ AddToNextBlock)
  <2>1. UNCHANGED <<store, sBlockNumber>>
    BY <1>3
    DEF Reader, NextLine, LeaveLoop, NotifyEnd, ReadClosedStream,
        WriteReleasedBlock, WriteBeyondBlock, Crash, managerVars
  <2> QED
    BY <1>1, <2>1, WeighedUntouched DEF Chain
<1>4. ASSUME rblock \in blocks
      PROVE  rblock \in 1 .. sBlockNumber /\ rblock = sBlockNumber /\ rblock \in Chain
  <2>1. rblock \in 1 .. sBlockNumber /\ rblock = sBlockNumber
    BY <1>1, <1>4, Numbers DEF Numbering
  <2>2. NextTaken <= sBlockNumber
    BY <1>1, <2>1, Shapes DEF NextTaken, LastFull
  <2> QED
    BY <2>1, <2>2 DEF Chain
<1>5. ASSUME rpc = "line", rblock # NoBlock, store[rblock].cells # <<>>,
             LastCell(rblock).tag = "AA", rblock \in 1 .. sBlockNumber
      PROVE  LastCell(rblock).line = line /\ LastCell(rblock).col + 1 = col
  BY <1>5 DEF ReaderAt, After
<1>6. ASSUME rpc = "line", ~ LineDone
      PROVE  col \in 1 .. Len(file[line]) /\ file[line][col] \in Nat
  BY <1>2, <1>6, FileShapes, Shapes DEF LineDone, ReaderAt
<1>7. ASSUME NEW r, r = rblock, rblock \in blocks,
             AddValue \/ EndLine \/ Finish \/ AddToNextBlock
      PROVE  Weighed(r)'
  <2>1. r \in 1 .. sBlockNumber /\ r \in Chain /\ r # NoBlock
    BY <1>1, <1>4, <1>7
  <2>2. BlockOK(r) /\ Weighed(r)
    BY <2>1 DEF ChainOK, AllWeighed
  <2>3. CASE AddValue
    <3>1. rpc = "line" /\ ~ LineDone /\ store'[r] = Added(store[r], line, col, file[line][col])
      BY <1>7, <2>1, <2>3, CellShapes DEF AddValue, TypeIInv, TypeOK, StoreTypeOK
    <3>2. /\ store'[r].cells = Append(store[r].cells, Mark("AA", line, col))
          /\ store'[r].used = store[r].used + 1 + file[line][col]
      BY <3>1 DEF Added, Mark, Value
    <3> QED
      BY <1>1, <1>2, <1>5, <1>6, <1>7, <2>1, <2>2, <3>1, <3>2, WeighedWrote
  <2>4. CASE EndLine
    <3>1. rpc = "line" /\ store'[r] = MarkedAt(store[r], "BB", line, col)
      BY <1>7, <2>1, <2>4, CellShapes DEF EndLine, TypeIInv, TypeOK, StoreTypeOK
    <3>2. store'[r].cells = Append(store[r].cells, Mark("BB", line, col))
      BY <3>1 DEF MarkedAt
    <3> QED
      BY <1>1, <1>2, <1>5, <1>7, <2>1, <2>2, <3>1, <3>2, WeighedWrote
  <2>5. CASE Finish
    <3>1. rpc = "finish" /\ store'[r] = MarkedAt(store[r], "DD", line, col)
      BY <1>7, <2>1, <2>5, CellShapes DEF Finish, TypeIInv, TypeOK, StoreTypeOK
    <3>2. store'[r].cells = Append(store[r].cells, Mark("DD", line, col))
      BY <3>1 DEF MarkedAt
    <3>3. LastCell(r).tag = "BB"
      BY <1>7, <3>1 DEF ReaderAt
    <3> QED
      BY <1>1, <1>2, <1>7, <2>1, <2>2, <3>2, <3>3, WeighedWrote
  <2>6. CASE AddToNextBlock
    <3>1. /\ rpc = "line" /\ ~ LineDone /\ store'[r] = MarkedAt(store[r], "CC", line, col)
          /\ ~ HasSizeFor(store[r], file[line][col])
      BY <1>2, <1>7, <2>1, <2>6 DEF AddToNextBlock, HandOver, BM!CreateBlock
    <3>2. store'[r].cells = Append(store[r].cells, Mark("CC", line, col))
      BY <3>1 DEF MarkedAt
    <3>3. store[r].used + file[line][col] + 2 >= Capacity
      <4>1. store[r].used \in Nat
        BY <2>1, CellShapes DEF Contents
      <4> QED
        BY <1>2, <1>6, <3>1, <4>1 DEF HasSizeFor
    <3> QED
      BY <1>1, <1>2, <1>5, <1>6, <1>7, <2>1, <2>2, <3>1, <3>2, <3>3, WeighedWrote
  <2> QED
    BY <1>7, <2>3, <2>4, <2>5, <2>6
<1>8. CASE AddValue \/ EndLine \/ Finish
  <2>1. rblock \in blocks
    BY <1>8 DEF AddValue, EndLine, Finish
  <2>2. PICK r : r = rblock
    OBVIOUS
  <2>3. Chain' = Chain
    BY <1>1, <1>8 DEF Chain, AddValue, EndLine, Finish, managerVars
  <2>4. ASSUME NEW b \in Chain, b # r PROVE Weighed(b)'
    <3>1. store'[b] = store[b]
      BY <1>8, <2>2, <2>4 DEF Chain, AddValue, EndLine, Finish, TypeIInv, TypeOK, StoreTypeOK
    <3> QED
      BY <1>1, <3>1, WeighedKept DEF AllWeighed
  <2> QED
    BY <1>7, <1>8, <2>1, <2>2, <2>3, <2>4 DEF AllWeighed
<1>9. CASE AddToNextBlock
  <2>1. rblock \in blocks /\ rpc = "line" /\ ~ LineDone
    BY <1>9 DEF AddToNextBlock, HandOver
  <2>2. PICK r, n : r = rblock /\ n = sBlockNumber + 1
    OBVIOUS
  <2>3. /\ sBlockNumber' = n /\ n \in 1 .. sBlockNumber' /\ n \in Nat
        /\ \A b \in 1 .. sBlockNumber : b \in 1 .. sBlockNumber' /\ b # sBlockNumber'
    BY <1>2, <1>9, <2>2 DEF AddToNextBlock, BM!CreateBlock
  <2>4. Chain' \subseteq Chain \cup {n}
    BY <1>1, <1>2, <2>2, <2>3 DEF Chain
  <2>5. ASSUME NEW b \in Chain, b # r PROVE Weighed(b)'
    <3>1. store'[b] = store[b]
      BY <1>9, <2>2, <2>3, <2>5 DEF Chain, AddToNextBlock
    <3> QED
      BY <1>1, <3>1, WeighedKept DEF AllWeighed
  <2>6. Weighed(n)'
    <3>1. store'[n] = Opened(line, col, file[line][col])
      BY <1>9, <2>3 DEF AddToNextBlock
    <3>2. PICK new, l, c, size : /\ new = store'[n] /\ l = line /\ c = col
                                 /\ size = file[line][col]
      OBVIOUS
    <3>3. l \in 1 .. Len(file) /\ c \in 1 .. Len(file[l]) /\ size \in Nat /\ l \in Nat /\ c \in Nat
      BY <1>2, <1>6, <2>1, <3>2, FileShapes
    <3>4. CASE new = Empty
      <4>1. new.used = 0 /\ Len(new.cells) = 0
        BY <3>4 DEF Empty
      <4> QED
        BY <3>2, <4>1 DEF Weighed
    <3>5. CASE new.cells = <<Mark("AA", l, c)>> /\ new.used = 1 + size
      <4>1. /\ Len(new.cells) = 1 /\ new.cells[1].tag = "AA"
            /\ new.cells[1].line = l /\ new.cells[1].col = c
        BY <3>5 DEF Mark
      <4>2. Sums(l)' = Sums(l)
        BY <1>1 DEF Sums
      <4>3. new.used = Sums(l)[c] - Sums(l)[c - 1]
        <5>1. /\ Sums(l)[c] = Sums(l)[c - 1] + 1 + file[l][c]
              /\ Sums(l)[c - 1] \in Nat /\ size = file[l][c]
          BY <3>2, <3>3, LineSums, FileShapes
        <5> QED
          BY <3>3, <3>5, <5>1
      <4> HIDE DEF Sums
      <4> QED
        BY <3>2, <4>1, <4>2, <4>3 DEF Weighed, ValuesTo
    <3> QED
      BY <1>2, <3>1, <3>2, <3>3, <3>4, <3>5, OpenedBlock
  <2> QED
    BY <1>7, <1>9, <2>1, <2>2, <2>4, <2>5, <2>6 DEF AllWeighed
<1> QED
  BY <1>3, <1>8, <1>9

-----------------------------------------------------------------------------
(* A row stays in the blocks that the iterator has, unless its line would  *)
(* fill a block.                                                           *)

SmallLines == \A l \in DOMAIN file : ~ (LineBytes(l) >= Capacity)

InRow == cpc \in {"value", "taken", "use"} \/ (Fetching /\ ret = "taken")

(* The row stands in the current and the previous block.  If it started in *)
(* the previous one, nothing but its values is in the current one.         *)
RowHeld ==
  InRow /\ SmallLines =>
    /\ cblock # NoBlock
    /\ \A i \in DOMAIN row :
         /\ row[i].block \in {cblock, previousBlock}
         /\ Fetching => row[i].block = cblock
         /\ row[i].block # cblock =>
              /\ ValuesTo(cblock, offset)
              /\ Origin(i).col < store[cblock].cells[1].col

(* The iterator does not find a next-block marker in the second block of a *)
(* row: the values up to it would fill that block.                         *)
LEMMA RowInOneBlock ==
  ASSUME TypeIInv, Numbering, ChainOK, BlockTaken, cblock # NoBlock, AllWeighed,
         RowHeld, SmallLines, cpc = "value", Here.tag = "CC"
  PROVE  \A i \in DOMAIN row : row[i].block = cblock
<1> SUFFICES ASSUME NEW i \in DOMAIN row, row[i].block # cblock PROVE FALSE
  OBVIOUS
<1>1. PICK cells, n, x, f, l, o :
        /\ cells = store[cblock].cells /\ n = Len(cells) /\ x = Here /\ f = cells[1]
        /\ l = x.line /\ o = Origin(i).col
  OBVIOUS
<1>2. /\ cblock \in 1 .. sBlockNumber /\ n \in Nat /\ offset + 1 = n /\ x = cells[n]
      /\ CellOK(x) /\ x.tag = "CC" /\ x \in Cells /\ cblock < sBlockNumber
  BY <1>1, HereFacts, CellShapes
<1>3. n > 0 /\ n - 1 = offset /\ cblock \in Chain /\ 1 \in 1 .. n
  BY <1>2, Shapes DEF Chain
<1>4. ValuesTo(cblock, offset) /\ o < f.col
  BY <1>1 DEF RowHeld, InRow
<1>5. /\ x.line = f.line
      /\ Sums(f.line)[x.col] - Sums(f.line)[f.col - 1] + 1 >= Capacity
  BY <1>1, <1>2, <1>3, <1>4 DEF AllWeighed, Weighed
<1>6. l \in 1 .. Len(file) /\ x.col \in 1 .. Len(file[l]) /\ f.line = l
  BY <1>1, <1>2, <1>5, FileShapes DEF CellOK
<1>7. o \in Nat /\ o >= 1
  <2>1. Origin(i).col \in RS!Stored(Done + 1) /\ Here.line = Done + 1
    BY <1>1, <1>2 DEF BlockTaken, RowSoFar
  <2> QED
    BY <1>1, <1>6, <2>1, FileShapes
<1>8. f.col \in 1 .. Len(file[l]) /\ f \in Cells
  <2>1. CellOK(f) /\ f \in Cells
    BY <1>1, <1>2, <1>3, CellShapes DEF ChainOK, BlockOK
  <2>2. f.tag \in {"AA", "CC"}
    <3>1. CASE n = 1
      BY <1>1, <1>2, <3>1
    <3>2. CASE n # 1
      <4>1. 1 \in 1 .. offset
        BY <1>2, <1>3, <3>2
      <4> QED
        BY <1>1, <1>4, <4>1 DEF ValuesTo
    <3> QED
      BY <3>1, <3>2
  <2> QED
    BY <1>6, <2>1, <2>2, FileShapes DEF CellOK
<1>9. PICK p, q, c, e : /\ p = Sums(l)[x.col] /\ q = Sums(l)[f.col - 1]
                        /\ c = f.col - 1 /\ e = LineBytes(l)
  OBVIOUS
<1>10. Len(file[l]) \in Nat /\ c \in 0 .. Len(file[l]) /\ c >= 1
  BY <1>4, <1>6, <1>7, <1>8, <1>9, FileShapes
<1>11. q >= 1 /\ q \in Nat /\ p \in Nat /\ p <= e /\ e \in Nat
  <2>1. q >= c /\ q \in Nat
    BY <1>6, <1>9, <1>10, LineSums
  <2>2. x.col \in 0 .. Len(file[l]) /\ Len(file[l]) \in 0 .. Len(file[l])
    BY <1>6, <1>10
  <2>3. p <= e /\ p \in Nat /\ e \in Nat
    BY <1>6, <1>9, <2>2, LineSums
  <2> QED
    BY <1>10, <2>1, <2>3
<1>12. p - q + 1 >= Capacity /\ Capacity \in Nat
  BY <1>5, <1>6, <1>9, Shapes
<1>13. e >= Capacity
  BY <1>11, <1>12
<1> QED
  BY <1>6, <1>9, <1>13, FileShapes DEF SmallLines

LEMMA RowHeldKept ==
  ASSUME TypeIInv, [Next]_vars, IteratorAt, RowHeld,
         UNCHANGED <<cblock, previousBlock, offset, row, file>>,
         InRow' => InRow, Fetching' => Fetching
  PROVE  RowHeld'
<1> SUFFICES ASSUME InRow', SmallLines' PROVE RowHeld'
  BY DEF RowHeld
<1>1. InRow /\ SmallLines /\ NoBlock' = NoBlock
  BY DEF SmallLines, LineBytes, NoBlock, BM!NoBlock
<1>2. cblock # NoBlock /\ cblock \in 1 .. sBlockNumber /\ BlockTaken
  BY <1>1, Shapes DEF RowHeld, IteratorAt
<1>3. \A i \in DOMAIN row : Origin(i)' = Origin(i)
  BY OldCells, RowShapes DEF Origin
<1>4. offset \in Nat /\ offset + 1 \in 1 .. Len(store[cblock].cells)
  BY <1>2, CellShapes, Shapes DEF BlockTaken
<1>5. store'[cblock].cells[1] = store[cblock].cells[1]
  BY <1>2, <1>4, OldCells, CellShapes
<1>6. ValuesTo(cblock, offset) => ValuesTo(cblock, offset)'
  <2>1. \A i \in 1 .. offset : store'[cblock].cells[i] = store[cblock].cells[i]
    BY <1>2, <1>4, OldCells, CellShapes
  <2> QED
    BY <2>1 DEF ValuesTo
<1> HIDE DEF Origin
<1> QED
  BY <1>1, <1>2, <1>3, <1>5, <1>6 DEF RowHeld

LEMMA RowHeldReads ==
  ASSUME TypeIInv, RowHeld, ReadValue
  PROVE  RowHeld'
<1>1. /\ cpc \in {"taken", "value"} /\ TagAt(offset) = "AA" /\ offset' = offset + 1
      /\ row' = Append(row, [block |-> cblock, index |-> offset + 1])
      /\ UNCHANGED <<store, cblock, previousBlock, file>>
      /\ cpc' \in {"use", "value"} /\ NoBlock' = NoBlock
  BY DEF ReadValue, readerSide, scanVars, NoBlock, BM!NoBlock
<1> SUFFICES ASSUME SmallLines' PROVE RowHeld'
  BY DEF RowHeld
<1>2. InRow /\ SmallLines /\ ~ Fetching' /\ ~ Fetching
  BY <1>1 DEF SmallLines, LineBytes, InRow, Fetching
<1>3. cblock # NoBlock
  BY <1>2 DEF RowHeld
<1>4. /\ row \in Seq([block : Nat, index : Nat])
      /\ [block |-> cblock, index |-> offset + 1] \in [block : Nat, index : Nat]
  BY Shapes DEF TypeIInv, TypeOK, IteratorTypeOK
<1>5. /\ DOMAIN row' = 1 .. Len(row) + 1 /\ \A i \in DOMAIN row : row'[i] = row[i]
      /\ row'[Len(row) + 1].block = cblock /\ DOMAIN row = 1 .. Len(row) /\ Len(row) \in Nat
  BY <1>1, <1>4
<1>6. ValuesTo(cblock, offset) => ValuesTo(cblock, offset)'
  <2>1. store[cblock].cells[offset + 1].tag = "AA"
    BY <1>1 DEF TagAt
  <2> QED
    BY <1>1, <2>1, Shapes DEF ValuesTo
<1>7. ASSUME NEW i \in DOMAIN row'
      PROVE  /\ row'[i].block \in {cblock, previousBlock}
             /\ row'[i].block # cblock =>
                  /\ ValuesTo(cblock, offset)'
                  /\ Origin(i)'.col < store[cblock].cells[1].col
  <2>1. CASE i \in DOMAIN row
    BY <1>1, <1>2, <1>5, <1>6, <2>1 DEF RowHeld, Origin
  <2>2. CASE i \notin DOMAIN row
    <3>1. i = Len(row) + 1
      BY <1>5, <2>2
    <3> QED
      BY <1>5, <3>1
  <2> QED
    BY <2>1, <2>2
<1> HIDE DEF Origin
<1> QED
  BY <1>1, <1>2, <1>3, <1>7 DEF RowHeld

LEMMA RowHeldTakes ==
  ASSUME TypeIInv, LetGo, RowHeld, IteratorAt', TakeBlock
  PROVE  RowHeld'
<1>1. /\ Fetching /\ offset' = 0 /\ cpc' = ret
      /\ UNCHANGED <<store, ret, row, previousBlock, file>>
      /\ NoBlock' = NoBlock /\ NoBlock = 0 /\ cblock' \in Nat \ {0}
  BY Shapes DEF TakeBlock, Fetching, readerSide, scanVars, NoBlock, BM!NoBlock
<1> SUFFICES ASSUME InRow', SmallLines' PROVE RowHeld'
  BY DEF RowHeld
<1>2. ret = "taken"
  BY <1>1 DEF InRow, Fetching, TypeIInv, TypeOK, IteratorTypeOK
<1>3. InRow /\ SmallLines /\ ~ Fetching'
  BY <1>1, <1>2 DEF SmallLines, LineBytes, InRow, Fetching
<1>4. cblock # NoBlock /\ previousBlock = cblock
  BY <1>1, <1>3 DEF RowHeld, LetGo
<1>5. BlockTaken'
  BY <1>1 DEF IteratorAt
<1>6. Here' = store'[cblock'].cells[1]
  BY <1>1 DEF Here
<1>7. \A i \in DOMAIN row : Origin(i)'.col < Here'.col
  BY <1>1, <1>2, <1>5 DEF BlockTaken, RowSoFar
<1>8. ValuesTo(cblock, offset)'
  BY <1>1 DEF ValuesTo
<1>9. \A i \in DOMAIN row : row[i].block = cblock
  BY <1>1, <1>3 DEF RowHeld
<1> HIDE DEF Origin, Here
<1> QED
  BY <1>1, <1>3, <1>4, <1>6, <1>7, <1>8, <1>9 DEF RowHeld

StandingIInv == Reading /\ file # <<>> => AllWeighed /\ RowHeld

LEMMA RowHeldQuery ==
  ASSUME TypeIInv, Reading, Reading', Numbering, ChainOK, IteratorAt, IteratorAt',
         Phase, LetGo, AllWeighed, RowHeld, file # <<>>, Query, [Next]_vars
  PROVE  RowHeld'
<1>1. ~ (DropStream \/ DropPrevious \/ DropCurrent \/ StopReader \/ JoinReader)
  BY DEF Phase, Reading, DropStream, DropPrevious, DropCurrent, StopReader, JoinReader
<1>2. ~ (OpenThrows \/ NextRowThrows \/ RowThrows \/ EndOfRows)
  BY DEF Reading, OpenThrows, NextRowThrows, RowThrows, EndOfRows, Throws
<1>3. CASE TakeBlock
  BY <1>3, RowHeldTakes
<1>4. CASE ReadValue
  BY <1>4, RowHeldReads
<1>5. CASE Open \/ UseRow
  BY <1>5 DEF Open, UseRow, RowHeld, InRow, Fetching
<1>6. CASE NextRow
  <2>1. cblock = NoBlock => ret = "marker"
    BY <1>6 DEF IteratorAt, NoneTaken
  <2>2. cpc' = "marker" \/ (cpc' = "block" /\ cblock = NoBlock /\ ret' = ret)
    BY <1>6 DEF NextRow, GoOn
  <2> QED
    BY <2>1, <2>2 DEF RowHeld, InRow, Fetching
<1>7. CASE BeginRow
  <2>1. /\ row' = <<>> /\ UNCHANGED <<cblock, file>> /\ cpc \in {"begin", "marker"}
        /\ NoBlock' = NoBlock
    BY <1>7 DEF BeginRow, scanVars, NoBlock, BM!NoBlock
  <2> QED
    BY <2>1 DEF RowHeld, TypeIInv, HasBlock
<1>8. CASE SwitchBlock
  <2>1. /\ cpc \in {"marker", "value"} /\ TagAt(offset) = "CC" /\ cpc' = "block"
        /\ ret' = IF cpc = "marker" THEN "begin" ELSE "taken"
        /\ UNCHANGED <<cblock, row, file>> /\ NoBlock' = NoBlock
    BY <1>8 DEF SwitchBlock, AtSwitch, scanVars, NoBlock, BM!NoBlock
  <2>2. CASE cpc = "marker"
    BY <2>1, <2>2 DEF RowHeld, InRow
  <2>3. CASE cpc = "value" /\ SmallLines
    <3>1. cblock # NoBlock /\ BlockTaken
      BY <2>3 DEF TypeIInv, HasBlock, IteratorAt
    <3>2. Here.tag = "CC"
      BY <2>1, <3>1, HereFacts
    <3>3. \A i \in DOMAIN row : row[i].block = cblock
      BY <2>3, <3>1, <3>2, RowInOneBlock
    <3> QED
      BY <2>1, <3>1, <3>3 DEF RowHeld
  <2>4. CASE ~ SmallLines
    BY <2>1, <2>4 DEF RowHeld, SmallLines, LineBytes
  <2> QED
    BY <2>1, <2>2, <2>3, <2>4
<1>9. CASE WaitForBlock \/ UseReleasedRow \/ TakeNull \/ TakeReleasedBlock \/ ReleaseTwice
  <2>1. /\ UNCHANGED <<cblock, previousBlock, offset, row, ret, file>>
        /\ cpc' = cpc \/ (Fetching /\ Fetching')
    BY <1>9
    DEF WaitForBlock, GoOn, UseReleasedRow, TakeNull, TakeReleasedBlock,
        ReleaseTwice, Crash, iteratorVars, scanVars, Fetching
  <2>2. (InRow' => InRow) /\ (Fetching' => Fetching)
    BY <2>1 DEF InRow, Fetching
  <2> QED
    BY <2>1, <2>2, RowHeldKept
<1> QED
  BY <1>1, <1>2, <1>3, <1>4, <1>5, <1>6, <1>7, <1>8, <1>9 DEF Query

LEMMA WeighedQuery ==
  ASSUME TypeIInv, Reading, Reading', Numbering, ChainOK, ReaderAt, Phase,
         AllWeighed, Query
  PROVE  AllWeighed'
<1>1. ~ (DropStream \/ DropPrevious \/ DropCurrent \/ StopReader \/ JoinReader)
  BY DEF Phase, Reading, DropStream, DropPrevious, DropCurrent, StopReader, JoinReader
<1>2. CASE TakeBlock
  <2>1. UNCHANGED <<store, file, sBlockNumber>> /\ NoBlock' = NoBlock
    BY <1>2 DEF TakeBlock, managerVars, readerSide, scanVars, NoBlock, BM!NoBlock
  <2>2. PICK n : n = NextTaken
    OBVIOUS
  <2>3. n \in Nat /\ NextTaken' = n + 1 /\ cblock' = n /\ sBlockNumber \in Nat
    BY <1>2, <2>2, IteratorNumbering, Shapes
  <2>4. Chain' \subseteq Chain
    BY <2>1, <2>2, <2>3 DEF Chain
  <2> QED
    BY <2>1, <2>4, WeighedUntouched
<1>3. CASE ~ TakeBlock
  <2>1. UNCHANGED <<store, sBlockNumber, queue, rblock, cblock, file>>
    BY <1>1, <1>3, QuerySame
  <2>2. Chain' = Chain
    BY <2>1 DEF Chain, NextTaken, LastFull, NoBlock, BM!NoBlock
  <2> QED
    BY <2>1, <2>2, WeighedUntouched
<1> QED
  BY <1>2, <1>3

LEMMA StandingStep ==
  ASSUME TypeIInv, TypeIInv', ScanIInv, ScanIInv', LetGo, StandingIInv, [Next]_vars
  PROVE  StandingIInv'
<1> SUFFICES ASSUME Reading', file' # <<>> PROVE AllWeighed' /\ RowHeld'
  BY DEF StandingIInv
<1>1. CASE UNCHANGED vars
  <2>1. UNCHANGED <<sBlockNumber, store, rblock, queue, cpc, ret, cblock,
                    previousBlock, offset, row, file, outcome, limitHit>>
    BY <1>1 DEF vars, managerVars, readerVars, iteratorVars, scanVars
  <2>2. Reading /\ file # <<>>
    BY <2>1 DEF Reading
  <2>3. Chain' = Chain /\ (InRow' => InRow) /\ (Fetching' => Fetching)
    BY <2>1 DEF Chain, NextTaken, LastFull, NoBlock, BM!NoBlock, InRow, Fetching
  <2>4. IteratorAt /\ AllWeighed /\ RowHeld
    BY <2>2 DEF ScanIInv, StandingIInv
  <2> QED
    BY <2>1, <2>3, <2>4, WeighedUntouched, RowHeldKept
<1>2. CASE NewScan
  <2>1. PICK n : n = sBlockNumber + 1
    OBVIOUS
  <2>2. /\ sBlockNumber' = n /\ rblock' = n /\ n \in Nat \ {0} /\ queue' = <<>>
        /\ cblock' = 0 /\ cpc' = "idle" /\ store'[n] = Empty /\ NoBlock' = 0
    BY <1>2, <2>1, Shapes DEF NewScan, BM!CreateBlock, NoBlock, BM!NoBlock
  <2>3. Chain' = {n}
    BY <2>2 DEF Chain, LastFull, NextTaken
  <2>4. Weighed(n)'
    <3>1. store'[n].used = 0 /\ Len(store'[n].cells) = 0
      BY <2>2 DEF Empty
    <3> QED
      BY <3>1 DEF Weighed
  <2>5. \A b \in Chain' : b = n
    BY <2>3
  <2>6. ~ InRow'
    BY <2>2 DEF InRow, Fetching
  <2> QED
    BY <2>4, <2>5, <2>6 DEF AllWeighed, RowHeld
<1>3. CASE ~ UNCHANGED vars /\ ~ NewScan
  <2>1. Reading /\ file' = file /\ (Reader \/ Query \/ SpuriousWakeup)
    BY <1>3, StillReading
  <2>2. /\ Numbering /\ ChainOK /\ ReaderAt /\ IteratorAt /\ Phase /\ IteratorAt'
        /\ AllWeighed /\ RowHeld /\ file # <<>>
    BY <2>1 DEF ScanIInv, StandingIInv
  <2>3. CASE Reader
    <3>1. AllWeighed'
      <4>1. ~ AddToNextBlockThrows
        BY DEF Reading, AddToNextBlockThrows
      <4> QED
        BY <2>2, <2>3, <4>1, WeighedReader
    <3>2. UNCHANGED iteratorVars
      BY <2>3
      DEF Reader, AddValue, AddToNextBlock, AddToNextBlockThrows, HandOver,
          EndLine, NextLine, LeaveLoop, Finish, NotifyEnd, ReadClosedStream,
          WriteReleasedBlock, WriteBeyondBlock, Crash, querySide
    <3>3. cpc' = cpc \/ (Fetching /\ Fetching')
      BY <2>3
      DEF Reader, AddValue, AddToNextBlock, AddToNextBlockThrows, HandOver,
          EndLine, NextLine, LeaveLoop, Finish, NotifyEnd, ReadClosedStream,
          WriteReleasedBlock, WriteBeyondBlock, Crash, Notified, Fetching
    <3>4. (InRow' => InRow) /\ (Fetching' => Fetching)
      BY <3>2, <3>3 DEF InRow, Fetching, iteratorVars
    <3>5. RowHeld'
      BY <2>1, <2>2, <3>2, <3>4, RowHeldKept DEF iteratorVars
    <3> QED
      BY <3>1, <3>5
  <2>4. CASE Query
    BY <2>1, <2>2, <2>4, RowHeldQuery, WeighedQuery
  <2>5. CASE SpuriousWakeup
    <3>1. /\ UNCHANGED <<sBlockNumber, store, rblock, queue, ret, cblock,
                         previousBlock, offset, row, file>>
          /\ Fetching /\ Fetching'
      BY <2>5 DEF SpuriousWakeup, GoOn, managerVars, readerSide, scanVars, Fetching
    <3>2. Chain' = Chain /\ (InRow' => InRow)
      BY <3>1 DEF Chain, NextTaken, LastFull, NoBlock, BM!NoBlock, InRow, Fetching
    <3> QED
      BY <2>2, <3>1, <3>2, WeighedUntouched, RowHeldKept
  <2> QED
    BY <2>1, <2>3, <2>4, <2>5
<1> QED
  BY <1>1, <1>2, <1>3

-----------------------------------------------------------------------------
(* The other undefined behaviour.                                          *)

(* In a file without malformed lines every marker finds room.              *)
AllWellFormed == file # <<>> /\ \A l \in DOMAIN file : RS!WellFormed(l)

RoomLeft ==
  AllWellFormed /\ ~ limitHit /\ rblock # NoBlock =>
    LET used == store[rblock].used IN
    /\ rpc = "unstarted" => used = 0 /\ col = 1
    /\ rpc = "line" => used <= IF col = 1 THEN Capacity - 1 ELSE Capacity - 2
    /\ rpc \in {"loop", "finish"} => used <= Capacity - 1

(* The reader is done with the stream when the end has been read.          *)
StreamInUse ==
  /\ outcome = "open" => streamOpen
  /\ outcome \in {"none", "new"} => rpc = "unstarted"
  /\ outcome = "eof" /\ ~ limitHit => rpc \in {"notify", "done"}

LEMMA RoomLeftReader ==
  ASSUME TypeIInv, RoomLeft, AllWellFormed, ~ limitHit', rblock # NoBlock,
         rblock' # NoBlock', Reader
  PROVE  RoomLeft'
<1>1. /\ Capacity \in Nat /\ NumColumns \in Nat \ {0} /\ Len(file) \in Nat
      /\ sBlockNumber \in Nat /\ col \in Nat \ {0} /\ rblock \in 1 .. sBlockNumber
      /\ 1 \in 1 .. Len(file) /\ (rpc = "line" => line \in 1 .. Len(file))
  BY Shapes, FileShapes DEF TypeIInv, LineExists, AllWellFormed
<1>2. ASSUME NEW l \in 1 .. Len(file)
      PROVE  /\ Len(file[l]) = NumColumns /\ Len(file[l]) \in Nat
             /\ \A c \in 1 .. Len(file[l]) :
                  file[l][c] \in Nat /\ file[l][c] <= Capacity - 3
  BY <1>1, FileShapes DEF AllWellFormed, RS!WellFormed, RS!Stored
<1>3. Capacity >= 3 /\ (rpc = "line" /\ LineDone => col # 1)
  <2>1. 1 \in 1 .. Len(file[1])
    BY <1>1, <1>2
  <2>2. file[1][1] \in Nat /\ file[1][1] <= Capacity - 3
    BY <1>1, <1>2, <2>1
  <2> QED
    BY <1>1, <1>2, <2>2 DEF LineDone, AllWellFormed
<1>4. store[rblock].used \in Nat /\ store \in [1 .. sBlockNumber -> Contents]
  BY <1>1, CellShapes DEF Contents, TypeIInv, TypeOK, StoreTypeOK
<1>5. ~ limitHit
  BY DEF Reader, AddValue, AddToNextBlock, AddToNextBlockThrows, HandOver,
         EndLine, NextLine, LeaveLoop, Finish, NotifyEnd, ReadClosedStream,
         WriteReleasedBlock, WriteBeyondBlock, Crash, querySide
<1>6. PICK u, z, r : u = store[rblock].used /\ z = file[line][col] /\ r = rblock
  OBVIOUS
<1>7. /\ rpc = "line" => u <= IF col = 1 THEN Capacity - 1 ELSE Capacity - 2
      /\ rpc \in {"loop", "finish"} => u <= Capacity - 1
      /\ u \in Nat
  BY <1>4, <1>5, <1>6 DEF RoomLeft
<1>8. rpc = "line" /\ ~ LineDone => z \in Nat /\ z <= Capacity - 3
  BY <1>1, <1>2, <1>6 DEF LineDone
<1>9. CASE AddValue
  <2>1. /\ rpc' = "line" /\ col' = col + 1 /\ rblock' = r /\ z \in Nat
        /\ store'[r].used = u + 1 + z /\ u + z + 2 < Capacity
    BY <1>1, <1>4, <1>6, <1>8, <1>9 DEF AddValue, Added, HasSizeFor
  <2>2. store'[r].used <= Capacity - 2 /\ col' # 1
    BY <1>1, <1>7, <2>1
  <2> QED
    BY <2>1, <2>2 DEF RoomLeft
<1>10. CASE AddToNextBlock
  <2>1. /\ rpc' = "line" /\ col' = col + 1 /\ z \in Nat /\ z <= Capacity - 3
        /\ rblock' = sBlockNumber' /\ sBlockNumber' = sBlockNumber + 1
        /\ store'[sBlockNumber'] = Opened(line, col, z)
    BY <1>1, <1>6, <1>8, <1>10 DEF AddToNextBlock, HandOver, BM!CreateBlock
  <2>2. HasSizeFor(Empty, z)
    BY <1>1, <2>1 DEF HasSizeFor, Empty
  <2>3. store'[sBlockNumber'].used = 0 + 1 + z
    BY <2>1, <2>2 DEF Opened, Added, Empty
  <2>4. store'[sBlockNumber'].used <= Capacity - 2 /\ col' # 1
    BY <1>1, <2>1, <2>3
  <2> QED
    BY <2>1, <2>4 DEF RoomLeft
<1>11. CASE EndLine
  <2>1. rpc' = "loop" /\ rblock' = r /\ store'[r].used = u + 1 /\ u <= Capacity - 2
    BY <1>1, <1>3, <1>4, <1>6, <1>7, <1>11 DEF EndLine, MarkedAt
  <2>2. store'[r].used <= Capacity - 1
    BY <1>1, <1>7, <2>1
  <2> QED
    BY <2>1, <2>2 DEF RoomLeft
<1>12. CASE NextLine \/ LeaveLoop
  <2>1. /\ rblock' = r /\ store' = store /\ u <= Capacity - 1
        /\ (rpc' = "line" /\ col' = 1) \/ rpc' = "finish"
    BY <1>6, <1>7, <1>12 DEF NextLine, LeaveLoop
  <2> QED
    BY <1>6, <2>1 DEF RoomLeft
<1>13. CASE Finish
  BY <1>13 DEF Finish, NoBlock, BM!NoBlock
<1>14. CASE NotifyEnd
  BY <1>14 DEF NotifyEnd, RoomLeft
<1>15. CASE AddToNextBlockThrows
  BY <1>15 DEF AddToNextBlockThrows
<1>16. CASE ReadClosedStream \/ WriteReleasedBlock \/ WriteBeyondBlock
  <2>1. UNCHANGED <<rpc, rblock, col, store>>
    BY <1>16
    DEF ReadClosedStream, WriteReleasedBlock, WriteBeyondBlock, Crash, readerVars
  <2>2. rpc # "unstarted"
    BY <1>16 DEF ReadClosedStream, WriteReleasedBlock, WriteBeyondBlock
  <2> QED
    BY <1>6, <1>7, <2>1, <2>2 DEF RoomLeft
<1> QED
  BY <1>9, <1>10, <1>11, <1>12, <1>13, <1>14, <1>15, <1>16 DEF Reader

LEMMA RoomLeftStep ==
  ASSUME TypeIInv, RoomLeft, [Next]_vars
  PROVE  RoomLeft'
<1>1. NoBlock' = NoBlock /\ NoBlock = 0
  BY DEF NoBlock, BM!NoBlock
<1> SUFFICES ASSUME AllWellFormed', ~ limitHit', rblock' # NoBlock' PROVE RoomLeft'
  BY DEF RoomLeft
<1>2. ~ limitHit
  BY LimitStays
<1>3. CASE NewScan
  <2>1. /\ rpc' = "unstarted" /\ col' = 1 /\ rblock' = sBlockNumber'
        /\ store'[sBlockNumber'] = Empty
    BY <1>3, Shapes DEF NewScan, BM!CreateBlock
  <2> QED
    BY <2>1 DEF RoomLeft, Empty
<1>4. CASE UNCHANGED <<rpc, rblock, col, store, file, limitHit>>
  BY <1>1, <1>4 DEF RoomLeft, AllWellFormed, RS!WellFormed, RS!Stored
<1>5. CASE Reader
  <2>1. file' = file
    BY <1>5
    DEF Reader, AddValue, AddToNextBlock, AddToNextBlockThrows, HandOver,
        EndLine, NextLine, LeaveLoop, Finish, NotifyEnd, ReadClosedStream,
        WriteReleasedBlock, WriteBeyondBlock, Crash, querySide, scanVars
  <2>2. AllWellFormed
    BY <2>1 DEF AllWellFormed, RS!WellFormed, RS!Stored
  <2>3. rblock # NoBlock
    BY <1>1, <1>5, Numbers
    DEF Reader, AddValue, AddToNextBlock, AddToNextBlockThrows, HandOver,
        EndLine, NextLine, LeaveLoop, Finish, NotifyEnd, ReadClosedStream,
        WriteReleasedBlock, WriteBeyondBlock, Crash, readerVars
  <2> QED
    BY <1>5, <2>2, <2>3, RoomLeftReader
<1>6. CASE Open
  <2>1. /\ rpc = "unstarted" /\ rpc' = "line" /\ UNCHANGED <<rblock, col, store, file>>
    BY <1>6 DEF Open, readerSide, TypeIInv, NotStarted
  <2>2. AllWellFormed
    BY <2>1 DEF AllWellFormed, RS!WellFormed, RS!Stored
  <2>3. store[rblock].used = 0 /\ col = 1
    BY <1>1, <1>2, <2>1, <2>2 DEF RoomLeft
  <2>4. Capacity >= 3 /\ Capacity \in Nat
    <3>1. 1 \in 1 .. Len(file) /\ NumColumns \in Nat \ {0} /\ Capacity \in Nat
      BY <2>2, FileShapes, Shapes DEF AllWellFormed
    <3>2. 1 \in 1 .. Len(file[1]) /\ file[1][1] \in Nat /\ file[1][1] <= Capacity - 3
      <4>1. Len(file[1]) = NumColumns /\ RS!Stored(1) = DOMAIN file[1]
        BY <2>2, <3>1, FileShapes DEF AllWellFormed, RS!WellFormed
      <4>2. 1 \in DOMAIN file[1] /\ 1 \in 1 .. Len(file[1])
        BY <3>1, <4>1, FileShapes
      <4> QED
        BY <3>1, <4>1, <4>2, FileShapes DEF RS!Stored
    <3> QED
      BY <3>1, <3>2
  <2> QED
    BY <2>1, <2>3, <2>4 DEF RoomLeft
<1>7. CASE JoinReader
  BY <1>1, <1>7 DEF JoinReader
<1>8. CASE ~ (NewScan \/ Reader \/ Open \/ JoinReader)
  <2>1. UNCHANGED <<rpc, rblock, col, store, file, limitHit>>
    BY <1>8
    DEF Next, Stopped, Environment, NewScanThrows, Abandon, SpuriousWakeup, GoOn,
        vars, readerVars, scanVars, readerSide, Query, OpenThrows, Throws, NextRow,
        NextRowThrows, EndOfRows, SwitchBlock, BeginRow, ReadValue, RowThrows,
        UseRow, UseReleasedRow, TakeBlock, WaitForBlock, TakeNull,
        TakeReleasedBlock, DropStream, DropPrevious, DropCurrent, ReleaseTwice,
        StopReader, Crash
  <2> QED
    BY <1>4, <2>1
<1> QED
  BY <1>3, <1>5, <1>6, <1>7, <1>8

LEMMA StreamInUseStep ==
  ASSUME TypeIInv, ScanIInv, StreamInUse, [Next]_vars
  PROVE  StreamInUse'
<1>1. CASE UNCHANGED <<outcome, streamOpen, rpc, limitHit>>
  BY <1>1 DEF StreamInUse
<1>2. CASE Reader
  <2>1. /\ UNCHANGED <<outcome, streamOpen>> /\ (limitHit => limitHit')
        /\ rpc # "unstarted" \/ rpc' = rpc
        /\ rpc' = rpc \/ (rpc = "notify" /\ rpc' = "done") \/ rpc \notin {"notify", "done"}
    BY <1>2
    DEF Reader, AddValue, AddToNextBlock, AddToNextBlockThrows, HandOver,
        EndLine, NextLine, LeaveLoop, Finish, NotifyEnd, ReadClosedStream,
        WriteReleasedBlock, WriteBeyondBlock, Crash, querySide, scanVars, readerVars
  <2> QED
    BY <2>1 DEF StreamInUse
<1>3. CASE NewScan
  BY <1>3 DEF NewScan, StreamInUse
<1>4. CASE Open
  BY <1>4 DEF Open, StreamInUse
<1>5. CASE OpenThrows \/ NextRowThrows \/ RowThrows
  BY <1>5 DEF OpenThrows, NextRowThrows, RowThrows, Throws, StreamInUse
<1>6. CASE Abandon
  BY <1>6 DEF Abandon, StreamInUse
<1>7. CASE EndOfRows
  <2>1. outcome' = "eof" /\ UNCHANGED <<rpc, limitHit>>
    BY <1>7 DEF EndOfRows, readerSide
  <2>2. ~ limitHit => rpc \in {"notify", "done"}
    BY <1>7, EndIsLast DEF EndOfRows
  <2> QED
    BY <2>1, <2>2 DEF StreamInUse
<1>8. CASE DropStream
  BY <1>8 DEF DropStream, StreamInUse, ScanIInv, Phase, readerSide, scanVars
<1>9. CASE ~ (Reader \/ NewScan \/ Open \/ OpenThrows \/ NextRowThrows \/ RowThrows
              \/ Abandon \/ EndOfRows \/ DropStream)
  <2>1. UNCHANGED <<outcome, streamOpen, rpc, limitHit>>
    BY <1>9
    DEF Next, Stopped, Environment, NewScanThrows, SpuriousWakeup, GoOn,
        vars, readerVars, scanVars, readerSide, Query, NextRow, SwitchBlock,
        BeginRow, ReadValue, UseRow, UseReleasedRow, TakeBlock, WaitForBlock,
        TakeNull, TakeReleasedBlock, DropPrevious, DropCurrent, ReleaseTwice,
        StopReader, JoinReader, Crash
  <2> QED
    BY <1>1, <2>1
<1> QED
  BY <1>2, <1>3, <1>4, <1>5, <1>6, <1>7, <1>8, <1>9

(* There always is a block to wait for.                                    *)
LEMMA NeverNull ==
  ASSUME TypeIInv, ScanIInv, ~ limitHit
  PROVE  ~ TakeNull
<1> SUFFICES ASSUME TakeNull PROVE FALSE
  OBVIOUS
<1>1. cpc = "block" /\ queue = <<>> /\ rblock = NoBlock
  BY DEF TakeNull
<1>2. outcome = "open" /\ Reading /\ Fetching
  BY <1>1 DEF ScanIInv, Phase, Reading, Fetching
<1>3. CASE file = <<>>
  BY <1>1, <1>2, <1>3 DEF ScanIInv, NothingToTake
<1>4. CASE file # <<>>
  <2>1. Numbering /\ ChainOK /\ IteratorAt
    BY <1>2, <1>4 DEF ScanIInv
  <2>2. NextTaken = sBlockNumber + 1 /\ sBlockNumber \in Nat
    BY <1>1, Shapes DEF NextTaken, LastFull
  <2>3. cblock # NoBlock /\ cblock = sBlockNumber
    BY <2>1, <2>2 DEF Numbering
  <2>4. BlockTaken
    BY <2>1, <2>3 DEF IteratorAt
  <2>5. Here.tag = "CC"
    BY <1>2, <2>4 DEF BlockTaken
  <2>6. cblock < sBlockNumber
    BY <2>1, <2>3, <2>4, <2>5, HereFacts
  <2> QED
    BY <2>2, <2>3, <2>6
<1> QED
  BY <1>3, <1>4

(* A row whose values do not fill a block is where the iterator says.      *)
LEMMA RowExists ==
  ASSUME TypeIInv, ScanIInv, OneOwner, StandingIInv, ~ limitHit, UseReleasedRow
  PROVE  ~ SmallLines
<1>1. cpc = "use"
  BY DEF UseReleasedRow
<1>2. Reading
  BY <1>1 DEF ScanIInv, Phase, Reading
<1>3. file # <<>>
  BY <1>1, <1>2 DEF ScanIInv, NoneTaken, Fetching
<1> SUFFICES ASSUME SmallLines PROVE FALSE
  OBVIOUS
<1>4. PICK i \in DOMAIN row : row[i].block \notin blocks
  BY DEF UseReleasedRow
<1>5. row[i].block \in {cblock, previousBlock}
  BY <1>1, <1>2, <1>3 DEF StandingIInv, RowHeld, InRow
<1>6. row[i].block # NoBlock
  BY RowShapes, Shapes
<1> QED
  BY <1>4, <1>5, <1>6 DEF OneOwner, Held

LEMMA MarkersFit ==
  ASSUME TypeIInv, RoomLeft, ~ limitHit, WriteBeyondBlock
  PROVE  ~ AllWellFormed
<1> SUFFICES ASSUME AllWellFormed PROVE FALSE
  OBVIOUS
<1>1. rpc \in {"line", "finish"} /\ rblock \in 1 .. sBlockNumber /\ rblock # NoBlock
  BY Numbers DEF WriteBeyondBlock
<1>2. store[rblock].used <= Capacity - 1
  BY <1>1, CellShapes, Shapes DEF RoomLeft, Contents
<1>3. store[rblock].used \in Nat /\ Capacity \in Nat
  BY <1>1, CellShapes, Shapes DEF Contents
<1> QED
  BY <1>2, <1>3 DEF WriteBeyondBlock, HasRoomForMark

(* Which undefined behaviour remains, as long as no block is refused.      *)
OtherFaults ==
  ~ limitHit =>
    /\ fault = "stream" => outcome \in {"abandoned", "threw"}
    /\ fault = "row" => ~ SmallLines
    /\ fault = "overflow" => ~ AllWellFormed
    /\ fault # "null"

LEMMA OtherFaultsStep ==
  ASSUME TypeIInv, ScanIInv, OneOwner, StandingIInv, RoomLeft, StreamInUse,
         OtherFaults, [Next]_vars
  PROVE  OtherFaults'
<1> SUFFICES ASSUME ~ limitHit', fault' # "none" PROVE OtherFaults'
  BY DEF OtherFaults
<1>1. ~ limitHit
  BY LimitStays
<1>2. ASSUME UNCHANGED <<fault, outcome, file>>
      PROVE  OtherFaults'
  <2>1. (SmallLines <=> SmallLines') /\ (AllWellFormed <=> AllWellFormed')
    BY <1>2 DEF SmallLines, LineBytes, AllWellFormed, RS!WellFormed, RS!Stored
  <2> QED
    BY <1>1, <1>2, <2>1 DEF OtherFaults
<1>3. CASE fault # "none"
  <2>1. UNCHANGED <<fault, outcome, file>>
    BY <1>3 DEF Next, Stopped, vars, scanVars
  <2> QED
    BY <1>2, <2>1
<1>4. CASE fault = "none"
  <2>1. ReadClosedStream \/ WriteReleasedBlock \/ WriteBeyondBlock
        \/ UseReleasedRow \/ TakeNull \/ TakeReleasedBlock \/ ReleaseTwice
    BY <1>4
    DEF Next, Stopped, Environment, NewScan, NewScanThrows, Abandon,
        SpuriousWakeup, GoOn, vars, Query, Open, OpenThrows, Throws, NextRow,
        NextRowThrows, EndOfRows, SwitchBlock, BeginRow, ReadValue, RowThrows,
        UseRow, TakeBlock, WaitForBlock, DropStream, DropPrevious, DropCurrent,
        StopReader, JoinReader, readerSide, querySide, Reader, AddValue,
        AddToNextBlock, AddToNextBlockThrows, HandOver, EndLine, NextLine,
        LeaveLoop, Finish, NotifyEnd
  <2>2. UNCHANGED <<outcome, file>>
    BY <2>1
    DEF ReadClosedStream, WriteReleasedBlock, WriteBeyondBlock, UseReleasedRow,
        TakeNull, TakeReleasedBlock, ReleaseTwice, Crash, scanVars
  <2>3. (SmallLines' <=> SmallLines) /\ (AllWellFormed' <=> AllWellFormed)
    BY <2>2 DEF SmallLines, LineBytes, AllWellFormed, RS!WellFormed, RS!Stored
  <2>4. CASE ReadClosedStream
    <3>1. fault' = "stream" /\ rpc = "line" /\ ~ streamOpen
      BY <2>4 DEF ReadClosedStream, Crash
    <3>2. outcome \in {"abandoned", "threw"}
      BY <1>1, <3>1 DEF StreamInUse, TypeIInv, TypeOK, ScanTypeOK
    <3> QED
      BY <2>2, <3>1, <3>2 DEF OtherFaults
  <2>5. CASE UseReleasedRow
    <3>1. fault' = "row" /\ ~ SmallLines
      BY <1>1, <2>5, RowExists DEF UseReleasedRow, Crash
    <3> QED
      BY <2>3, <3>1 DEF OtherFaults
  <2>6. CASE WriteBeyondBlock
    <3>1. fault' = "overflow" /\ ~ AllWellFormed
      BY <1>1, <2>6, MarkersFit DEF WriteBeyondBlock, Crash
    <3> QED
      BY <2>3, <3>1 DEF OtherFaults
  <2>7. CASE TakeNull
    BY <1>1, <2>7, NeverNull
  <2>8. CASE WriteReleasedBlock \/ TakeReleasedBlock \/ ReleaseTwice
    BY <2>8
    DEF WriteReleasedBlock, TakeReleasedBlock, ReleaseTwice, Crash, OtherFaults
  <2> QED
    BY <2>1, <2>4, <2>5, <2>6, <2>7, <2>8
<1> QED
  BY <1>3, <1>4

(* Where the undefined behaviour is that the scan can reach while no block *)
(* is refused: the parser reads the stream after its destruction only when *)
(* the scan was given up; a row points into a released block only in a     *)
(* file with a line that would fill a block; a marker is written behind    *)
(* the end of a block only in a file without lines or with a line that has *)
(* an error; and the iterator never gets a null block.                     *)
THEOREM FaultsExplainedHolds == Spec => []FaultsExplained
<1>1. Init => StandingIInv /\ RoomLeft /\ StreamInUse /\ OtherFaults
  BY DEF Init, StandingIInv, RoomLeft, StreamInUse, OtherFaults, Reading
<1>2. /\ TypeIInv /\ TypeIInv' /\ ScanIInv /\ ScanIInv' /\ LetGo /\ OneOwner
      /\ StandingIInv /\ RoomLeft /\ StreamInUse /\ OtherFaults /\ [Next]_vars
      => (StandingIInv /\ RoomLeft /\ StreamInUse /\ OtherFaults)'
  BY StandingStep, RoomLeftStep, StreamInUseStep, OtherFaultsStep
<1>3. TypeIInv /\ OtherFaults => FaultsExplained
  BY DEF TypeIInv, OtherFaults, FaultsExplained, SmallLines, AllWellFormed
<1> QED
  BY <1>1, <1>2, <1>3, SpecTypes, SpecRows, SpecLedger, OneOwnerHolds, PTL DEF Spec
=============================================================================
