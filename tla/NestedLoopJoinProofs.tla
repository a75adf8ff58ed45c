------------------------ MODULE NestedLoopJoinProofs ------------------------
(***************************************************************************)
(* The cross and the inner join, for all inputs, conditions, block sizes   *)
(* and limits: they give back every block, fail only where a row or a      *)
(* value is missing, and deliver what a join without a hash table          *)
(* promises.                                                               *)
(***************************************************************************)
EXTENDS NestedLoopJoin, RowCopiesProofs

(* The blocks are those of the iterator at every point, and a join that is *)
(* closed has none.                                                        *)
Ownership == Owned /\ (pc = "closed" => AllReleased)

LEMMA InitOwnership == Init => Ownership
<1> SUFFICES ASSUME Init PROVE Ownership
  OBVIOUS
<1>1. cache = <<>> /\ sBlockNumber = 0 /\ blocks = {}
  BY DEF Init, BM!Init
<1> QED
  BY <1>1 DEF Ownership, Owned, AllReleased

(* What the actions that neither create nor release a block leave alone.   *)
Quiet ==
  \/ NextLeft \/ EndOfLeft \/ PullRight \/ CopyValue \/ EndRow \/ EndOfRight
  \/ InputThrows \/ ReadRow \/ ReadRowThrows \/ EndOfBlocks \/ UseMissingRow
  \/ Deliver \/ SkipPair \/ ConditionThrows \/ CallAgain \/ Abandon

LEMMA QuietStep ==
  ASSUME Quiet
  PROVE  UNCHANGED <<managerVars, cache>> /\ pc' # "closed"
<1>1. CASE CopyValue \/ EndRow \/ EndOfRight
  BY <1>1 DEF CopyValue, Copy, AddToCurrent, EndRow, WriteMark, EndOfRight, GoTo
<1>2. CASE UseMissingRow
  BY <1>2 DEF UseMissingRow, copyVars, FromBlocks
<1>3. CASE EndOfLeft \/ InputThrows \/ ReadRowThrows \/ ConditionThrows \/ Abandon
  BY <1>3 DEF EndOfLeft, InputThrows, ReadRowThrows, ConditionThrows, Abandon,
              Destroy, copyVars
<1>4. CASE \/ NextLeft \/ PullRight \/ ReadRow \/ EndOfBlocks \/ Deliver
           \/ SkipPair \/ CallAgain
  BY <1>4 DEF NextLeft, PullRight, ReadRow, EndOfBlocks, Deliver, SkipPair,
              CallAgain, GoTo, copyVars
<1> QED
  BY <1>1, <1>2, <1>3, <1>4 DEF Quiet

LEMMA OwnershipStep == Ownership /\ [Next]_vars => Ownership'
<1> SUFFICES ASSUME Ownership, [Next]_vars PROVE Ownership'
  OBVIOUS
<1>1. CASE FirstBlock \/ CopyToNextBlock
  <2>1. Owned' /\ pc' # "closed"
    BY <1>1, PushOwned
    DEF FirstBlock, CopyToNextBlock, AddToNext, Copy, GoTo, Ownership
  <2> QED
    BY <2>1 DEF Ownership
<1>2. CASE FirstBlockThrows \/ CopyThrows
  <2>1. Owned' /\ pc' # "closed"
    BY <1>2, RefusedOwned
    DEF FirstBlockThrows, CopyThrows, AddThrows, Destroy, Ownership
  <2> QED
    BY <2>1 DEF Ownership
<1>3. CASE ReleaseBlocks
  <2>1. Owned' /\ pc' # "closed"
    BY <1>3, ReleaseOwned DEF ReleaseBlocks, Ownership
  <2> QED
    BY <2>1 DEF Ownership
<1>4. CASE NewJoin
  <2>1. Owned' /\ pc' # "closed"
    BY <1>4, EmptiedOwned DEF NewJoin, Ownership
  <2> QED
    BY <2>1 DEF Ownership
<1>5. CASE Close
  <2>1. Owned' /\ AllReleased'
    BY <1>5, SameOwned DEF Close, copyVars, managerVars, Ownership, AllReleased
  <2> QED
    BY <2>1 DEF Ownership
<1>6. CASE Quiet
  BY <1>6, QuietStep, SameOwned DEF managerVars, Ownership
<1>7. CASE UNCHANGED vars
  BY <1>7, SameOwned DEF vars, copyVars, managerVars, Ownership, AllReleased
<1> QED
  BY <1>1, <1>2, <1>3, <1>4, <1>5, <1>6, <1>7 DEF Next, Join, Stopped, Quiet

LEMMA SpecOwnership == Spec => []Ownership
BY InitOwnership, OwnershipStep, PTL DEF Spec

(* Whether a join ends, fails while it fills its blocks or reads them, or  *)
(* is abandoned, it gives all of its blocks back.                          *)
THEOREM BlocksGivenBackHolds == Spec => []BlocksGivenBack
<1>1. Ownership => BlocksGivenBack
  BY AllReleasedOwned DEF Ownership, BlocksGivenBack
<1> QED
  BY <1>1, SpecOwnership, PTL

LEMMA ManagerStep == Ownership /\ [Next]_vars => [BM!Next]_managerVars
<1> SUFFICES ASSUME Ownership, [Next]_vars PROVE [BM!Next]_managerVars
  OBVIOUS
<1>1. CASE FirstBlock \/ CopyToNextBlock
  BY <1>1, PushIsCall DEF FirstBlock, CopyToNextBlock, AddToNext
<1>2. CASE FirstBlockThrows \/ CopyThrows
  BY <1>2, ThrowIsCall DEF FirstBlockThrows, CopyThrows, AddThrows
<1>3. CASE ReleaseBlocks
  BY <1>3, ReleaseIsCall DEF ReleaseBlocks, Ownership
<1>4. CASE Quiet
  BY <1>4, QuietStep
<1>5. CASE NewJoin \/ Close \/ UNCHANGED vars
  BY <1>5 DEF NewJoin, Close, vars, copyVars
<1> QED
  BY <1>1, <1>2, <1>3, <1>4, <1>5 DEF Next, Join, Stopped, Quiet

(* The joins of an engine, one after the other, use the block manager as   *)
(* its specification says, so that what holds of its counters holds here.  *)
THEOREM ManagerRefined == Spec => BM!Spec
<1>1. Init => BM!Init
  BY DEF Init
<1> QED
  BY <1>1, SpecOwnership, ManagerStep, PTL
  DEF Spec, BM!Spec, managerVars, BM!managerVars
-----------------------------------------------------------------------------
(* What the blocks hold, where the iterator is, and which pairs were met.  *)

Going == pc \notin {"closed", "release"}

(* The rows are copied while the first left row meets them, and read back  *)
(* for the other ones; in between they have all been copied.               *)
Filling == pc \in {"right", "copy", "pair", "returned"} /\ ~ useCache
Rereading == pc \in {"right", "pair", "returned"} /\ useCache
Filled == (pc = "left" /\ lpos > 0) \/ Rereading

JoinOK ==
  /\ pc \in {"closed", "left", "right", "copy", "pair", "returned", "release"}
  /\ joins \in 0 .. MaxJoins /\ input \in Inputs
  /\ rpos \in 0 .. Len(input.rhs) /\ lpos \in 0 .. input.lhs
  /\ col \in Nat \ {0}
  /\ useCache \in BOOLEAN
  /\ at \in Positions
  /\ row \in Rows
  /\ delivered \in Seq([lhs : Nat, rhs : Rows])
  /\ outcome \in {"none", "open", "eof", "input", "limit", "value", "condition",
                  "abandoned"}
  /\ fault \in {"none", "row"}

Phases ==
  /\ outcome = "open" <=> Going
  /\ Going => Held
  /\ Going /\ cache = <<>> => rpos = 0 /\ pc \in {"left", "right"}
  /\ Going /\ useCache => cache # <<>>
  /\ pc = "left" => (lpos = 0 <=> cache = <<>>)
  /\ Filling => lpos = 1
  /\ Rereading => lpos > 1
  /\ pc = "copy" =>
       ~ useCache /\ rpos >= 1 /\ col <= Len(RightRow) + 1

(* Wherever something is written there is room for the markers that follow. *)
RoomLeft ==
  /\ Filling /\ pc # "copy" /\ cache # <<>> => Room(1)
  /\ pc = "copy" => IF col = 1 THEN Room(1) ELSE Room(2)

(* The markers behind the rows that were copied are at ends: this is where *)
(* row r begins, and the rows that stand in the blocks.                    *)
Ended == IF pc = "copy" THEN rpos - 1 ELSE rpos
Begin(ends, r) == IF r = 1 THEN Start ELSE After(ends[r - 1])
Laid(mem, ends, n, rows) ==
  /\ ends \in [1 .. n -> Positions]
  /\ \A r \in 1 .. n : Spans(mem, Begin(ends, r), ends[r], r, rows[r])

(* What is written behind them: the row that is copied, nothing yet, or    *)
(* the end of all rows.                                                    *)
Follows(ends) ==
  /\ pc = "copy" =>
       Copied(Memory, Begin(ends, rpos), rpos, RightRow, col - 1)
  /\ Filling /\ pc # "copy" /\ cache # <<>> =>
       Begin(ends, rpos + 1) = EndOf(Memory)
  /\ Filled =>
       /\ rpos = Len(input.rhs)
       /\ IsIn(Memory, Begin(ends, rpos + 1))
       /\ CellIn(Memory, Begin(ends, rpos + 1)).tag = "DD"

(* The current left row has met the first k right rows, the last of them   *)
(* being the one in row; the iterator is behind it.                        *)
Reader(ends, k) ==
  /\ k \in 0 .. rpos
  /\ Filling => k = rpos
  /\ Rereading =>
       /\ at = IF k = 0 THEN Start ELSE ends[k]
       /\ \A r \in 1 .. k : Fit(input.rhs[r], Len(input.rhs[r]))
  /\ pc \in {"pair", "returned"} =>
       k >= 1 /\ row = [c \in DOMAIN input.rhs[k] |-> <<k, c>>]

(* What was delivered: the selected ones of the pairs that were met.       *)
Met(p, k) ==
  \/ p[1] < lpos
  \/ p[1] = lpos /\ (pc = "left" \/ p[2] < k \/ (p[2] = k /\ pc \notin {"pair", "copy"}))
Handed(k) ==
  \A p \in CP!Selected : CP!Joined(p) \in CP!Delivered <=> Met(p, k)

Progress(ends, k) ==
  Laid(Memory, ends, Ended, input.rhs) /\ Follows(ends) /\ Reader(ends, k) /\ Handed(k)

Explained ==
  /\ fault = "row" => input.rhs = <<>> /\ input.lhs > 1
  /\ outcome = "value" =>
       /\ input.lhs > 1
       /\ \E r \in DOMAIN input.rhs : \E c \in DOMAIN input.rhs[r] :
            ~ HasSizeFor(Empty, input.rhs[r][c])

JoinIInv ==
  /\ JoinOK /\ Phases /\ RoomLeft /\ Written /\ Explained
  /\ Going => \E ends, k : Progress(ends, k)

LEMMA InputTypes ==
  ASSUME NEW in \in Inputs
  PROVE  /\ in.lhs \in Nat /\ Len(in.rhs) \in Nat
         /\ DOMAIN in.rhs = 1 .. Len(in.rhs)
         /\ \A r \in 1 .. Len(in.rhs) :
              /\ in.rhs[r] \in Seq(Nat) \ {<<>>}
              /\ Len(in.rhs[r]) \in Nat \ {0}
              /\ DOMAIN in.rhs[r] = 1 .. Len(in.rhs[r])
              /\ Len(in.rhs[r]) = Len(in.rhs[1])
<1>1. in.lhs \in Nat /\ in.rhs \in Seq(Seq(Nat) \ {<<>>})
  BY JoinAssumption
<1>2. \A r \in DOMAIN in.rhs : Len(in.rhs[r]) = Len(in.rhs[1])
  BY JoinAssumption
<1>3. \A s \in Seq(Nat) \ {<<>>} : Len(s) \in Nat \ {0} /\ DOMAIN s = 1 .. Len(s)
  OBVIOUS
<1>4. \A r \in 1 .. Len(in.rhs) : in.rhs[r] \in Seq(Nat) \ {<<>>}
  BY <1>1
<1>5. Len(in.rhs) \in Nat /\ DOMAIN in.rhs = 1 .. Len(in.rhs)
  BY <1>1
<1> QED
  BY <1>1, <1>2, <1>3, <1>4, <1>5

LEMMA InitJoin == Init => JoinIInv
<1> SUFFICES ASSUME Init PROVE JoinIInv
  OBVIOUS
<1>1. sBlockNumber = 0 /\ store = <<>>
  BY DEF Init, BM!Init
<1>2. Written
  BY <1>1 DEF Written, MarkersFit
<1>3. rpos \in 0 .. Len(input.rhs) /\ lpos \in 0 .. input.lhs /\ joins \in 0 .. MaxJoins
  BY InputTypes, JoinAssumption DEF Init
<1>4. row \in Rows /\ delivered \in Seq([lhs : Nat, rhs : Rows])
  BY EmptySeq DEF Init, Rows
<1>5. Start \in Positions
  BY DEF Start, Positions
<1>6. input \in Inputs /\ at \in Positions /\ col \in Nat \ {0}
  BY <1>5 DEF Init
<1>7. JoinOK
  BY <1>3, <1>4, <1>6 DEF Init, JoinOK
<1> QED
  BY <1>2, <1>7
  DEF Init, JoinIInv, Phases, RoomLeft, Explained, Going, Filling, Rereading

(* What the steps that leave the blocks alone do not change.               *)
LEMMA SameBlocks ==
  ASSUME UNCHANGED <<store, cache>>
  PROVE  /\ Memory' = Memory /\ (Held' <=> Held)
         /\ Room(1)' <=> Room(1)
BY DEF Memory, Held, Room, HasCurrent, Current, NoBlock, BM!NoBlock

LEMMA BeginTypes ==
  ASSUME NEW n \in Nat, NEW ends \in [1 .. n -> Positions], NEW r \in 1 .. n + 1
  PROVE  Begin(ends, r) \in Positions
<1>1. CASE r = 1
  BY <1>1 DEF Begin, Start, Positions
<1>2. CASE r # 1
  <2>1. PICK p \in Positions : p = ends[r - 1]
    BY <1>2
  <2> QED
    BY <1>2, <2>1 DEF Begin, After, Positions
<1> QED
  BY <1>1, <1>2

(* The rows that stand in the blocks stay there.                           *)
LEMMA LaidGrows ==
  ASSUME NEW in \in Inputs, NEW n \in 0 .. Len(in.rhs), NEW mem, NEW new,
         Grows(mem, new), NEW ends, Laid(mem, ends, n, in.rhs)
  PROVE  Laid(new, ends, n, in.rhs)
<1> SUFFICES ASSUME NEW r \in 1 .. n
             PROVE  Spans(new, Begin(ends, r), ends[r], r, in.rhs[r])
  BY DEF Laid
<1>1. in.rhs[r] \in Seq(Nat) /\ r \in Nat
  <2>1. Len(in.rhs) \in Nat
    BY InputTypes
  <2>2. r \in 1 .. Len(in.rhs) /\ r \in Nat
    BY <2>1
  <2> QED
    BY <2>2, InputTypes
<1>2. ends[r] \in Positions /\ Begin(ends, r) \in Positions
  BY DEF Laid, Begin, Start, Positions, After
<1>3. Spans(mem, Begin(ends, r), ends[r], r, in.rhs[r])
  BY DEF Laid
<1> QED
  BY <1>1, <1>2, <1>3, SpanGrows

(* The right row that is copied.                                           *)
LEMMA CopiedRow ==
  ASSUME JoinOK, Phases, pc = "copy"
  PROVE  /\ rpos \in 1 .. Len(input.rhs) /\ rpos \in Nat
         /\ RightRow \in Seq(Nat) \ {<<>>} /\ RightRow = input.rhs[rpos]
         /\ Len(RightRow) \in Nat \ {0} /\ DOMAIN RightRow = 1 .. Len(RightRow)
         /\ col <= Len(RightRow) => RightRow[col] \in Nat
<1>1. rpos \in 1 .. Len(input.rhs) /\ rpos \in Nat
  BY InputTypes DEF JoinOK, Phases
<1>2. RightRow \in Seq(Nat) \ {<<>>} /\ RightRow = input.rhs[rpos]
  BY <1>1, InputTypes DEF JoinOK, RightRow
<1>3. Len(RightRow) \in Nat \ {0} /\ DOMAIN RightRow = 1 .. Len(RightRow)
  BY <1>1, <1>2, InputTypes DEF JoinOK
<1>4. col <= Len(RightRow) => RightRow[col] \in Nat
  BY <1>2, <1>3 DEF JoinOK
<1> QED
  BY <1>1, <1>2, <1>3, <1>4

(* Where the iterator reads on: behind the marker of the last row that was *)
(* read.  There the next row begins, or the end of all rows is.            *)
LEMMA ReaderAt ==
  ASSUME JoinOK, NEW ends, NEW k, Progress(ends, k), Rereading
  PROVE  /\ k \in 0 .. rpos /\ rpos = Len(input.rhs) /\ rpos \in Nat
         /\ AtDelimiter /\ RowStart = Begin(ends, k + 1) /\ RowStart \in Positions
         /\ at = Start => k = 0
<1>1. PICK n \in Nat : n = rpos /\ n = Len(input.rhs)
  BY InputTypes DEF JoinOK, Progress, Follows, Filled
<1>2. PICK j \in 0 .. n : j = k
  BY <1>1 DEF Progress, Reader
<1>3. CASE j = 0
  <2>1. at = Start /\ Begin(ends, j + 1) = Start
    BY <1>2, <1>3 DEF Progress, Reader, Begin
  <2>2. Start.offset = 0 /\ Start \in Positions
    BY DEF Start, Positions
  <2> QED
    BY <1>1, <1>2, <1>3, <2>1, <2>2 DEF AtDelimiter, RowStart
<1>4. CASE j # 0
  <2>1. j \in 1 .. n /\ j \in Nat
    BY <1>4
  <2>2. PICK sizes \in Seq(Nat) \ {<<>>} : sizes = input.rhs[j]
    BY <1>1, <2>1, InputTypes DEF JoinOK
  <2>3. Ended = n
    BY <1>1 DEF Ended, Rereading
  <2>4. PICK p \in Positions : p = Begin(ends, j)
    <3>1. j \in 1 .. n + 1
      BY <2>1
    <3> QED
      BY <2>3, <3>1, BeginTypes DEF Progress, Laid
  <2>5. PICK q \in Positions : q = ends[j]
    BY <2>1, <2>3 DEF Progress, Laid
  <2>6. Spans(Memory, p, q, j, sizes)
    BY <2>1, <2>2, <2>3, <2>4, <2>5 DEF Progress, Laid
  <2>7. Fit(sizes, Len(sizes))
    BY <1>2, <2>1, <2>2 DEF Progress, Reader
  <2>8. q.offset # 0 /\ TagAt(q) = "BB"
    BY <2>6, <2>7, ReadsSpan
  <2>9. at = q /\ Begin(ends, j + 1) = After(q)
    BY <1>2, <1>4, <2>1, <2>5 DEF Progress, Reader, Begin
  <2>10. After(q) \in Positions /\ q # Start
    BY <2>8 DEF After, Positions, Start
  <2> QED
    BY <1>1, <1>2, <2>8, <2>9, <2>10 DEF AtDelimiter, RowStart
<1> QED
  BY <1>3, <1>4

(* What it finds there.                                                    *)
LEMMA ReadsNext ==
  ASSUME JoinOK, NEW ends, NEW k, Progress(ends, k), Rereading
  PROVE  /\ k = rpos => TagAt(RowStart) = "DD"
         /\ k # rpos =>
              /\ k + 1 \in 1 .. Len(input.rhs)
              /\ TagAt(RowStart) # "DD"
              /\ Complete(RowStart, Width) <=>
                   Fit(input.rhs[k + 1], Len(input.rhs[k + 1]))
              /\ Complete(RowStart, Width) =>
                   /\ RowAt(RowStart, Width) =
                        [c \in DOMAIN input.rhs[k + 1] |-> <<k + 1, c>>]
                   /\ BehindRow(RowStart) = ends[k + 1]
<1>1. /\ k \in 0 .. rpos /\ rpos = Len(input.rhs) /\ rpos \in Nat
      /\ RowStart = Begin(ends, k + 1) /\ RowStart \in Positions
  BY ReaderAt
<1>2. CASE k = rpos
  <2>1. /\ IsIn(Memory, RowStart) /\ CellIn(Memory, RowStart).tag = "DD"
    BY <1>1, <1>2 DEF Progress, Follows, Filled
  <2> QED
    BY <1>1, <1>2, <2>1, SeesMemory DEF TagAt
<1>3. CASE k # rpos
  <2>1. PICK d \in 1 .. rpos : d = k + 1 /\ d \in Nat
    BY <1>1, <1>3
  <2>2. PICK sizes \in Seq(Nat) \ {<<>>} : sizes = input.rhs[d]
    BY <1>1, <2>1, InputTypes DEF JoinOK
  <2>3. Width = Len(sizes) /\ DOMAIN sizes = 1 .. Len(sizes)
    BY <1>1, <2>1, <2>2, InputTypes DEF JoinOK, Width
  <2>4. Ended = rpos
    BY DEF Ended, Rereading
  <2>5. PICK p \in Positions : p = Begin(ends, d) /\ p = RowStart
    BY <1>1, <2>1
  <2>6. PICK q \in Positions : q = ends[d]
    BY <2>1, <2>4 DEF Progress, Laid
  <2>7. Spans(Memory, p, q, d, sizes)
    BY <2>1, <2>2, <2>4, <2>5, <2>6 DEF Progress, Laid
  <2>8. TagAt(p) # "DD"
    BY <2>7, SpanBegins
  <2>9. /\ Complete(p, Len(sizes)) <=> Fit(sizes, Len(sizes))
        /\ Complete(p, Len(sizes)) =>
             /\ RowAt(p, Len(sizes)) = [c \in 1 .. Len(sizes) |-> <<d, c>>]
             /\ q = After(ValuePositions(p, Len(sizes))[Len(sizes)])
    BY <2>7, ReadsSpan
  <2> QED
    BY <1>1, <1>3, <2>1, <2>2, <2>3, <2>5, <2>6, <2>8, <2>9 DEF BehindRow
<1> QED
  BY <1>2, <1>3

LEMMA JoinedDiffer ==
  ASSUME input \in Inputs, NEW p \in CP!Selected, NEW q \in CP!Selected,
         CP!Joined(p) = CP!Joined(q)
  PROVE  p = q
<1>1. /\ p \in (1 .. input.lhs) \X (1 .. Len(input.rhs))
      /\ q \in (1 .. input.lhs) \X (1 .. Len(input.rhs))
  BY DEF CP!Selected
<1>2. 1 \in DOMAIN input.rhs[p[2]] /\ 1 \in DOMAIN input.rhs[q[2]]
  <2>1. ASSUME NEW r \in 1 .. Len(input.rhs)
        PROVE  1 \in DOMAIN input.rhs[r]
    BY InputTypes
  <2> QED
    BY <1>1, <2>1
<1>3. CP!Joined(p).lhs = p[1] /\ CP!Joined(q).lhs = q[1]
  BY DEF CP!Joined
<1>4. CP!Joined(p).rhs[1] = <<p[2], 1>> /\ CP!Joined(q).rhs[1] = <<q[2], 1>>
  BY <1>2 DEF CP!Joined
<1>5. p[1] = q[1] /\ p[2] = q[2]
  <2>1. <<p[2], 1>> = <<q[2], 1>>
    BY <1>4
  <2> QED
    BY <1>3, <2>1
<1> QED
  BY <1>1, <1>5
-----------------------------------------------------------------------------
(* The steps.                                                              *)

LEMMA SameHanded ==
  ASSUME JoinOK, UNCHANGED <<input, delivered>>, NEW k, NEW j, Handed(k),
         \A l \in 1 .. input.lhs, r \in 1 .. Len(input.rhs) :
           Met(<<l, r>>, j)' <=> Met(<<l, r>>, k)
  PROVE  Handed(j)'
<1> SUFFICES ASSUME NEW p \in CP!Selected
             PROVE  CP!Joined(p) \in CP!Delivered <=> Met(p, j)'
  BY DEF Handed, CP!Selected, CP!Joined, CP!Delivered
<1>1. PICK l \in 1 .. input.lhs, r \in 1 .. Len(input.rhs) : p = <<l, r>>
  BY DEF CP!Selected
<1>2. Met(p, j)' <=> Met(p, k)
  BY <1>1
<1> QED
  BY <1>2 DEF Handed

(* getNextRow() is left for good.                                          *)
LEMMA StopStep ==
  ASSUME JoinIInv, Written',
         NEW how \in {"eof", "input", "limit", "value", "condition", "abandoned"},
         Destroy(how),
         how = "value" =>
           /\ input.lhs > 1
           /\ \E r \in DOMAIN input.rhs : \E c \in DOMAIN input.rhs[r] :
                ~ HasSizeFor(Empty, input.rhs[r][c])
  PROVE  JoinIInv'
<1>1. JoinOK'
  BY DEF JoinIInv, JoinOK, Destroy
<1>2. Phases' /\ RoomLeft' /\ ~ Going'
  BY DEF Destroy, Phases, RoomLeft, Going, Filling, Rereading
<1>3. Explained'
  BY DEF JoinIInv, Explained, Destroy
<1> QED
  BY <1>1, <1>2, <1>3 DEF JoinIInv

LEMMA StopsStep ==
  ASSUME Owned, JoinIInv,
         EndOfLeft \/ FirstBlockThrows \/ CopyThrows \/ InputThrows
           \/ ReadRowThrows \/ ConditionThrows \/ Abandon
  PROVE  JoinIInv'
<1>1. JoinOK /\ Phases /\ RoomLeft /\ Written
  BY DEF JoinIInv
<1>2. CASE EndOfLeft \/ InputThrows \/ ConditionThrows \/ Abandon
  <2>1. Written'
    BY <1>1, <1>2, SameWritten
    DEF EndOfLeft, InputThrows, ConditionThrows, Abandon, copyVars, managerVars
  <2> QED
    BY <1>2, <2>1, StopStep
    DEF EndOfLeft, InputThrows, ConditionThrows, Abandon
<1>3. CASE FirstBlockThrows
  <2>1. Written'
    BY <1>1, <1>3, SameWritten DEF FirstBlockThrows, BM!CreateBlockThrows
  <2> QED
    BY <1>3, <2>1, StopStep DEF FirstBlockThrows
<1>4. CASE CopyThrows
  <2>1. Room(1)
    BY <1>1, <1>4, CurrentExists, CopiesAssumption
    DEF CopyThrows, Copying, RoomLeft, Room
  <2>2. Written'
    BY <1>1, <1>4, <2>1, ThrowKeeps DEF CopyThrows
  <2> QED
    BY <1>4, <2>2, StopStep DEF CopyThrows
<1>5. CASE ReadRowThrows
  <2>1. Written'
    BY <1>1, <1>5, SameWritten DEF ReadRowThrows, copyVars, managerVars
  <2>2. Rereading /\ Going
    BY <1>5 DEF ReadRowThrows, FromBlocks, Rereading, Going
  <2>3. PICK ends, k : Progress(ends, k)
    BY <2>2 DEF JoinIInv
  <2>4. AtDelimiter
    BY <1>1, <2>2, <2>3, ReaderAt
  <2>5. k # rpos /\ ~ Complete(RowStart, Width)
    BY <1>1, <1>5, <2>2, <2>3, <2>4, ReadsNext DEF ReadRowThrows
  <2>6. PICK d \in 1 .. Len(input.rhs) : ~ Fit(input.rhs[d], Len(input.rhs[d]))
    BY <1>1, <2>2, <2>3, <2>5, ReadsNext
  <2>7. d \in DOMAIN input.rhs /\ DOMAIN input.rhs[d] = 1 .. Len(input.rhs[d])
    BY <1>1, InputTypes DEF JoinOK
  <2>8. \E c \in DOMAIN input.rhs[d] : ~ HasSizeFor(Empty, input.rhs[d][c])
    BY <2>6, <2>7 DEF Fit
  <2>9. input.lhs > 1
    BY <1>1, <2>2, InputTypes DEF Phases, JoinOK
  <2> QED
    BY <1>5, <2>1, <2>7, <2>8, <2>9, StopStep DEF ReadRowThrows
<1> QED
  BY <1>2, <1>3, <1>4, <1>5

(* Nothing is owned by a join that is closed, or nothing happens.          *)
LEMMA OutsideStep ==
  ASSUME Owned, JoinIInv, fault = "none", ReleaseBlocks \/ Close \/ NewJoin
  PROVE  JoinIInv'
<1>1. JoinOK /\ Phases /\ RoomLeft /\ Written /\ Explained
  BY DEF JoinIInv
<1>2. CASE ReleaseBlocks
  <2>1. UNCHANGED <<sBlockNumber, store>>
    BY <1>1, <1>2 DEF ReleaseBlocks, ReleaseNext, BM!Release, NoBlock
  <2>2. Written'
    BY <1>1, <2>1, SameWritten
  <2> QED
    BY <1>1, <1>2, <2>2
    DEF ReleaseBlocks, JoinIInv, JoinOK, Phases, RoomLeft, Explained, Going,
        Filling, Rereading
<1>3. CASE Close
  <2>1. Written'
    BY <1>1, <1>3, SameWritten DEF Close, copyVars, managerVars
  <2> QED
    BY <1>1, <1>3, <2>1
    DEF Close, GoTo, JoinIInv, JoinOK, Phases, RoomLeft, Explained, Going,
        Filling, Rereading
<1>4. CASE NewJoin
  <2>1. Written'
    BY <1>1, <1>4, SameWritten DEF NewJoin, managerVars
  <2>2. input' \in Inputs /\ joins' \in 0 .. MaxJoins
    BY <1>1, <1>4, JoinAssumption DEF NewJoin, JoinOK
  <2>3. rpos' \in 0 .. Len(input'.rhs) /\ lpos' \in 0 .. input'.lhs
    BY <1>4, <2>2, InputTypes DEF NewJoin
  <2>4. at' \in Positions /\ row' \in Rows /\ delivered' \in Seq([lhs : Nat, rhs : Rows])
    BY <1>4, EmptySeq DEF NewJoin, Start, Positions, Rows
  <2>5. JoinOK'
    <3>1. /\ pc' = "left" /\ col' = 1 /\ outcome' = "open"
          /\ fault' = "none"
      BY <1>4 DEF NewJoin
    <3>2. useCache' = FALSE
      BY <1>4 DEF NewJoin
    <3>3. useCache' \in BOOLEAN
      BY <3>2, Zenon
    <3>4. col' \in Nat \ {0}
      BY <3>1
    <3>5. /\ pc' \in {"closed", "left", "right", "copy", "pair", "returned", "release"}
          /\ outcome' \in {"none", "open", "eof", "input", "limit", "value",
                           "condition", "abandoned"}
          /\ fault' \in {"none", "row"}
      BY <3>1
    <3> QED
      BY <2>2, <2>3, <2>4, <3>3, <3>4, <3>5 DEF JoinOK
  <2>6. Held'
    BY <1>4 DEF NewJoin, Held
  <2>7. Phases' /\ RoomLeft' /\ Explained'
    BY <1>1, <1>4, <2>6
    DEF NewJoin, Phases, RoomLeft, Explained, Going, Filling, Rereading
  <2>8. PICK none : none = <<>> /\ none \in [1 .. 0 -> Positions]
    <3>1. 1 .. 0 = {} /\ <<>> \in [{} -> Positions]
      OBVIOUS
    <3> QED
      BY <3>1
  <2>9. Laid(Memory', none, 0, input'.rhs)
    BY <2>8 DEF Laid
  <2>10. Progress(none, 0)'
    <3>1. Ended' = 0 /\ Follows(none)' /\ Reader(none, 0)'
      BY <1>4 DEF NewJoin, Ended, Follows, Reader, Filling, Filled, Rereading
    <3>2. Handed(0)'
      <4>1. CP!Delivered' = {}
        BY <1>4 DEF NewJoin, CP!Delivered
      <4>2. ASSUME NEW p \in CP!Selected'
            PROVE  ~ Met(p, 0)'
        <5>1. p[1] \in 1 .. input'.lhs
          BY DEF CP!Selected
        <5>2. p[1] \in Nat /\ p[1] # 0
          BY <2>2, <5>1, InputTypes
        <5> QED
          BY <1>4, <5>2 DEF NewJoin, Met
      <4> QED
        BY <4>1, <4>2 DEF Handed
    <3> QED
      BY <2>9, <3>1, <3>2 DEF Progress
  <2> QED
    BY <2>1, <2>5, <2>7, <2>10 DEF JoinIInv
<1> QED
  BY <1>2, <1>3, <1>4

LEMMA FaultStep ==
  ASSUME JoinIInv, UseMissingRow \/ UNCHANGED vars
  PROVE  JoinIInv'
<1>1. JoinOK /\ Phases /\ RoomLeft /\ Written /\ Explained
  BY DEF JoinIInv
<1>2. /\ UNCHANGED <<store, cache, sBlockNumber, pc, joins, input, rpos, lpos, col,
                     useCache, at, row, delivered, outcome>>
      /\ fault' = fault \/ (fault' = "row" /\ UseMissingRow)
  BY DEF UseMissingRow, vars, copyVars, managerVars
<1>3. /\ Memory' = Memory /\ (Held' <=> Held) /\ Written'
      /\ (Room(1)' <=> Room(1)) /\ (Room(2)' <=> Room(2))
  BY <1>1, <1>2, SameBlocks, SameWritten
  DEF Room, HasCurrent, Current, NoBlock, BM!NoBlock
<1>4. JoinOK' /\ Phases' /\ RoomLeft'
  BY <1>1, <1>2, <1>3
  DEF JoinOK, Phases, RoomLeft, Going, Filling, Rereading, RightRow
<1>5. Explained'
  <2>1. CASE UseMissingRow
    <3>1. Rereading /\ Going /\ at = Start /\ TagAt(RowStart) = "DD"
      BY <2>1 DEF UseMissingRow, FromBlocks, Rereading, Going
    <3>2. PICK ends, k : Progress(ends, k)
      BY <3>1 DEF JoinIInv
    <3>3. k = 0 /\ rpos = Len(input.rhs)
      BY <1>1, <3>1, <3>2, ReaderAt
    <3>4. rpos = 0
      BY <1>1, <3>1, <3>2, <3>3, ReadsNext
    <3>5. input.rhs = <<>>
      <4>1. input.rhs \in Seq(Seq(Nat) \ {<<>>}) /\ Len(input.rhs) = 0
        BY <1>1, <3>3, <3>4, JoinAssumption DEF JoinOK
      <4> QED
        BY <4>1
    <3>6. input.lhs > 1
      BY <1>1, <3>1, InputTypes DEF Phases, JoinOK
    <3> QED
      BY <1>1, <1>2, <3>5, <3>6 DEF Explained
  <2>2. CASE fault' = fault
    BY <1>1, <1>2, <2>2 DEF Explained
  <2> QED
    BY <1>2, <2>1, <2>2
<1>6. ASSUME NEW ends, NEW k, Progress(ends, k)
      PROVE  Progress(ends, k)'
  <2>1. Follows(ends)' /\ Reader(ends, k)' /\ Ended' = Ended
    BY <1>2, <1>3, <1>6
    DEF Progress, Follows, Reader, Ended, Filling, Filled, Rereading, RightRow
  <2>2. Handed(k)'
    BY <1>1, <1>2, <1>6, SameHanded DEF Progress, Met
  <2> QED
    BY <1>2, <1>3, <1>6, <2>1, <2>2 DEF Progress
<1>7. Going' => \E ends, k : Progress(ends, k)'
  BY <1>2, <1>6 DEF JoinIInv, Going
<1> QED
  BY <1>3, <1>4, <1>5, <1>7 DEF JoinIInv

(* The steps that leave the blocks alone.                                  *)
LEMMA SameState ==
  ASSUME JoinIInv, UNCHANGED copyVars
  PROVE  /\ Written' /\ Memory' = Memory /\ (Held' <=> Held) /\ UNCHANGED cache
         /\ Room(1)' <=> Room(1)
BY SameBlocks, SameWritten DEF JoinIInv, copyVars, managerVars

LEMMA NextLeftStep ==
  ASSUME JoinIInv, NextLeft
  PROVE  JoinIInv'
<1>1. JoinOK /\ Phases /\ Explained /\ pc = "left" /\ Going
  BY DEF JoinIInv, NextLeft, Going
<1>2. Written' /\ Memory' = Memory /\ Held' /\ UNCHANGED cache
  BY <1>1, SameState DEF NextLeft, Phases
<1>3. lpos \in Nat /\ lpos + 1 <= input.lhs /\ input.lhs \in Nat
  BY <1>1, InputTypes DEF JoinOK, NextLeft
<1>4. useCache' <=> lpos > 0
  BY DEF NextLeft
<1>5. /\ UNCHANGED <<input, rpos, col, row, delivered, joins, outcome, fault>>
      /\ pc' = "right" /\ lpos' = lpos + 1 /\ at' = Start
  BY DEF NextLeft, GoTo
<1>6. JoinOK'
  <2>1. useCache' \in BOOLEAN
    <3>1. useCache' = (lpos > 0)
      BY DEF NextLeft
    <3>2. (lpos > 0) \in BOOLEAN
      OBVIOUS
    <3> QED
      BY ONLY <3>1, <3>2
  <2>2. lpos' \in 0 .. input.lhs
    BY <1>3, <1>5
  <2>3. at' \in Positions
    BY <1>5 DEF Start, Positions
  <2> QED
    BY <1>1, <1>5, <2>1, <2>2, <2>3 DEF JoinOK
<1>7. Phases'
  BY <1>1, <1>2, <1>3, <1>4, <1>5 DEF Phases, Going, Filling, Rereading
<1>8. RoomLeft' /\ Explained'
  BY <1>1, <1>2, <1>3, <1>4, <1>5 DEF Phases, RoomLeft, Explained, Filling
<1>9. PICK ends, k : Progress(ends, k)
  BY <1>1 DEF JoinIInv
<1>10. Laid(Memory, ends, Ended, input.rhs)' /\ Ended' = Ended
  BY <1>1, <1>2, <1>5, <1>9 DEF Ended, Progress
<1>11. Follows(ends)'
  <2>1. Filled' => Filled
    BY <1>1, <1>4, <1>5 DEF Filled, Rereading
  <2>2. Filling' => cache' = <<>>
    BY <1>1, <1>2, <1>3, <1>4 DEF Filling, Phases
  <2> QED
    BY <1>2, <1>5, <1>9, <2>1, <2>2 DEF Follows, Progress
<1>12. Reader(ends, 0)'
  <2>1. rpos \in Nat
    BY <1>1, InputTypes DEF JoinOK
  <2>2. Filling' => rpos = 0
    BY <1>1, <1>3, <1>4 DEF Filling, Phases
  <2> QED
    BY <1>5, <2>1, <2>2 DEF Reader
<1>13. Handed(0)'
  <2>1. \A l \in 1 .. input.lhs, r \in 1 .. Len(input.rhs) :
          Met(<<l, r>>, 0)' <=> Met(<<l, r>>, k)
    BY <1>1, <1>3, <1>5, InputTypes DEF Met
  <2> QED
    BY <1>1, <1>5, <1>9, <2>1, SameHanded DEF Progress
<1> QED
  BY <1>2, <1>6, <1>7, <1>8, <1>10, <1>11, <1>12, <1>13 DEF JoinIInv, Progress

LEMMA PullStep ==
  ASSUME Owned, JoinIInv, PullRight
  PROVE  JoinIInv'
<1>1. /\ JoinOK /\ Phases /\ Explained /\ Written
      /\ Filed /\ Stored
      /\ pc = "right" /\ cache # <<>> /\ ~ useCache /\ Going /\ Filling /\ Room(1)
  BY OwnedFiled DEF JoinIInv, PullRight, FromInput, Going, Filling, RoomLeft
<1>2. Written' /\ Memory' = Memory /\ Held' /\ UNCHANGED cache /\ Room(1)'
  BY <1>1, SameState DEF PullRight, Phases
<1>3. PICK n \in Nat : n = rpos /\ n + 1 \in 1 .. Len(input.rhs) /\ Len(input.rhs) \in Nat
  BY <1>1, InputTypes DEF JoinOK, PullRight
<1>4. /\ UNCHANGED <<input, lpos, useCache, at, row, delivered, joins, outcome, fault>>
      /\ pc' = "copy" /\ rpos' = n + 1 /\ col' = 1
  BY <1>3 DEF PullRight, GoTo
<1>5. JoinOK'
  <2>1. rpos' \in 0 .. Len(input.rhs)
    BY <1>3, <1>4
  <2> QED
    BY <1>1, <1>4, <2>1 DEF JoinOK
<1>6. PICK sizes \in Seq(Nat) : sizes = input.rhs[n + 1] /\ Len(sizes) \in Nat
  BY <1>1, <1>3, InputTypes DEF JoinOK
<1>7. RightRow' = sizes
  BY <1>4, <1>6 DEF RightRow
<1>8. Phases'
  BY <1>1, <1>2, <1>3, <1>4, <1>6, <1>7 DEF Phases, Going, Filling, Rereading
<1>9. RoomLeft' /\ Explained'
  BY <1>1, <1>2, <1>4 DEF RoomLeft, Explained
<1>10. PICK ends, k : Progress(ends, k)
  BY <1>1 DEF JoinIInv
<1>11. k = n /\ Begin(ends, n + 1) = EndOf(Memory)
  BY <1>1, <1>3, <1>10 DEF Progress, Reader, Follows
<1>12. Laid(Memory, ends, Ended, input.rhs)'
  <2>1. Ended' = Ended
    BY <1>1, <1>3, <1>4 DEF Ended
  <2> QED
    BY <1>2, <1>4, <1>10, <2>1 DEF Progress
<1>13. Follows(ends)'
  <2>1. Memory \in Memories /\ Memory # <<>>
    BY <1>1, MemoryTypes DEF Phases
  <2>2. Copied(Memory, EndOf(Memory), n + 1, sizes, 0)
    BY <2>1, CopyStarts
  <2> QED
    BY <1>2, <1>4, <1>7, <1>11, <2>2 DEF Follows, Filled, Rereading
<1>14. Reader(ends, n + 1)'
  BY <1>4 DEF Reader, Rereading
<1>15. Handed(n + 1)'
  <2>1. \A l \in 1 .. input.lhs, r \in 1 .. Len(input.rhs) :
          Met(<<l, r>>, n + 1)' <=> Met(<<l, r>>, k)
    BY <1>1, <1>4, <1>11 DEF Met
  <2> QED
    BY <1>1, <1>4, <1>10, <2>1, SameHanded DEF Progress
<1> QED
  BY <1>2, <1>5, <1>8, <1>9, <1>12, <1>13, <1>14, <1>15 DEF JoinIInv, Progress

LEMMA ReadRowStep ==
  ASSUME JoinIInv, ReadRow
  PROVE  JoinIInv'
<1>1. /\ JoinOK /\ Phases /\ Explained
      /\ pc = "right" /\ cache # <<>> /\ useCache /\ Going /\ Rereading
  BY DEF JoinIInv, ReadRow, FromBlocks, Going, Rereading
<1>2. Written' /\ Memory' = Memory /\ Held' /\ UNCHANGED cache
  BY <1>1, SameState DEF ReadRow, Phases
<1>3. PICK ends, k : Progress(ends, k)
  BY <1>1 DEF JoinIInv
<1>4. k # rpos /\ k \in 0 .. rpos /\ rpos = Len(input.rhs) /\ rpos \in Nat
  BY <1>1, <1>3, ReadsNext, ReaderAt DEF ReadRow
<1>5. PICK d \in 1 .. rpos : d = k + 1 /\ d \in Nat /\ k \in Nat
  BY <1>4
<1>6. /\ Fit(input.rhs[d], Len(input.rhs[d]))
      /\ row' = [c \in DOMAIN input.rhs[d] |-> <<d, c>>] /\ at' = ends[d]
  BY <1>1, <1>3, <1>4, <1>5, ReadsNext DEF ReadRow
<1>7. /\ UNCHANGED <<input, rpos, lpos, col, useCache, delivered, joins, outcome, fault>>
      /\ pc' = "pair"
  BY DEF ReadRow, GoTo
<1>8. JoinOK'
  <2>1. row' \in Rows
    <3>1. PICK n \in Nat : DOMAIN input.rhs[d] = 1 .. n
      BY <1>1, <1>4, InputTypes DEF JoinOK
    <3>2. \A c \in 1 .. n : <<d, c>> \in Nat \X Nat
      BY <1>5
    <3>3. [c \in 1 .. n |-> <<d, c>>] \in [1 .. n -> Nat \X Nat]
      BY <3>2
    <3> QED
      BY <1>6, <3>1, <3>3 DEF Rows
  <2>2. at' \in Positions
    <3>1. Ended = rpos
      BY <1>1 DEF Ended
    <3> QED
      BY <1>3, <1>6, <3>1 DEF Progress, Laid
  <2> QED
    BY <1>1, <1>7, <2>1, <2>2 DEF JoinOK
<1>9. Phases'
  BY <1>1, <1>2, <1>7 DEF Phases, Going, Filling, Rereading
<1>10. RoomLeft' /\ Explained'
  BY <1>1, <1>7 DEF RoomLeft, Explained, Filling
<1>11. Laid(Memory, ends, Ended, input.rhs)'
  <2>1. Ended' = Ended
    BY <1>1, <1>7 DEF Ended
  <2> QED
    BY <1>2, <1>3, <1>7, <2>1 DEF Progress
<1>12. Follows(ends)'
  BY <1>1, <1>2, <1>3, <1>7 DEF Progress, Follows, Filling, Filled, Rereading
<1>13. Reader(ends, d)'
  <2>1. d \in 0 .. rpos /\ d >= 1 /\ d # 0
    BY <1>4
  <2>2. \A r \in 1 .. d : Fit(input.rhs[r], Len(input.rhs[r]))
    <3>1. \A r \in 1 .. k : Fit(input.rhs[r], Len(input.rhs[r]))
      BY <1>1, <1>3 DEF Progress, Reader
    <3>2. \A r \in 1 .. d : r = d \/ r \in 1 .. k
      BY <1>5
    <3> QED
      BY <1>6, <3>1, <3>2
  <2> QED
    BY <1>1, <1>6, <1>7, <2>1, <2>2 DEF Reader, Filling
<1>14. Handed(d)'
  <2>1. \A l \in 1 .. input.lhs, r \in 1 .. Len(input.rhs) :
          Met(<<l, r>>, d)' <=> Met(<<l, r>>, k)
    BY <1>1, <1>5, <1>7 DEF Met
  <2> QED
    BY <1>1, <1>3, <1>7, <2>1, SameHanded DEF Progress
<1> QED
  BY <1>2, <1>8, <1>9, <1>10, <1>11, <1>12, <1>13, <1>14 DEF JoinIInv, Progress

LEMMA EndOfBlocksStep ==
  ASSUME JoinIInv, EndOfBlocks
  PROVE  JoinIInv'
<1>1. /\ JoinOK /\ Phases /\ Explained
      /\ pc = "right" /\ cache # <<>> /\ useCache /\ Going /\ Rereading
  BY DEF JoinIInv, EndOfBlocks, FromBlocks, Going, Rereading
<1>2. Written' /\ Memory' = Memory /\ Held' /\ UNCHANGED cache
  BY <1>1, SameState DEF EndOfBlocks, Phases
<1>3. PICK ends, k : Progress(ends, k)
  BY <1>1 DEF JoinIInv
<1>4. PICK n \in Nat : n = k /\ n = rpos /\ rpos = Len(input.rhs)
  BY <1>1, <1>3, ReadsNext, ReaderAt DEF EndOfBlocks
<1>5. /\ UNCHANGED <<input, rpos, lpos, col, useCache, at, row, delivered, joins,
                     outcome, fault>>
      /\ pc' = "left"
  BY DEF EndOfBlocks, GoTo
<1>6. lpos \in Nat /\ lpos > 1
  BY <1>1, InputTypes DEF JoinOK, Phases
<1>7. JoinOK'
  BY <1>1, <1>5 DEF JoinOK
<1>8. Phases'
  BY <1>1, <1>2, <1>5, <1>6 DEF Phases, Going, Filling, Rereading
<1>9. RoomLeft' /\ Explained'
  BY <1>1, <1>5 DEF RoomLeft, Explained, Filling
<1>10. Laid(Memory, ends, Ended, input.rhs)'
  <2>1. Ended' = Ended
    BY <1>1, <1>5 DEF Ended
  <2> QED
    BY <1>2, <1>3, <1>5, <2>1 DEF Progress
<1>11. Follows(ends)'
  BY <1>1, <1>2, <1>3, <1>5 DEF Progress, Follows, Filling, Filled, Rereading
<1>12. Reader(ends, n)'
  BY <1>4, <1>5 DEF Reader, Filling, Rereading
<1>13. Handed(n)'
  <2>1. \A l \in 1 .. input.lhs, r \in 1 .. Len(input.rhs) :
          Met(<<l, r>>, n)' <=> Met(<<l, r>>, k)
    BY <1>1, <1>4, <1>5, <1>6, InputTypes DEF Met
  <2> QED
    BY <1>1, <1>3, <1>5, <2>1, SameHanded DEF Progress
<1> QED
  BY <1>2, <1>7, <1>8, <1>9, <1>10, <1>11, <1>12, <1>13 DEF JoinIInv, Progress

(* The pair that the condition is asked about.                             *)
LEMMA PairMet ==
  ASSUME JoinOK, Phases, NEW ends, NEW k, Progress(ends, k),
         pc \in {"pair", "returned"}
  PROVE  /\ k \in 1 .. Len(input.rhs) /\ k \in Nat /\ lpos \in 1 .. input.lhs
         /\ Pair = <<lpos, k>>
         /\ [lhs |-> lpos, rhs |-> row] = CP!Joined(<<lpos, k>>)
<1>1. rpos \in Nat /\ rpos <= Len(input.rhs) /\ Len(input.rhs) \in Nat
  BY InputTypes DEF JoinOK
<1>2. /\ k \in 0 .. rpos /\ k >= 1
      /\ row = [c \in DOMAIN input.rhs[k] |-> <<k, c>>]
  BY DEF Progress, Reader
<1>3. PICK r \in 1 .. Len(input.rhs) : r = k /\ r \in Nat
  BY <1>1, <1>2
<1>4. 1 \in DOMAIN input.rhs[r]
  <2>1. PICK n \in Nat \ {0} : DOMAIN input.rhs[r] = 1 .. n
    BY InputTypes DEF JoinOK
  <2> QED
    BY <2>1
<1>5. row[1] = <<r, 1>>
  BY <1>2, <1>3, <1>4
<1>6. lpos \in 1 .. input.lhs
  <2>1. lpos \in Nat /\ lpos <= input.lhs /\ input.lhs \in Nat
    BY InputTypes DEF JoinOK
  <2>2. lpos >= 1
    BY <2>1 DEF JoinOK, Phases, Filling, Rereading
  <2> QED
    BY <2>1, <2>2
<1>7. [lhs |-> lpos, rhs |-> row] = CP!Joined(<<lpos, r>>)
  BY <1>2, <1>3 DEF CP!Joined
<1> QED
  BY <1>3, <1>5, <1>6, <1>7 DEF Pair

LEMMA Appended ==
  ASSUME NEW S, delivered \in Seq(S), NEW x \in S, delivered' = Append(delivered, x)
  PROVE  delivered' \in Seq(S) /\ CP!Delivered' = CP!Delivered \cup {x}
<1>1. PICK s \in Seq(S) : s = delivered
  OBVIOUS
<1>2. PICK n \in Nat : n = Len(s) /\ DOMAIN s = 1 .. n
  OBVIOUS
<1>3. /\ Append(s, x) \in Seq(S) /\ DOMAIN Append(s, x) = 1 .. n + 1
      /\ \A i \in 1 .. n : Append(s, x)[i] = s[i]
      /\ Append(s, x)[n + 1] = x
  BY <1>2, AppendProperties
<1>4. (1 .. n + 1) = (1 .. n) \cup {n + 1}
  OBVIOUS
<1>5. PICK t : t = Append(s, x) /\ t = delivered'
  BY <1>1
<1>6. {t[i] : i \in 1 .. n + 1} = {s[i] : i \in 1 .. n} \cup {x}
  BY <1>3, <1>4, <1>5
<1> QED
  BY <1>1, <1>2, <1>3, <1>5, <1>6 DEF CP!Delivered

LEMMA PairStep ==
  ASSUME JoinIInv, Deliver \/ SkipPair \/ CallAgain
  PROVE  JoinIInv'
<1>1. /\ JoinOK /\ Phases /\ RoomLeft /\ Explained
      /\ pc \in {"pair", "returned"} /\ Going
  BY DEF JoinIInv, Deliver, SkipPair, CallAgain, Going
<1>2. /\ Written' /\ Memory' = Memory /\ Held' /\ UNCHANGED cache
      /\ Room(1)' <=> Room(1)
  BY <1>1, SameState DEF Deliver, SkipPair, CallAgain, Phases
<1>3. PICK ends, k : Progress(ends, k)
  BY <1>1 DEF JoinIInv
<1>4. /\ k \in 1 .. Len(input.rhs) /\ k \in Nat /\ lpos \in 1 .. input.lhs
      /\ lpos \in Nat /\ Pair = <<lpos, k>>
      /\ [lhs |-> lpos, rhs |-> row] = CP!Joined(<<lpos, k>>)
  BY <1>1, <1>3, PairMet, InputTypes DEF JoinOK
<1>5. PICK l0 \in 1 .. input.lhs, k0 \in 1 .. Len(input.rhs) :
        l0 = lpos /\ k0 = k /\ l0 \in Nat /\ k0 \in Nat
  BY <1>4
<1>6. /\ UNCHANGED <<input, rpos, lpos, col, useCache, at, row, joins, outcome, fault>>
      /\ pc' = IF Deliver THEN "returned" ELSE "right"
  BY DEF Deliver, SkipPair, CallAgain, GoTo
<1>7. pc' \in {"right", "returned"} /\ pc' # "copy" /\ pc' # "pair" /\ pc' # "left"
  BY <1>6
<1>8. delivered' \in Seq([lhs : Nat, rhs : Rows])
  <2>1. CASE Deliver
    <3>1. delivered' = Append(delivered, [lhs |-> lpos, rhs |-> row])
      BY <2>1 DEF Deliver
    <3>2. [lhs |-> lpos, rhs |-> row] \in [lhs : Nat, rhs : Rows]
      BY <1>1, <1>4 DEF JoinOK
    <3> QED
      BY <1>1, <3>1, <3>2, Appended DEF JoinOK
  <2>2. CASE SkipPair \/ CallAgain
    BY <1>1, <2>2 DEF SkipPair, CallAgain, JoinOK
  <2> QED
    BY <2>1, <2>2
<1>9. JoinOK'
  BY <1>1, <1>6, <1>7, <1>8 DEF JoinOK
<1>10. (Filling' <=> Filling) /\ (Rereading' <=> Rereading)
  BY <1>1, <1>6, <1>7 DEF Filling, Rereading
<1>11. Phases'
  BY <1>1, <1>2, <1>6, <1>7, <1>10 DEF Phases, Going
<1>12. RoomLeft' /\ Explained'
  BY <1>1, <1>2, <1>6, <1>7, <1>10 DEF RoomLeft, Explained
<1>13. Laid(Memory, ends, Ended, input.rhs)'
  <2>1. Ended' = Ended
    BY <1>1, <1>6, <1>7 DEF Ended
  <2> QED
    BY <1>2, <1>3, <1>6, <2>1 DEF Progress
<1>14. Follows(ends)'
  BY <1>1, <1>2, <1>3, <1>6, <1>7, <1>10 DEF Progress, Follows, Filled
<1>15. Reader(ends, k)'
  BY <1>1, <1>3, <1>6, <1>7, <1>10 DEF Progress, Reader
<1>16. Handed(k0)'
  <2>1. CASE Deliver
    <3>1. /\ <<l0, k0>> \in CP!Selected /\ pc = "pair"
          /\ CP!Delivered' = CP!Delivered \cup {CP!Joined(<<l0, k0>>)}
      <4>1. delivered' = Append(delivered, CP!Joined(<<l0, k0>>))
        BY <1>4, <1>5, <2>1 DEF Deliver
      <4>2. CP!Joined(<<l0, k0>>) \in [lhs : Nat, rhs : Rows]
        <5>1. [lhs |-> lpos, rhs |-> row] \in [lhs : Nat, rhs : Rows]
          BY <1>1, <1>4 DEF JoinOK
        <5> QED
          BY <1>4, <1>5, <5>1
      <4> QED
        BY <1>1, <1>4, <1>5, <2>1, <4>1, <4>2, Appended DEF Deliver, JoinOK, CP!Selected
    <3>2. ASSUME NEW p \in CP!Selected
          PROVE  CP!Joined(p) \in CP!Delivered' <=> Met(p, k0)'
      <4>1. CP!Joined(p) \in CP!Delivered' <=>
              CP!Joined(p) \in CP!Delivered \/ p = <<l0, k0>>
        BY <1>1, <3>1, JoinedDiffer DEF JoinOK
      <4>2. PICK l \in 1 .. input.lhs, r \in 1 .. Len(input.rhs) : p = <<l, r>>
        BY DEF CP!Selected
      <4>3. Met(<<l, r>>, k0)' <=> Met(<<l, r>>, k0) \/ (l = l0 /\ r = k0)
        BY <1>5, <1>6, <1>7, <3>1 DEF Met
      <4>4. p = <<l0, k0>> <=> l = l0 /\ r = k0
        BY <4>2
      <4>5. CP!Joined(p) \in CP!Delivered <=> Met(p, k0)
        BY <1>3, <1>5 DEF Progress, Handed
      <4> QED
        BY <4>1, <4>2, <4>3, <4>4, <4>5
    <3> QED
      BY <1>6, <3>2 DEF Handed, CP!Selected, CP!Joined
  <2>2. CASE SkipPair
    <3>1. <<l0, k0>> \notin CP!Selected /\ pc = "pair" /\ UNCHANGED delivered
      BY <1>4, <1>5, <2>2 DEF SkipPair, CP!Selected
    <3>2. ASSUME NEW p \in CP!Selected
          PROVE  CP!Joined(p) \in CP!Delivered <=> Met(p, k0)'
      <4>1. PICK l \in 1 .. input.lhs, r \in 1 .. Len(input.rhs) : p = <<l, r>>
        BY DEF CP!Selected
      <4>2. ~ (l = l0 /\ r = k0)
        BY <3>1, <4>1
      <4>3. Met(<<l, r>>, k0)' <=> Met(<<l, r>>, k0)
        BY <1>5, <1>6, <1>7, <3>1, <4>2 DEF Met
      <4>4. CP!Joined(p) \in CP!Delivered <=> Met(p, k0)
        BY <1>3, <1>5 DEF Progress, Handed
      <4> QED
        BY <4>1, <4>3, <4>4
    <3> QED
      BY <1>6, <3>1, <3>2 DEF Handed, CP!Selected, CP!Joined, CP!Delivered
  <2>3. CASE CallAgain
    <3>1. pc = "returned" /\ UNCHANGED delivered
      BY <2>3 DEF CallAgain
    <3>2. \A l \in 1 .. input.lhs, r \in 1 .. Len(input.rhs) :
            Met(<<l, r>>, k0)' <=> Met(<<l, r>>, k0)
      BY <1>6, <1>7, <3>1 DEF Met
    <3> QED
      BY <1>1, <1>3, <1>5, <1>6, <3>1, <3>2, SameHanded DEF Progress
  <2> QED
    BY <2>1, <2>2, <2>3
<1> QED
  BY <1>2, <1>5, <1>9, <1>11, <1>12, <1>13, <1>14, <1>15, <1>16
  DEF JoinIInv, Progress

(* The steps that write.                                                   *)
LEMMA FirstBlockStep ==
  ASSUME Owned, JoinIInv, FirstBlock
  PROVE  JoinIInv'
<1>1. /\ JoinOK /\ Phases /\ Explained /\ Written /\ Held
      /\ Filed /\ Stored
      /\ pc = "right" /\ cache = <<>> /\ rpos = 0 /\ ~ useCache /\ Going /\ Filling
  BY OwnedFiled DEF JoinIInv, FirstBlock, Going, Filling, Phases
<1>2. PICK content \in Contents :
        /\ content = Empty /\ content.used = 0 /\ content.used <= Capacity
        /\ content.cells = <<>> /\ content.cells \in Seq(Cells)
  <2>1. Empty \in Contents /\ Empty.used = 0 /\ Empty.cells = <<>>
    BY ContentTypes DEF Empty
  <2>2. Empty.used <= Capacity
    BY <2>1, CopiesAssumption
  <2>3. Empty.cells \in Seq(Cells)
    BY <2>1, EmptySeq
  <2> QED
    BY <2>1, <2>2, <2>3
<1>3. PushBlock(content)
  BY <1>2 DEF FirstBlock
<1>4. Written' /\ Room(1)'
  <2>1. Written' /\ HasCurrent' /\ Current' = content
    BY <1>1, <1>2, <1>3, PushKeeps
  <2> QED
    BY <1>2, <2>1, CopiesAssumption DEF Room
<1>5. Held' /\ cache' # <<>> /\ Memory' = Append(<<>>, <<>>)
  BY <1>1, <1>2, <1>3, PushWrites
<1>6. EndOf(Memory') = Start
  <2>1. PICK mem : mem = Memory' /\ mem = <<<<>>>>
    BY <1>5
  <2>2. Len(mem) = 1 /\ Len(mem[1]) = 0
    BY <2>1
  <2> QED
    BY <2>1, <2>2 DEF EndOf, Start
<1>7. /\ UNCHANGED <<input, pc, rpos, lpos, col, useCache, at, row, delivered,
                     joins, outcome, fault>>
  BY <1>1 DEF FirstBlock, GoTo
<1>8. JoinOK' /\ Phases' /\ RoomLeft' /\ Explained'
  BY <1>1, <1>4, <1>5, <1>7
  DEF JoinOK, Phases, RoomLeft, Explained, Going, Filling, Rereading
<1>9. PICK ends, k : Progress(ends, k)
  BY <1>1 DEF JoinIInv
<1>10. Laid(Memory, ends, Ended, input.rhs)' /\ Ended' = 0
  <2>1. Ended = 0 /\ Ended' = 0
    BY <1>1, <1>7 DEF Ended
  <2>2. ends \in [1 .. 0 -> Positions]
    BY <1>9, <2>1 DEF Progress, Laid
  <2> QED
    BY <2>1, <2>2 DEF Laid
<1>11. Follows(ends)'
  BY <1>1, <1>6, <1>7 DEF Follows, Filled, Rereading, Begin
<1>12. Reader(ends, k)'
  BY <1>7, <1>9 DEF Progress, Reader, Filling, Rereading
<1>13. Handed(k)'
  BY <1>1, <1>7, <1>9, SameHanded DEF Progress, Met
<1> QED
  BY <1>4, <1>8, <1>10, <1>11, <1>12, <1>13 DEF JoinIInv, Progress

LEMMA CopyStep ==
  ASSUME Owned, JoinIInv, CopyValue \/ CopyToNextBlock
  PROVE  JoinIInv'
<1>1. /\ JoinOK /\ Phases /\ RoomLeft /\ Explained /\ Written /\ Held
      /\ Filed /\ Stored
      /\ Copy /\ pc = "copy" /\ col <= Len(RightRow)
      /\ cache # <<>> /\ ~ useCache /\ Going /\ Filling
  BY OwnedFiled DEF JoinIInv, CopyValue, CopyToNextBlock, Copy, Copying, Going, Filling, Phases
<1>2. PICK n \in Nat : n = rpos /\ n \in 1 .. Len(input.rhs) /\ Len(input.rhs) \in Nat
  BY <1>1, CopiedRow, InputTypes DEF JoinOK
<1>3. PICK sizes \in Seq(Nat) \ {<<>>} :
        sizes = RightRow /\ sizes = input.rhs[n] /\ Len(sizes) \in Nat
  BY <1>1, <1>2, CopiedRow
<1>4. PICK c \in Nat : c + 1 = col /\ col - 1 = c /\ c + 1 \in Nat
  <2>1. col - 1 \in Nat /\ col = (col - 1) + 1
    BY <1>1 DEF JoinOK
  <2> QED
    BY <2>1
<1>5. sizes[c + 1] \in Nat
  BY <1>1, <1>3, <1>4, CopiedRow
<1>6. Room(1)
  BY <1>1, CurrentExists, CopiesAssumption DEF RoomLeft, Room
<1>7. PICK ends, k : Progress(ends, k)
  BY <1>1 DEF JoinIInv
<1>8. PICK m \in Nat : m = n - 1 /\ m \in 0 .. Len(input.rhs) /\ n \in 1 .. m + 1
  BY <1>2
<1>9. Laid(Memory, ends, m, input.rhs) /\ Ended = m
  BY <1>1, <1>2, <1>7, <1>8 DEF Progress, Ended
<1>10. PICK p \in Positions : p = Begin(ends, n)
  BY <1>8, <1>9, BeginTypes DEF Laid
<1>11. Copied(Memory, p, n, sizes, c)
  BY <1>1, <1>2, <1>3, <1>4, <1>7, <1>10 DEF Progress, Follows
<1>12. /\ Written' /\ Room(2)' /\ Held' /\ cache' # <<>>
       /\ Copied(Memory', p, n, sizes, c + 1) /\ Grows(Memory, Memory')
  <2>1. CASE CopyValue
    <3>1. AddToCurrent(n, c + 1, sizes[c + 1])
      BY <1>2, <1>3, <1>4, <2>1 DEF CopyValue
    <3>2. Written' /\ Room(2)'
      BY <1>1, <1>4, <1>5, <1>6, <3>1, AddKeeps DEF Room
    <3>3. Copied(Memory', p, n, sizes, c + 1) /\ Held' /\ cache' # <<>>
      BY <1>1, <1>5, <1>11, <3>1, CopiedAdds
    <3>4. Grows(Memory, Memory')
      BY <1>1, <1>4, <1>5, <3>1, AddGrows
    <3> QED
      BY <3>2, <3>3, <3>4
  <2>2. CASE CopyToNextBlock
    <3>1. AddToNext(n, c + 1, sizes[c + 1])
      BY <1>2, <1>3, <1>4, <2>2 DEF CopyToNextBlock
    <3>2. PICK content \in Contents :
            /\ content = Opened(n, c + 1, sizes[c + 1])
            /\ content.used + 2 <= Capacity
      BY <1>4, <1>5, ContentTypes
    <3>3. content.used <= Capacity /\ PushBlock(content)
      BY <3>1, <3>2, CopiesAssumption DEF Contents, AddToNext
    <3>4. Written' /\ Room(2)'
      BY <1>1, <1>6, <3>2, <3>3, PushKeeps DEF Room
    <3>5. Copied(Memory', p, n, sizes, c + 1) /\ Held' /\ cache' # <<>>
      BY <1>1, <1>11, <3>1, CopiedNext
    <3>6. Grows(Memory, Memory')
      BY <1>1, <1>4, <1>5, <3>1, NextGrows
    <3> QED
      BY <3>4, <3>5, <3>6
  <2> QED
    BY <2>1, <2>2
<1>13. /\ UNCHANGED <<input, pc, rpos, lpos, useCache, at, row, delivered, joins,
                      outcome, fault>>
       /\ col' = (c + 1) + 1 /\ col' - 1 = c + 1
  BY <1>1, <1>4 DEF Copy, GoTo
<1>14. RightRow' = sizes /\ col' <= Len(sizes) + 1 /\ col' # 1 /\ col' \in Nat \ {0}
  <2>1. RightRow' = sizes
    BY <1>3, <1>13 DEF RightRow
  <2>2. c + 1 <= Len(sizes) /\ (c + 1) + 1 \in Nat \ {0} /\ (c + 1) + 1 # 1
    BY <1>1, <1>3, <1>4
  <2> QED
    BY <1>3, <1>4, <1>13, <2>1, <2>2
<1>15. JoinOK' /\ RoomLeft' /\ Explained'
  BY <1>1, <1>12, <1>13, <1>14 DEF JoinOK, RoomLeft, Explained
<1>16. Phases'
  BY <1>1, <1>3, <1>12, <1>13, <1>14 DEF Phases, Going, Filling, Rereading
<1>17. Laid(Memory', ends, m, input.rhs)
  BY <1>1, <1>8, <1>9, <1>12, LaidGrows DEF JoinOK
<1>18. Laid(Memory, ends, Ended, input.rhs)'
  BY <1>9, <1>13, <1>17 DEF Ended
<1>19. Follows(ends)'
  BY <1>1, <1>2, <1>10, <1>12, <1>13, <1>14 DEF Follows, Filled, Rereading
<1>20. Reader(ends, k)'
  BY <1>1, <1>7, <1>13 DEF Progress, Reader, Filling, Rereading
<1>21. Handed(k)'
  BY <1>1, <1>7, <1>13, SameHanded DEF Progress, Met
<1> QED
  BY <1>12, <1>15, <1>16, <1>18, <1>19, <1>20, <1>21 DEF JoinIInv, Progress

LEMMA EndRowStep ==
  ASSUME Owned, JoinIInv, EndRow
  PROVE  JoinIInv'
<1>1. /\ JoinOK /\ Phases /\ RoomLeft /\ Explained /\ Written /\ Held
      /\ Filed /\ Stored
      /\ pc = "copy" /\ col > Len(RightRow) /\ WriteMark("BB")
      /\ cache # <<>> /\ ~ useCache /\ Going /\ Filling
  BY OwnedFiled DEF JoinIInv, EndRow, Going, Filling, Phases
<1>2. PICK n \in Nat : n = rpos /\ n \in 1 .. Len(input.rhs) /\ Len(input.rhs) \in Nat
  BY <1>1, CopiedRow, InputTypes DEF JoinOK
<1>3. PICK sizes \in Seq(Nat) \ {<<>>} :
        /\ sizes = RightRow /\ sizes = input.rhs[n] /\ Len(sizes) \in Nat \ {0}
        /\ DOMAIN sizes = 1 .. Len(sizes)
  BY <1>1, <1>2, CopiedRow
<1>4. col - 1 = Len(sizes) /\ col # 1
  BY <1>1, <1>3 DEF JoinOK, Phases
<1>5. PICK ends, k : Progress(ends, k)
  BY <1>1 DEF JoinIInv
<1>6. PICK m \in Nat : m + 1 = n /\ m = n - 1 /\ m \in 0 .. Len(input.rhs)
  <2>1. n - 1 \in Nat /\ (n - 1) + 1 = n /\ n - 1 \in 0 .. Len(input.rhs)
    BY <1>2
  <2> QED
    BY <2>1
<1>7. Laid(Memory, ends, m, input.rhs) /\ k = n
  BY <1>1, <1>2, <1>5, <1>6 DEF Progress, Ended, Reader
<1>8. PICK p \in Positions : p = Begin(ends, n)
  BY <1>6, <1>7, BeginTypes DEF Laid
<1>9. Copied(Memory, p, n, sizes, Len(sizes))
  BY <1>1, <1>2, <1>3, <1>4, <1>5, <1>8 DEF Progress, Follows
<1>10. PICK q \in Positions : q = EndOf(Memory)
  BY <1>1, MemoryTypes, EndPosition
<1>11. /\ Spans(Memory', p, q, n, sizes) /\ EndOf(Memory') = After(q)
       /\ Held' /\ cache' # <<>> /\ Grows(Memory, Memory')
  <2>1. Spans(Memory', p, q, n, sizes) /\ EndOf(Memory') = After(q)
    BY <1>1, <1>9, <1>10, CopiedEnds
  <2>2. Held' /\ cache' # <<>> /\ Grows(Memory, Memory')
    BY <1>1, MarkWrites, MarkGrows DEF WriteMark
  <2> QED
    BY <2>1, <2>2
<1>12. Written' /\ Room(1)'
  <2>1. Room(2)
    BY <1>1, <1>4 DEF RoomLeft
  <2> QED
    BY <1>1, <2>1, MarkKeeps
<1>13. /\ UNCHANGED <<input, rpos, lpos, col, useCache, at, delivered, joins,
                      outcome, fault>>
       /\ pc' = "pair" /\ row' = [c \in DOMAIN sizes |-> <<n, c>>]
  BY <1>2, <1>3 DEF EndRow, GoTo
<1>14. JoinOK'
  <2>1. PICK w \in Nat : w = Len(sizes) /\ DOMAIN sizes = 1 .. w
    BY <1>3
  <2>2. \A c \in 1 .. w : <<n, c>> \in Nat \X Nat
    BY <1>2
  <2>3. [c \in 1 .. w |-> <<n, c>>] \in [1 .. w -> Nat \X Nat]
    BY <2>2
  <2>4. row' \in Rows
    BY <1>13, <2>1, <2>3 DEF Rows
  <2> QED
    BY <1>1, <1>13, <2>4 DEF JoinOK
<1>15. Phases' /\ RoomLeft' /\ Explained'
  BY <1>1, <1>11, <1>12, <1>13
  DEF Phases, RoomLeft, Explained, Going, Filling, Rereading
<1> DEFINE longer == [r \in 1 .. n |-> IF r = n THEN q ELSE ends[r]]
<1>16. longer \in [1 .. n -> Positions] /\ longer[n] = q
       /\ \A r \in 1 .. m : longer[r] = ends[r]
  <2>1. \A r \in 1 .. m : r \in 1 .. n /\ r # n
    BY <1>2, <1>6
  <2>2. \A r \in 1 .. n : r # n => r \in 1 .. m
    BY <1>2, <1>6
  <2>3. \A r \in 1 .. m : ends[r] \in Positions
    BY <1>7 DEF Laid
  <2>4. longer \in [1 .. n -> Positions]
    BY <2>2, <2>3
  <2> QED
    BY <1>2, <2>1, <2>4
<1>17. \A r \in 1 .. n : Begin(longer, r) = Begin(ends, r)
  <2>1. \A r \in 1 .. n : r = 1 \/ r - 1 \in 1 .. m
    BY <1>2, <1>6
  <2> HIDE DEF longer
  <2> QED
    BY <1>16, <2>1 DEF Begin
<1> HIDE DEF longer
<1>18. Laid(Memory', ends, m, input.rhs)
  BY <1>1, <1>6, <1>7, <1>11, LaidGrows DEF JoinOK
<1>19. Laid(Memory', longer, n, input.rhs)
  <2>1. ASSUME NEW r \in 1 .. n
        PROVE  Spans(Memory', Begin(longer, r), longer[r], r, input.rhs[r])
    <3>1. CASE r = n
      BY <1>3, <1>8, <1>11, <1>16, <1>17, <3>1
    <3>2. CASE r # n
      <4>1. r \in 1 .. m
        BY <1>2, <1>6, <3>2
      <4>2. Begin(longer, r) = Begin(ends, r) /\ longer[r] = ends[r]
        BY <1>16, <1>17, <4>1
      <4> QED
        BY <1>18, <4>1, <4>2 DEF Laid
    <3> QED
      BY <3>1, <3>2
  <2> QED
    BY <1>16, <2>1 DEF Laid
<1>20. Laid(Memory, longer, Ended, input.rhs)'
  BY <1>2, <1>13, <1>19 DEF Ended
<1>21. Follows(longer)'
  <2>1. Begin(longer, n + 1) = After(q)
    <3>1. n + 1 # 1 /\ (n + 1) - 1 = n
      BY <1>2
    <3> QED
      BY <1>16, <3>1 DEF Begin
  <2> QED
    BY <1>1, <1>2, <1>11, <1>13, <2>1 DEF Follows, Filled, Rereading
<1>22. Reader(longer, n)'
  BY <1>1, <1>2, <1>3, <1>13 DEF Reader, Rereading
<1>23. Handed(n)'
  BY <1>1, <1>5, <1>7, <1>13, SameHanded DEF Progress, Met
<1> QED
  BY <1>11, <1>12, <1>14, <1>15, <1>20, <1>21, <1>22, <1>23 DEF JoinIInv, Progress

LEMMA EndOfRightStep ==
  ASSUME Owned, JoinIInv, EndOfRight
  PROVE  JoinIInv'
<1>1. /\ JoinOK /\ Phases /\ RoomLeft /\ Explained /\ Written /\ Held
      /\ Filed /\ Stored
      /\ pc = "right" /\ rpos = Len(input.rhs) /\ WriteMark("DD")
      /\ cache # <<>> /\ ~ useCache /\ Going /\ Filling
  BY OwnedFiled DEF JoinIInv, EndOfRight, FromInput, Going, Filling, Phases
<1>2. PICK n \in Nat : n = rpos /\ n = Len(input.rhs)
  BY <1>1, InputTypes DEF JoinOK
<1>3. PICK ends, k : Progress(ends, k)
  BY <1>1 DEF JoinIInv
<1>4. k = n /\ Begin(ends, n + 1) = EndOf(Memory) /\ Laid(Memory, ends, n, input.rhs)
  BY <1>1, <1>2, <1>3 DEF Progress, Reader, Follows, Ended
<1>5. PICK cell \in Cells : cell = Mark("DD", 0, 0) /\ cell.tag = "DD"
  <2>1. Mark("DD", 0, 0) \in Cells /\ Mark("DD", 0, 0).tag = "DD"
    BY DEF Mark, Cells
  <2> QED
    BY <2>1
<1>6. Memory' = Put(Memory, cell) /\ Held' /\ cache' # <<>>
  BY <1>1, <1>5, MarkWrites DEF WriteMark
<1>7. /\ IsIn(Memory', EndOf(Memory)) /\ CellIn(Memory', EndOf(Memory)).tag = "DD"
      /\ Grows(Memory, Memory')
  BY <1>1, <1>5, <1>6, MemoryTypes, PutCell
<1>8. Written'
  BY <1>1, MarkKeeps DEF RoomLeft
<1>9. /\ UNCHANGED <<input, rpos, lpos, col, useCache, at, row, delivered, joins,
                     outcome, fault>>
      /\ pc' = "left" /\ lpos = 1
  BY <1>1 DEF EndOfRight, GoTo, Phases
<1>10. JoinOK' /\ Phases' /\ RoomLeft' /\ Explained'
  BY <1>1, <1>6, <1>9
  DEF JoinOK, Phases, RoomLeft, Explained, Going, Filling, Rereading
<1>11. Laid(Memory, ends, Ended, input.rhs)'
  <2>1. Laid(Memory', ends, n, input.rhs)
    BY <1>1, <1>2, <1>4, <1>7, LaidGrows DEF JoinOK
  <2> QED
    BY <1>2, <1>9, <2>1 DEF Ended
<1>12. Follows(ends)'
  BY <1>2, <1>4, <1>7, <1>9 DEF Follows, Filling
<1>13. Reader(ends, n)'
  <2>1. n \in 0 .. rpos'
    <3>1. rpos' = n
      BY <1>2, <1>9
    <3>2. n \in 0 .. n
      OBVIOUS
    <3> QED
      BY <3>1, <3>2
  <2>2. ~ Filling' /\ ~ Rereading' /\ pc' \notin {"pair", "returned"}
    BY <1>9 DEF Filling, Rereading
  <2> QED
    BY <2>1, <2>2 DEF Reader
<1>14. Handed(n)'
  <2>1. \A l \in 1 .. input.lhs, r \in 1 .. Len(input.rhs) :
          Met(<<l, r>>, n)' <=> Met(<<l, r>>, k)
    BY <1>1, <1>2, <1>4, <1>9 DEF Met
  <2> QED
    BY <1>1, <1>3, <1>9, <2>1, SameHanded DEF Progress
<1> QED
  BY <1>6, <1>8, <1>10, <1>11, <1>12, <1>13, <1>14 DEF JoinIInv, Progress

LEMMA JoinIInvStep ==
  ASSUME Ownership, JoinIInv, [Next]_vars
  PROVE  JoinIInv'
<1>1. Owned
  BY DEF Ownership
<1>2. CASE UNCHANGED vars \/ UseMissingRow
  BY <1>2, FaultStep
<1>3. CASE fault = "none" /\ (ReleaseBlocks \/ Close \/ NewJoin)
  BY <1>1, <1>3, OutsideStep
<1>4. CASE \/ EndOfLeft \/ FirstBlockThrows \/ CopyThrows \/ InputThrows
           \/ ReadRowThrows \/ ConditionThrows \/ Abandon
  BY <1>1, <1>4, StopsStep
<1>5. CASE NextLeft \/ PullRight \/ ReadRow \/ EndOfBlocks
  BY <1>1, <1>5, NextLeftStep, PullStep, ReadRowStep, EndOfBlocksStep
<1>6. CASE Deliver \/ SkipPair \/ CallAgain
  BY <1>6, PairStep
<1>7. CASE FirstBlock \/ CopyValue \/ CopyToNextBlock \/ EndRow \/ EndOfRight
  BY <1>1, <1>7, FirstBlockStep, CopyStep, EndRowStep, EndOfRightStep
<1> QED
  BY <1>2, <1>3, <1>4, <1>5, <1>6, <1>7 DEF Next, Join, Stopped

LEMMA SpecJoin == Spec => [](Ownership /\ JoinIInv)
<1>1. Ownership /\ Ownership' /\ JoinIInv /\ [Next]_vars => JoinIInv'
  BY JoinIInvStep
<1> QED
  BY <1>1, InitJoin, SpecOwnership, PTL DEF Spec

(* A value is missing, or a row that the join takes for granted, only      *)
(* where a second left row meets a right input with a value that fits into *)
(* no block, or one without rows; and all variables keep their types.      *)
THEOREM FailuresExplainedHolds == Spec => []FailuresExplained
<1>1. Ownership /\ BM!TypeOK /\ JoinIInv => FailuresExplained
  BY DEF Ownership, Owned, JoinIInv, JoinOK, Positions, Written, CopiesOK,
         TypeOK, Explained, FailuresExplained
<1> QED
  BY <1>1, SpecJoin, ManagerRefined, ManagerTypes, PTL
-----------------------------------------------------------------------------
(* The join of the code and what a join promises.                          *)

LEMMA DeliverDelivers ==
  ASSUME JoinIInv, Deliver
  PROVE  CP!Deliver
<1>1. JoinOK /\ Phases /\ Going /\ pc = "pair" /\ outcome = "open"
  BY DEF JoinIInv, Deliver, Going, Phases
<1>2. PICK ends, k : Progress(ends, k)
  BY <1>1 DEF JoinIInv
<1>3. /\ k \in 1 .. Len(input.rhs) /\ k \in Nat /\ lpos \in 1 .. input.lhs
      /\ Pair = <<lpos, k>>
      /\ [lhs |-> lpos, rhs |-> row] = CP!Joined(<<lpos, k>>)
  BY <1>1, <1>2, PairMet
<1>4. PICK l \in 1 .. input.lhs, r \in 1 .. Len(input.rhs) :
        l = lpos /\ r = k /\ l \in Nat /\ r \in Nat
  BY <1>1, <1>3, InputTypes DEF JoinOK
<1>5. /\ <<l, r>> \in CP!Selected
      /\ delivered' = Append(delivered, CP!Joined(<<l, r>>))
      /\ UNCHANGED <<input, outcome>>
  BY <1>3, <1>4 DEF Deliver, GoTo, CP!Selected
<1>6. \A p \in CP!Selected : CP!Joined(p) \in CP!Delivered <=> Met(p, r)
  BY <1>2, <1>4 DEF Progress, Handed
<1>7. ~ Met(<<l, r>>, r)
  BY <1>1, <1>4 DEF Met
<1>8. ASSUME NEW p \in CP!Selected, CP!Before(p, <<l, r>>)
      PROVE  Met(p, r)
  <2>1. p[1] < l \/ (p[1] = l /\ p[2] < r)
    BY <1>8 DEF CP!Before
  <2> QED
    BY <1>4, <2>1 DEF Met
<1>9. CP!Joined(<<l, r>>) \notin CP!Delivered
  BY <1>5, <1>6, <1>7
<1>10. \A p \in CP!Selected : CP!Before(p, <<l, r>>) => CP!Joined(p) \in CP!Delivered
  BY <1>6, <1>8
<1> QED
  BY <1>1, <1>5, <1>9, <1>10 DEF CP!Deliver

LEMMA EndOfLeftEnds ==
  ASSUME JoinIInv, EndOfLeft
  PROVE  CP!End
<1>1. /\ JoinOK /\ Phases /\ Going /\ pc = "left" /\ outcome = "open"
      /\ lpos = input.lhs
  BY DEF JoinIInv, EndOfLeft, Going, Phases
<1>2. PICK ends, k : Progress(ends, k)
  BY <1>1 DEF JoinIInv
<1>3. ASSUME NEW p \in CP!Selected
      PROVE  CP!Joined(p) \in CP!Delivered
  <2>1. p[1] \in 1 .. input.lhs /\ input.lhs \in Nat
    BY <1>1, InputTypes DEF CP!Selected, JoinOK
  <2>2. p[1] < lpos \/ p[1] = lpos
    BY <1>1, <2>1
  <2> QED
    BY <1>1, <1>2, <2>2 DEF Progress, Handed, Met
<1>4. outcome' = "eof" /\ UNCHANGED <<input, delivered>>
  BY DEF EndOfLeft, Destroy
<1> QED
  BY <1>1, <1>3, <1>4 DEF CP!End

LEMMA JoinStep ==
  ASSUME JoinIInv, [Next]_vars
  PROVE  [CP!Next]_(CP!joinVars)
<1>1. JoinOK /\ Phases
  BY DEF JoinIInv
<1>2. CASE Deliver
  BY <1>2, DeliverDelivers DEF CP!Next
<1>3. CASE EndOfLeft
  BY <1>3, EndOfLeftEnds DEF CP!Next
<1>4. CASE \/ FirstBlockThrows \/ CopyThrows \/ InputThrows \/ ReadRowThrows
           \/ ConditionThrows \/ Abandon
  <2>1. /\ pc \notin {"closed", "release"} /\ UNCHANGED <<input, delivered>>
        /\ outcome' \in {"input", "limit", "value", "condition", "abandoned"}
    BY <1>4
    DEF FirstBlockThrows, CopyThrows, Copying, InputThrows, FromInput,
        ReadRowThrows, FromBlocks, ConditionThrows, Abandon, Destroy
  <2>2. CP!Stop
    BY <1>1, <2>1 DEF Phases, Going, CP!Stop
  <2> QED
    BY <2>2 DEF CP!Next
<1>5. CASE NewJoin
  <2>1. CP!NextJoin
    BY <1>1, <1>5 DEF NewJoin, Phases, Going, CP!NextJoin
  <2> QED
    BY <2>1 DEF CP!Next
<1>6. CASE \/ NextLeft \/ FirstBlock \/ PullRight \/ CopyValue \/ CopyToNextBlock
           \/ EndRow \/ EndOfRight \/ ReadRow \/ EndOfBlocks \/ UseMissingRow
           \/ SkipPair \/ CallAgain \/ ReleaseBlocks \/ Close \/ UNCHANGED vars
  <2>1. UNCHANGED <<input, delivered, outcome>>
    BY <1>6
    DEF NextLeft, FirstBlock, PullRight, CopyValue, CopyToNextBlock, Copy, EndRow,
        EndOfRight, ReadRow, EndOfBlocks, UseMissingRow, SkipPair, CallAgain,
        ReleaseBlocks, Close, GoTo, vars
  <2> QED
    BY <2>1 DEF CP!joinVars
<1> QED
  BY <1>2, <1>3, <1>4, <1>5, <1>6 DEF Next, Join, Stopped

(* However the rows are cut into blocks, each left row meets the same      *)
(* right rows, whole and in the same order, whether they come from the     *)
(* input or are read back, and an end is reported only when every selected *)
(* pair has been delivered.                                                *)
THEOREM CrossProductImplemented == Spec => ImplementsCrossProduct
<1>1. Init => CP!Init
  BY DEF Init, CP!Init
<1>2. JoinIInv /\ [Next]_vars => [CP!Next]_(CP!joinVars)
  BY JoinStep
<1> QED
  BY <1>1, <1>2, SpecJoin, PTL DEF Spec, ImplementsCrossProduct, CP!Spec
=============================================================================
