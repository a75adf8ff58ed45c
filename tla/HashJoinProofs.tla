--------------------------- MODULE HashJoinProofs ---------------------------
(***************************************************************************)
(* The hash join, for all inputs, block sizes and limits: it uses the      *)
(* manager through its two operations and has given every block back when  *)
(* it is closed; what it writes fits into them, and when a key is read     *)
(* that is gone; and it delivers what an equi-join promises.               *)
(***************************************************************************)
EXTENDS HashJoin, RowCopiesProofs

(* The blocks are those of the iterator at every point, and a join that is *)
(* closed has none.                                                        *)
Ownership == Owned /\ (pc = "closed" => AllReleased)

LEMMA InitOwnership == Init => Ownership
<1> SUFFICES ASSUME Init PROVE Ownership
  OBVIOUS
<1>1. cache = <<>> /\ sBlockNumber = 0 /\ blocks = {}
  BY DEF Init, BM!Init
<1> QED
  BY <1>1 DEF Ownership, Owned, AllReleased

LEMMA OwnershipStep == Ownership /\ [Next]_vars => Ownership'
<1> SUFFICES ASSUME Ownership, [Next]_vars PROVE Ownership'
  OBVIOUS
<1>1. CASE FirstBlock \/ CopyToNextBlock
  <2>1. Owned'
    BY <1>1, PushOwned DEF FirstBlock, CopyToNextBlock, AddToNext, Ownership
  <2>2. pc' # "closed"
    BY <1>1 DEF FirstBlock, CopyToNextBlock, Copy, Copying
  <2> QED
    BY <2>1, <2>2 DEF Ownership
<1>2. CASE FirstBlockThrows \/ CopyThrows
  <2>1. Owned'
    BY <1>2, RefusedOwned
    DEF FirstBlockThrows, CopyThrows, AddThrows, Destroy, tableVars, Ownership
  <2>2. pc' # "closed"
    BY <1>2 DEF FirstBlockThrows, CopyThrows, Destroy
  <2> QED
    BY <2>1, <2>2 DEF Ownership
<1>3. CASE ReleaseBlocks
  <2>1. Owned' /\ pc' # "closed"
    BY <1>3, ReleaseOwned DEF ReleaseBlocks, Ownership
  <2> QED
    BY <2>1 DEF Ownership
<1>4. CASE NewJoin
  <2>1. Owned' /\ pc' # "closed"
    BY <1>4, EmptiedOwned DEF NewJoin, Ownership
  <2> QED
    BY <2>1 DEF Ownership
<1>5. CASE Close
  <2>1. Owned' /\ AllReleased'
    BY <1>5, SameOwned DEF Close, managerVars, tableVars, Ownership, AllReleased
  <2> QED
    BY <2>1 DEF Ownership
<1>6. CASE \/ PullRight \/ CopyValue \/ EndRow \/ EndOfRight \/ NextLeft
           \/ NextLeftThrows \/ ReadReleasedKey \/ NextMatch \/ NextMatchThrows
           \/ EndOfLeft \/ InputThrows \/ Abandon
  <2>1. UNCHANGED <<sBlockNumber, blocks, cache>>
    BY <1>6
    DEF PullRight, CopyValue, Copy, AddToCurrent, EndRow, WriteMark, EndOfRight,
        NextLeft, NextLeftThrows, ReadReleasedKey, Crash, NextMatch,
        NextMatchThrows, EndOfLeft, InputThrows, Abandon, Destroy, managerVars,
        tableVars
  <2>2. pc' = "closed" => pc = "closed"
    BY <1>6
    DEF PullRight, CopyValue, Copy, EndRow, EndOfRight, NextLeft, NextLeftThrows,
        ReadReleasedKey, Crash, NextMatch, NextMatchThrows, EndOfLeft,
        InputThrows, Abandon, Destroy
  <2> QED
    BY <2>1, <2>2, SameOwned DEF Ownership, AllReleased
<1>7. CASE UNCHANGED vars
  BY <1>7, SameOwned DEF vars, managerVars, tableVars, Ownership, AllReleased
<1> QED
  BY <1>1, <1>2, <1>3, <1>4, <1>5, <1>6, <1>7 DEF Next, Join, Stopped

LEMMA SpecOwnership == Spec => []Ownership
BY InitOwnership, OwnershipStep, PTL DEF Spec

(* Whether a join ends, fails while it fills its table, or is abandoned,   *)
(* it gives all of its blocks back.                                        *)
THEOREM BlocksGivenBackHolds == Spec => []BlocksGivenBack
<1>1. Ownership => BlocksGivenBack
  BY AllReleasedOwned DEF Ownership, BlocksGivenBack
<1> QED
  BY <1>1, SpecOwnership, PTL

LEMMA ManagerStep == Ownership /\ [Next]_vars => [BM!Next]_managerVars
<1> SUFFICES ASSUME Ownership, [Next]_vars PROVE [BM!Next]_managerVars
  OBVIOUS
<1>1. CASE FirstBlock \/ CopyToNextBlock
  BY <1>1, PushIsCall DEF FirstBlock, CopyToNextBlock, AddToNext
<1>2. CASE FirstBlockThrows \/ CopyThrows
  BY <1>2, ThrowIsCall DEF FirstBlockThrows, CopyThrows, AddThrows
<1>3. CASE ReleaseBlocks
  BY <1>3, ReleaseIsCall DEF ReleaseBlocks, Ownership
<1>4. CASE \/ PullRight \/ CopyValue \/ EndRow \/ EndOfRight \/ NextLeft
           \/ NextLeftThrows \/ ReadReleasedKey \/ NextMatch \/ NextMatchThrows
           \/ EndOfLeft \/ InputThrows \/ Abandon \/ NewJoin \/ Close
  BY <1>4
  DEF PullRight, CopyValue, Copy, AddToCurrent, EndRow, WriteMark, EndOfRight,
      NextLeft, NextLeftThrows, ReadReleasedKey, Crash, NextMatch,
      NextMatchThrows, EndOfLeft, InputThrows, Abandon, NewJoin, Close
<1>5. CASE UNCHANGED vars
  BY <1>5 DEF vars
<1> QED
  BY <1>1, <1>2, <1>3, <1>4, <1>5 DEF Next, Join, Stopped

(* The joins of an engine, one after the other, use the block manager as   *)
(* its specification says, so that what holds of its counters holds here.  *)
THEOREM ManagerRefined == Spec => BM!Spec
<1>1. Init => BM!Init
  BY DEF Init
<1> QED
  BY <1>1, SpecOwnership, ManagerStep, PTL
  DEF Spec, BM!Spec, managerVars, BM!managerVars
-----------------------------------------------------------------------------
(* What is read after it was released, and what is written.                *)

(* Wherever something is written there is room for the markers that follow. *)
RoomLeft ==
  /\ pc = "first" => cache = <<>>
  /\ pc = "pull" => Room(1)
  /\ pc = "copy" => rpos >= 1 /\ IF col = 1 THEN Room(1) ELSE Room(2)

(* The variables of the join have their types.                             *)
JoinOK ==
  /\ pc \in {"closed", "first", "pull", "copy", "match", "release"}
  /\ joins \in 0 .. MaxJoins /\ input \in Inputs
  /\ rpos \in 0 .. Len(input.rhs) /\ lpos \in 0 .. Len(input.lhs)
  /\ col \in Nat \ {0}
  /\ at \in [block : Nat, offset : Nat]
  /\ hashTable \subseteq [key : {input.rhs[r].key : r \in DOMAIN input.rhs},
                          row : 1 .. rpos, at : [block : Nat, offset : Nat]]
  /\ range \subseteq hashTable \/ pc \in {"release", "closed"}
  /\ outcome \in {"none", "open", "eof", "threw", "abandoned"}
  /\ fault \in {"none", "key"}

FaultsIInv == JoinOK /\ KeyFaultsExplained /\ Written /\ RoomLeft

LEMMA InputTypes ==
  ASSUME NEW in \in Inputs
  PROVE  /\ Len(in.lhs) \in Nat /\ Len(in.rhs) \in Nat
         /\ DOMAIN in.rhs = 1 .. Len(in.rhs)
         /\ \A r \in 1 .. Len(in.rhs) :
              in.rhs[r].sizes \in Seq(Nat) /\ Len(in.rhs[r].sizes) >= 1
<1>1. /\ in.lhs \in Seq([type : STRING, n : Nat, null : BOOLEAN])
      /\ in.rhs \in Seq([key : [type : STRING, n : Nat, null : BOOLEAN],
                         sizes : Seq(Nat) \ {<<>>}, block : Nat])
  BY JoinAssumption
<1>2. ASSUME NEW r \in 1 .. Len(in.rhs)
      PROVE  in.rhs[r].sizes \in Seq(Nat) /\ Len(in.rhs[r].sizes) >= 1
  <2> DEFINE RightRows == [key : [type : STRING, n : Nat, null : BOOLEAN],
                           sizes : Seq(Nat) \ {<<>>}, block : Nat]
  <2>1. in.rhs[r].sizes \in Seq(Nat) \ {<<>>}
    <3>1. in.rhs \in Seq(RightRows)
      BY <1>1
    <3> HIDE DEF RightRows
    <3>2. in.rhs[r] \in RightRows
      BY <3>1
    <3> QED
      BY <3>2 DEF RightRows
  <2>2. \A s \in Seq(Nat) \ {<<>>} : Len(s) >= 1
    OBVIOUS
  <2> QED
    BY <2>1, <2>2
<1> QED
  BY <1>1, <1>2

LEMMA InitFaults == Init => FaultsIInv
<1> SUFFICES ASSUME Init PROVE FaultsIInv
  OBVIOUS
<1>1. JoinOK
  BY InputTypes, JoinAssumption DEF Init, JoinOK
<1>2. sBlockNumber = 0 /\ store = <<>>
  BY DEF Init, BM!Init
<1>3. Written
  BY <1>2 DEF Written, MarkersFit
<1> QED
  BY <1>1, <1>3 DEF Init, FaultsIInv, KeyFaultsExplained, RoomLeft

(* The right row that is copied.                                           *)
LEMMA CopiedRow ==
  ASSUME JoinOK, RoomLeft, pc = "copy"
  PROVE  /\ rpos \in 1 .. Len(input.rhs)
         /\ Len(RightRow.sizes) >= 1
         /\ \A c \in Nat \ {0} : c <= Len(RightRow.sizes) => RightRow.sizes[c] \in Nat
         /\ RightRow.key \in {input.rhs[r].key : r \in DOMAIN input.rhs}
<1>1. rpos \in 1 .. Len(input.rhs)
  BY InputTypes DEF JoinOK, RoomLeft
<1>2. RightRow.sizes \in Seq(Nat) /\ Len(RightRow.sizes) >= 1
  BY <1>1, InputTypes DEF JoinOK, RightRow
<1>3. \A c \in Nat \ {0} : c <= Len(RightRow.sizes) => RightRow.sizes[c] \in Nat
  BY <1>2
<1>4. RightRow.key \in {input.rhs[r].key : r \in DOMAIN input.rhs}
  BY <1>1, InputTypes DEF JoinOK, RightRow
<1> QED
  BY <1>1, <1>2, <1>3, <1>4

(* The rows that a table points to have been pulled.                       *)
LEMMA LookupExplained ==
  ASSUME JoinOK, NEW key, ReadsReleasedKey(key)
  PROVE  \E r, s \in DOMAIN input.rhs :
           /\ input.rhs[r].key.type = "STRING"
           /\ input.rhs[r].block + 2 <= input.rhs[s].block
<1>1. PICK e \in hashTable : Dangling(e.row)
  BY DEF ReadsReleasedKey, Compared
<1>2. e.row \in 1 .. rpos /\ rpos \in 0 .. Len(input.rhs) /\ Len(input.rhs) \in Nat
  BY InputTypes DEF JoinOK
<1>3. e.row \in DOMAIN input.rhs /\ rpos \in DOMAIN input.rhs
  BY <1>2, InputTypes DEF JoinOK
<1> QED
  BY <1>1, <1>3 DEF Dangling, RightRow

LEMMA FaultsStep ==
  ASSUME Ownership, Ownership', FaultsIInv, [Next]_vars
  PROVE  FaultsIInv'
<1> USE DEF FaultsIInv
<1>0. Owned /\ Owned'
  BY DEF Ownership
<1>1. CASE UNCHANGED vars
  <2>1. Written'
    BY <1>1, SameWritten DEF vars, managerVars
  <2>2. JoinOK' /\ KeyFaultsExplained'
    BY <1>1 DEF vars, tableVars, JoinOK, KeyFaultsExplained
  <2>3. RoomLeft'
    BY <1>1 DEF vars, tableVars, RoomLeft, Room, HasCurrent, Current, NoBlock, BM!NoBlock
  <2> QED
    BY <2>1, <2>2, <2>3
<1>2. CASE fault = "none" /\ ReadReleasedKey
  <2>1. Written'
    BY <1>2, SameWritten DEF ReadReleasedKey, Crash, managerVars
  <2>2. JoinOK'
    BY <1>2 DEF ReadReleasedKey, Crash, tableVars, JoinOK
  <2>3. RoomLeft'
    BY <1>2 DEF ReadReleasedKey, Crash, tableVars, RoomLeft, Room, HasCurrent,
                Current, NoBlock, BM!NoBlock
  <2>4. PICK key : ReadsReleasedKey(key)
    BY <1>2 DEF ReadReleasedKey, EntersReleasedKey
  <2>5. KeyFaultsExplained'
    BY <1>2, <2>4, LookupExplained DEF ReadReleasedKey, Crash, KeyFaultsExplained
  <2> QED
    BY <2>1, <2>2, <2>3, <2>5
<1>3. CASE fault = "none" /\ FirstBlock
  <2>1. Written' /\ Room(1)'
    <3>1. PICK content \in Contents : content = Empty /\ content.used = 0
      BY ContentTypes
    <3>2. PushBlock(content) /\ cache = <<>> /\ content.used <= Capacity
      BY <1>3, <3>1, CopiesAssumption DEF FirstBlock, RoomLeft
    <3>3. Written' /\ HasCurrent' /\ Current' = content
      BY <1>0, <3>1, <3>2, PushKeeps
    <3> QED
      BY <3>1, <3>3, CopiesAssumption DEF Room
  <2>2. JoinOK'
    BY <1>3 DEF FirstBlock, JoinOK
  <2> QED
    BY <1>3, <2>1, <2>2 DEF FirstBlock, RoomLeft, KeyFaultsExplained
<1>4. CASE fault = "none" /\ FirstBlockThrows
  <2>1. Written'
    BY <1>4, SameWritten DEF FirstBlockThrows, BM!CreateBlockThrows
  <2> QED
    BY <1>4, <2>1
    DEF FirstBlockThrows, Destroy, tableVars, JoinOK, RoomLeft, KeyFaultsExplained
<1>5. CASE fault = "none" /\ PullRight
  <2>1. Written' /\ Room(1)'
    <3>1. Written'
      BY <1>5, SameWritten DEF PullRight, managerVars
    <3>2. Room(1)'
      BY <1>5 DEF PullRight, tableVars, RoomLeft, Room, HasCurrent, Current,
                  NoBlock, BM!NoBlock
    <3> QED
      BY <3>1, <3>2
  <2>2. rpos' \in 1 .. Len(input.rhs) /\ rpos' = rpos + 1
    BY <1>5, InputTypes DEF PullRight, JoinOK
  <2>3. at' \in [block : Nat, offset : Nat]
    <3>1. Current \in Contents
      BY <1>0, <1>5, CurrentExists DEF PullRight, RoomLeft, Room
    <3> QED
      BY <1>0, <1>5, <3>1 DEF PullRight, Here, Owned, Contents
  <2>4. hashTable' \subseteq
          [key : {input.rhs[r].key : r \in DOMAIN input.rhs},
           row : 1 .. rpos', at : [block : Nat, offset : Nat]]
    <3>1. 1 .. rpos \subseteq 1 .. rpos'
      BY <2>2, InputTypes DEF JoinOK
    <3> QED
      BY <1>5, <3>1 DEF PullRight, tableVars, JoinOK
  <2>5. JoinOK'
    BY <1>5, <2>2, <2>3, <2>4 DEF PullRight, tableVars, JoinOK
  <2> QED
    BY <1>5, <2>1, <2>2, <2>5 DEF PullRight, RoomLeft, KeyFaultsExplained
<1>6. CASE fault = "none" /\ (CopyValue \/ CopyToNextBlock)
  <2>1. /\ rpos \in 1 .. Len(input.rhs)
        /\ RightRow.sizes[col] \in Nat /\ rpos \in Nat /\ col \in Nat
        /\ RightRow.key \in {input.rhs[r].key : r \in DOMAIN input.rhs}
    BY <1>6, CopiedRow
    DEF CopyValue, CopyToNextBlock, Copy, Copying, JoinOK
  <2>2. Room(1)
    BY <1>6, <1>0, CurrentExists, CopiesAssumption
    DEF CopyValue, CopyToNextBlock, Copy, Copying, RoomLeft, Room
  <2>3. Written' /\ Room(2)'
    <3>1. CASE CopyValue
      BY <1>0, <2>1, <2>2, <3>1, AddKeeps DEF CopyValue, Room
    <3>2. CASE CopyToNextBlock
      <4>1. PICK content \in Contents :
              /\ content = Opened(rpos, col, RightRow.sizes[col])
              /\ content.used + 2 <= Capacity
        BY <2>1, ContentTypes
      <4>2. content.used <= Capacity
        BY <4>1, CopiesAssumption DEF Contents
      <4>3. PushBlock(content)
        BY <3>2, <4>1 DEF CopyToNextBlock, AddToNext
      <4> QED
        BY <1>0, <2>2, <4>1, <4>2, <4>3, PushKeeps DEF Room
    <3> QED
      BY <1>6, <3>1, <3>2
  <2>4. Copy
    BY <1>6 DEF CopyValue, CopyToNextBlock
  <2>5. hashTable' \subseteq
          [key : {input.rhs[r].key : r \in DOMAIN input.rhs},
           row : 1 .. rpos, at : [block : Nat, offset : Nat]]
    <3>1. [key |-> RightRow.key, row |-> rpos, at |-> at] \in
            [key : {input.rhs[r].key : r \in DOMAIN input.rhs},
             row : 1 .. rpos, at : [block : Nat, offset : Nat]]
      BY <2>1 DEF JoinOK
    <3> QED
      BY <2>4, <3>1 DEF Copy, JoinOK
  <2>6. range' \subseteq hashTable'
    BY <2>4 DEF Copy, Copying, JoinOK
  <2>7. JoinOK'
    BY <2>4, <2>5, <2>6 DEF Copy, JoinOK
  <2> QED
    BY <1>6, <2>1, <2>3, <2>4, <2>7 DEF Copy, Copying, JoinOK, RoomLeft, KeyFaultsExplained
<1>7. CASE fault = "none" /\ CopyThrows
  <2>1. Room(1)
    BY <1>7, <1>0, CurrentExists, CopiesAssumption
    DEF CopyThrows, Copying, RoomLeft, Room
  <2>2. Written'
    BY <1>0, <1>7, <2>1, ThrowKeeps DEF CopyThrows
  <2> QED
    BY <1>7, <2>2
    DEF CopyThrows, Destroy, tableVars, JoinOK, RoomLeft, KeyFaultsExplained
<1>8. CASE fault = "none" /\ EndRow
  <2>1. Room(2)
    BY <1>8, CopiedRow DEF EndRow, RoomLeft, JoinOK
  <2>2. Written' /\ Room(1)'
    BY <1>0, <1>8, <2>1, MarkKeeps DEF EndRow
  <2> QED
    BY <1>8, <2>2 DEF EndRow, WriteMark, JoinOK, RoomLeft, KeyFaultsExplained
<1>9. CASE fault = "none" /\ EndOfRight
  <2>1. Written'
    BY <1>0, <1>9, MarkKeeps DEF EndOfRight, RoomLeft
  <2> QED
    BY <1>9, <2>1 DEF EndOfRight, WriteMark, JoinOK, RoomLeft, KeyFaultsExplained
<1>10. CASE fault = "none" /\ (NextLeft \/ NextMatch \/ EndOfLeft \/ Close)
  <2>1. Written'
    BY <1>10, SameWritten DEF NextLeft, NextMatch, EndOfLeft, Close, managerVars
  <2>2. CASE NextLeft
    <3>1. lpos' \in 0 .. Len(input.lhs)
      BY <2>2, InputTypes DEF NextLeft, PullsLeft, JoinOK
    <3>2. range' \subseteq hashTable
      BY <2>2 DEF NextLeft, Compared
    <3> QED
      BY <1>10, <2>1, <2>2, <3>1, <3>2
      DEF NextLeft, PullsLeft, tableVars, JoinOK, RoomLeft, KeyFaultsExplained
  <2>3. CASE NextMatch
    BY <1>10, <2>1, <2>3 DEF NextMatch, tableVars, JoinOK, RoomLeft, KeyFaultsExplained
  <2>4. CASE EndOfLeft
    BY <1>10, <2>1, <2>4 DEF EndOfLeft, JoinOK, RoomLeft, KeyFaultsExplained
  <2>5. CASE Close
    BY <1>10, <2>1, <2>5 DEF Close, tableVars, JoinOK, RoomLeft, KeyFaultsExplained
  <2> QED
    BY <1>10, <2>2, <2>3, <2>4, <2>5
<1>11. CASE fault = "none" /\ (NextLeftThrows \/ NextMatchThrows \/ InputThrows \/ Abandon)
  <2>1. /\ UNCHANGED <<managerVars, store>>
        /\ Destroy("threw") \/ Destroy("abandoned")
    BY <1>11 DEF NextLeftThrows, NextMatchThrows, InputThrows, Abandon
  <2>2. Written'
    BY <2>1, SameWritten DEF managerVars
  <2> QED
    BY <1>11, <2>1, <2>2 DEF Destroy, tableVars, JoinOK, RoomLeft, KeyFaultsExplained
<1>12. CASE fault = "none" /\ ReleaseBlocks
  <2>1. UNCHANGED <<sBlockNumber, store>>
    BY <1>0, <1>12 DEF ReleaseBlocks, ReleaseNext, BM!Release, NoBlock
  <2>2. Written'
    BY <2>1, SameWritten
  <2> QED
    BY <1>12, <2>2 DEF ReleaseBlocks, JoinOK, RoomLeft, KeyFaultsExplained
<1>13. CASE fault = "none" /\ NewJoin
  <2>1. Written'
    BY <1>13, SameWritten DEF NewJoin, managerVars
  <2>2. input' \in Inputs /\ joins' \in 0 .. MaxJoins
    BY <1>13, JoinAssumption DEF NewJoin, JoinOK
  <2>3. JoinOK'
    <3>1. Len(input'.rhs) \in Nat /\ Len(input'.lhs) \in Nat
      BY <2>2, InputTypes
    <3> QED
      BY <1>13, <2>2, <3>1 DEF NewJoin, JoinOK
  <2> QED
    BY <1>13, <2>1, <2>3 DEF NewJoin, RoomLeft, KeyFaultsExplained
<1> QED
  BY <1>1, <1>2, <1>3, <1>4, <1>5, <1>6, <1>7, <1>8, <1>9, <1>10, <1>11, <1>12,
     <1>13
  DEF Next, Join, Stopped

(* A key is read after its block was released only if it is a string and   *)
(* the right input fills more than two blocks; no marker is written behind *)
(* the end of a block that rows are copied to; and all variables keep      *)
(* their types.                                                            *)
THEOREM FaultsExplainedHolds == Spec => []FaultsExplained
<1>1. Spec => []FaultsIInv
  <2>1. Ownership /\ Ownership' /\ FaultsIInv /\ [Next]_vars => FaultsIInv'
    BY FaultsStep
  <2> QED
    BY <2>1, InitFaults, SpecOwnership, PTL DEF Spec
<1>2. Ownership /\ BM!TypeOK /\ FaultsIInv => FaultsExplained
  BY DEF Ownership, Owned, FaultsIInv, JoinOK, Written, CopiesOK, TypeOK,
         FaultsExplained
<1> QED
  BY <1>1, <1>2, SpecOwnership, ManagerRefined, ManagerTypes, PTL
-----------------------------------------------------------------------------
(* Each left row meets the right rows with an equal key.                   *)

Filling == pc \in {"first", "pull", "copy"}
Using == pc \in {"pull", "copy", "match"}
EndedRows == 1 .. (IF pc = "copy" THEN rpos - 1 ELSE rpos)
KeyedRows ==
  EndedRows \cup (IF pc = "copy" /\ col > KeyColumn THEN {rpos} ELSE {})

(* Each row that was copied has one entry in the table, and the one that   *)
(* is copied has its entry once the key was copied.                        *)
Entries ==
  /\ pc = "first" => hashTable = {} /\ rpos = 0
  /\ pc = "copy" => col <= Len(RightRow.sizes) + 1
  /\ Using =>
       /\ {e.row : e \in hashTable} = KeyedRows
       /\ \A e, f \in hashTable : e.row = f.row => e = f
       /\ \A e \in hashTable : e.key = input.rhs[e.row].key
       /\ \A e \in hashTable : pc = "copy" /\ e.row = rpos => e.at = at

(* What an entry points to is its row.                                     *)
Rows ==
  /\ Using => Held /\ cache # <<>>
  /\ Using => \A e \in hashTable :
                e.row \in EndedRows =>
                  /\ e.at \in Positions
                  /\ Stands(Memory, e.at, e.row, input.rhs[e.row].sizes)
  /\ pc = "copy" =>
       /\ at \in Positions
       /\ Copied(Memory, at, rpos, RightRow.sizes, col - 1)

LEMMA EntriesStep ==
  ASSUME FaultsIInv, Entries, [Next]_vars
  PROVE  Entries'
<1>1. JoinOK /\ RoomLeft
  BY DEF FaultsIInv
<1>2. CASE FirstBlock
  <2>1. {e.row : e \in hashTable} = {} /\ 1 .. 0 = {}
    BY <1>2 DEF FirstBlock, Entries
  <2> QED
    BY <1>2, <2>1 DEF FirstBlock, Entries, KeyedRows, EndedRows, Using
<1>3. CASE PullRight
  <2>1. rpos \in Nat /\ rpos' = rpos + 1 /\ ~ (1 > KeyColumn)
    BY <1>1, <1>3, InputTypes, JoinAssumption DEF PullRight, JoinOK
  <2>2. KeyedRows' = KeyedRows /\ KeyedRows = 1 .. rpos
    BY <1>3, <2>1 DEF PullRight, KeyedRows, EndedRows
  <2>3. \A e \in hashTable : e.row # rpos'
    <3>1. rpos' \notin 1 .. rpos
      BY <2>1
    <3>2. {e.row : e \in hashTable} = 1 .. rpos
      BY <1>3, <2>2 DEF PullRight, Entries, Using
    <3> QED
      BY <3>1, <3>2
  <2>4. rpos' \in 1 .. Len(input.rhs)
    BY <1>1, <1>3, InputTypes DEF PullRight, JoinOK
  <2>5. Len(input.rhs[rpos'].sizes) \in Nat
    BY <1>1, <2>4, InputTypes DEF JoinOK
  <2> QED
    BY <1>3, <2>2, <2>3, <2>5 DEF PullRight, tableVars, Entries, Using, RightRow
<1>4. CASE CopyValue \/ CopyToNextBlock
  <2>1. Copy /\ Copying
    BY <1>4 DEF CopyValue, CopyToNextBlock, Copy
  <2>2. /\ col \in Nat \ {0} /\ KeyColumn \in Nat \ {0} /\ rpos \in Nat \ {0}
        /\ col <= Len(RightRow.sizes) /\ Len(RightRow.sizes) \in Nat
    <3>1. RightRow.sizes \in Seq(Nat)
      BY <1>1, <2>1, CopiedRow, InputTypes DEF Copying, JoinOK, RightRow
    <3>2. rpos \in 1 .. Len(input.rhs)
      BY <1>1, <2>1, CopiedRow DEF Copying
    <3> QED
      <4>1. rpos \in Nat \ {0} /\ Len(RightRow.sizes) \in Nat
        BY <3>1, <3>2
      <4>2. col \in Nat \ {0} /\ col <= Len(RightRow.sizes)
        BY <1>1, <2>1 DEF Copying, JoinOK
      <4>3. KeyColumn \in Nat \ {0}
        BY JoinAssumption
      <4> QED
        BY <4>1, <4>2, <4>3
  <2>3. EndedRows' = EndedRows /\ EndedRows = 1 .. rpos - 1
    BY <2>1 DEF Copy, Copying, EndedRows
  <2>4. CASE col = KeyColumn
    <3> DEFINE entry == [key |-> RightRow.key, row |-> rpos, at |-> at]
    <3>1. hashTable' = hashTable \cup {entry} /\ pc' = "copy" /\ pc = "copy"
      BY <2>1, <2>4 DEF Copy, Copying
    <3>2. KeyedRows' = 1 .. rpos /\ KeyedRows = 1 .. rpos - 1
      BY <2>1, <2>2, <2>3, <2>4, <3>1 DEF Copy, KeyedRows
    <3>3. /\ {e.row : e \in hashTable} = 1 .. rpos - 1
          /\ \A e \in hashTable : e.row # rpos
      BY <2>2, <3>1, <3>2 DEF Entries, Using
    <3>4. {e.row : e \in hashTable'} = 1 .. rpos
      <4>1. entry.row = rpos
        OBVIOUS
      <4> HIDE DEF entry
      <4>2. {e.row : e \in hashTable'} = {e.row : e \in hashTable} \cup {rpos}
        BY <3>1, <4>1
      <4>3. (1 .. rpos - 1) \cup {rpos} = 1 .. rpos
        BY <2>2
      <4> QED
        BY <3>3, <4>2, <4>3
    <3>5. \A e, f \in hashTable' : e.row = f.row => e = f
      BY <3>1, <3>3 DEF Entries, Using
    <3>6. \A e \in hashTable' :
            /\ e.key = input.rhs[e.row].key
            /\ e.row = rpos => e.at = at
      BY <3>1, <3>3 DEF Entries, Using, RightRow
    <3> QED
      BY <2>1, <2>2, <3>1, <3>2, <3>4, <3>5, <3>6
      DEF Copy, Entries, Using, RightRow
  <2>5. CASE col # KeyColumn
    <3>1. hashTable' = hashTable /\ KeyedRows' = KeyedRows
      BY <2>1, <2>2, <2>3, <2>5 DEF Copy, Copying, KeyedRows
    <3> QED
      BY <2>1, <2>2, <3>1 DEF Copy, Copying, Entries, Using, RightRow
  <2> QED
    BY <2>4, <2>5
<1>5. CASE EndRow
  <2>1. /\ rpos \in 1 .. Len(input.rhs) /\ Len(input.rhs) \in Nat
        /\ Len(RightRow.sizes) \in Nat
    BY <1>1, <1>5, CopiedRow, InputTypes DEF EndRow, JoinOK, RightRow
  <2>2. KeyColumn <= Len(RightRow.sizes) /\ KeyColumn \in Nat
    <3>1. input \in Inputs /\ rpos \in DOMAIN input.rhs
      BY <1>1, <2>1, InputTypes DEF JoinOK
    <3> QED
      BY <3>1, JoinAssumption DEF RightRow
  <2>3. col > KeyColumn
    BY <1>1, <1>5, <2>1, <2>2 DEF EndRow, JoinOK
  <2>4. KeyedRows' = KeyedRows
    BY <1>5, <2>1, <2>3 DEF EndRow, KeyedRows, EndedRows
  <2> QED
    BY <1>5, <2>4 DEF EndRow, WriteMark, Entries, Using
<1>6. CASE EndOfRight
  <2>1. KeyedRows' = KeyedRows
    BY <1>6 DEF EndOfRight, KeyedRows, EndedRows
  <2> QED
    BY <1>6, <2>1 DEF EndOfRight, WriteMark, Entries, Using
<1>7. CASE \/ NextLeft \/ ReadReleasedKey \/ NextMatch \/ UNCHANGED vars
  <2>1. /\ UNCHANGED <<pc, input, rpos, col, at, hashTable>>
    BY <1>7 DEF NextLeft, ReadReleasedKey, Crash, NextMatch, vars, tableVars
  <2> QED
    BY <2>1 DEF Entries, Using, KeyedRows, EndedRows, RightRow
<1>8. CASE \/ FirstBlockThrows \/ CopyThrows \/ NextLeftThrows \/ NextMatchThrows
           \/ InputThrows \/ Abandon \/ EndOfLeft \/ ReleaseBlocks \/ Close
  <2>1. pc' \in {"release", "closed"}
    BY <1>8
    DEF FirstBlockThrows, CopyThrows, NextLeftThrows, NextMatchThrows,
        InputThrows, Abandon, EndOfLeft, ReleaseBlocks, Close, Destroy
  <2> QED
    BY <2>1 DEF Entries, Using
<1>9. CASE NewJoin
  BY <1>9 DEF NewJoin, Entries, Using
<1> QED
  BY <1>2, <1>3, <1>4, <1>5, <1>6, <1>7, <1>8, <1>9 DEF Next, Join, Stopped

LEMMA SameStanding ==
  ASSUME Rows, NEW e \in hashTable, e.row \in EndedRows, Using,
         Grows(Memory, Memory'), e.row \in 1 .. Len(input.rhs), input \in Inputs
  PROVE  /\ e.at \in Positions
         /\ Stands(Memory', e.at, e.row, input.rhs[e.row].sizes)
<1>1. input.rhs[e.row].sizes \in Seq(Nat)
  BY InputTypes
<1>2. e.at \in Positions /\ Stands(Memory, e.at, e.row, input.rhs[e.row].sizes)
  BY DEF Rows
<1> QED
  BY <1>1, <1>2, StandsGrows

LEMMA RowsStep ==
  ASSUME Ownership, FaultsIInv, Entries, Rows, [Next]_vars
  PROVE  Rows'
<1>1. JoinOK /\ RoomLeft /\ Written /\ Filed /\ Stored
  BY OwnedFiled DEF FaultsIInv, Ownership
<1>2. Using => Held /\ cache # <<>>
  BY DEF Rows
<1>3. input \in Inputs /\ \A e \in hashTable : e.row \in 1 .. rpos
  BY <1>1 DEF JoinOK
<1>4. rpos \in Nat /\ rpos <= Len(input.rhs) /\ Len(input.rhs) \in Nat
  BY <1>1, InputTypes DEF JoinOK
<1>5. \A e \in hashTable : e.row \in 1 .. Len(input.rhs)
  BY <1>3, <1>4
<1>6. CASE FirstBlock
  <2>1. cache = <<>> /\ Held
    BY <1>1, <1>6 DEF FirstBlock, RoomLeft, Held
  <2>2. PICK content : content = Empty /\ content.cells = <<>> /\ <<>> \in Seq(Cells)
    <3>1. Empty.cells = <<>> /\ <<>> \in Seq(Cells)
      BY EmptySeq DEF Empty
    <3> QED
      BY <3>1
  <2>3. Held' /\ cache' # <<>>
    BY <1>1, <1>6, <2>1, <2>2, PushWrites DEF FirstBlock
  <2> QED
    BY <1>6, <2>3 DEF FirstBlock, Entries, Rows
<1>7. CASE PullRight
  <2>1. Held /\ cache # <<>> /\ Memory' = Memory /\ Held' /\ cache' # <<>>
    BY <1>2, <1>7 DEF PullRight, Using, tableVars, Memory, Held, NoBlock, BM!NoBlock
  <2>2. PICK here \in Positions :
          here = Here /\ here = EndOf(Memory) /\ at' = here
    BY <1>1, <1>7, <2>1, MemoryTypes, EndPosition DEF PullRight
  <2>3. \A r, sizes : Copied(Memory, here, r, sizes, 0)
    BY <1>1, <2>1, <2>2, MemoryTypes, CopyStarts
  <2>4. EndedRows' = EndedRows
    BY <1>4, <1>7 DEF PullRight, EndedRows
  <2> QED
    BY <1>7, <2>1, <2>2, <2>3, <2>4 DEF PullRight, tableVars, Rows, Using
<1>8. CASE CopyValue \/ CopyToNextBlock
  <2>1. Copy /\ Copying /\ pc = "copy" /\ Held /\ cache # <<>> /\ at \in Positions
    BY <1>2, <1>8 DEF CopyValue, CopyToNextBlock, Copy, Copying, Using, Rows
  <2>2. PICK sizes \in Seq(Nat) : sizes = RightRow.sizes
    BY <1>1, <2>1, CopiedRow, InputTypes DEF JoinOK, RightRow
  <2>3. PICK c \in Nat : col = c + 1
    <3>1. col - 1 \in Nat /\ col = (col - 1) + 1
      BY <1>1 DEF JoinOK
    <3> QED
      BY <3>1
  <2>4. Copied(Memory, at, rpos, sizes, c)
    <3>1. col - 1 = c
      BY <2>3
    <3> QED
      BY <2>1, <2>2, <3>1 DEF Rows
  <2>5. sizes[c + 1] \in Nat /\ c + 1 \in Nat
    BY <1>1, <2>1, <2>2, <2>3, CopiedRow DEF Copying, JoinOK
  <2>6. PICK p \in Positions : p = at /\ at' = p
    BY <2>1 DEF Copy
  <2>7. /\ Copied(Memory', p, rpos, sizes, c + 1) /\ Held' /\ cache' # <<>>
        /\ Grows(Memory, Memory')
    <3>1. CASE CopyValue
      <4>1. AddToCurrent(rpos, c + 1, sizes[c + 1])
        BY <2>2, <2>3, <3>1 DEF CopyValue
      <4>2. Copied(Memory', p, rpos, sizes, c + 1) /\ Held' /\ cache' # <<>>
        BY <1>1, <1>4, <2>1, <2>4, <2>5, <2>6, <4>1, CopiedAdds
      <4>3. Grows(Memory, Memory')
        BY <1>1, <1>4, <2>1, <2>5, <4>1, AddGrows
      <4> QED
        BY <4>2, <4>3
    <3>2. CASE CopyToNextBlock
      <4>1. AddToNext(rpos, c + 1, sizes[c + 1])
        BY <2>2, <2>3, <3>2 DEF CopyToNextBlock
      <4>2. Copied(Memory', p, rpos, sizes, c + 1) /\ Held' /\ cache' # <<>>
        BY <1>1, <1>4, <2>1, <2>4, <2>6, <4>1, CopiedNext
      <4>3. Grows(Memory, Memory')
        BY <1>1, <1>4, <2>1, <2>5, <4>1, NextGrows
      <4> QED
        BY <4>2, <4>3
    <3> QED
      BY <1>8, <3>1, <3>2
  <2>8. ASSUME NEW e \in hashTable', e.row \in EndedRows'
        PROVE  /\ e.at \in Positions
               /\ Stands(Memory', e.at, e.row, input.rhs[e.row].sizes)
    <3>1. EndedRows' = EndedRows /\ EndedRows = 1 .. rpos - 1
      BY <2>1 DEF Copy, EndedRows
    <3>2. e.row # rpos
      BY <1>4, <2>8, <3>1
    <3>3. e \in hashTable
      BY <2>1, <3>2 DEF Copy
    <3> QED
      BY <1>3, <1>5, <2>1, <2>7, <2>8, <3>1, <3>3, SameStanding DEF Using
  <2>9. UNCHANGED <<pc, input, rpos>> /\ col' - 1 = c + 1 /\ RightRow' = RightRow
    BY <2>1, <2>3 DEF Copy, RightRow
  <2> QED
    BY <2>1, <2>2, <2>6, <2>7, <2>8, <2>9 DEF Rows, Using
<1>9. CASE EndRow
  <2>1. /\ pc = "copy" /\ pc' = "pull" /\ Held /\ cache # <<>> /\ at \in Positions
        /\ WriteMark("BB") /\ col > Len(RightRow.sizes)
    BY <1>2, <1>9 DEF EndRow, Using, Rows
  <2>2. PICK sizes \in Seq(Nat) : sizes = RightRow.sizes
    BY <1>1, <2>1, CopiedRow, InputTypes DEF JoinOK, RightRow
  <2>3. PICK n \in Nat : n = Len(sizes) /\ col - 1 = n
    <3>1. Len(sizes) \in Nat /\ col \in Nat /\ col <= Len(sizes) + 1
      BY <1>1, <2>1, <2>2 DEF Entries, JoinOK
    <3> QED
      BY <2>1, <2>2, <3>1
  <2>4. Copied(Memory, at, rpos, sizes, n)
    BY <2>1, <2>2, <2>3 DEF Rows
  <2>5. PICK p \in Positions : p = at
    BY <2>1
  <2>6. Stands(Memory', p, rpos, sizes)
    BY <1>1, <2>1, <2>3, <2>4, <2>5, CopiedEnds
  <2>7. Held' /\ cache' # <<>> /\ Grows(Memory, Memory')
    BY <1>1, <2>1, MarkWrites, MarkGrows DEF WriteMark
  <2>8. ASSUME NEW e \in hashTable
        PROVE  /\ e.at \in Positions
               /\ Stands(Memory', e.at, e.row, input.rhs[e.row].sizes)
    <3>1. CASE e.row = rpos
      <4>1. e.at = p
        BY <2>1, <2>5, <3>1 DEF Entries, Using
      <4> QED
        BY <2>2, <2>6, <3>1, <4>1 DEF RightRow
    <3>2. CASE e.row # rpos
      <4>1. e.row \in EndedRows
        BY <1>3, <1>4, <2>1, <3>2 DEF EndedRows
      <4> QED
        BY <1>3, <1>5, <2>1, <2>7, <4>1, SameStanding DEF Using
    <3> QED
      BY <3>1, <3>2
  <2> QED
    BY <1>9, <2>1, <2>7, <2>8 DEF EndRow, Rows, Using
<1>10. CASE EndOfRight
  <2>1. /\ pc = "pull" /\ pc' = "match" /\ Held /\ cache # <<>> /\ WriteMark("DD")
    BY <1>2, <1>10 DEF EndOfRight, Using
  <2>2. Held' /\ cache' # <<>> /\ Grows(Memory, Memory')
    BY <1>1, <2>1, MarkWrites, MarkGrows DEF WriteMark
  <2>3. EndedRows' = EndedRows
    BY <1>10 DEF EndOfRight, EndedRows
  <2>4. ASSUME NEW e \in hashTable, e.row \in EndedRows
        PROVE  /\ e.at \in Positions
               /\ Stands(Memory', e.at, e.row, input.rhs[e.row].sizes)
    BY <1>3, <1>5, <2>1, <2>2, <2>4, SameStanding DEF Using
  <2> QED
    BY <1>10, <2>1, <2>2, <2>3, <2>4 DEF EndOfRight, Rows, Using
<1>11. CASE NextLeft \/ ReadReleasedKey \/ NextMatch \/ UNCHANGED vars
  <2>1. UNCHANGED <<store, cache, pc, input, rpos, col, at, hashTable>>
    BY <1>11 DEF NextLeft, ReadReleasedKey, Crash, NextMatch, vars, tableVars
  <2>2. Memory' = Memory /\ Held' = Held
    BY <2>1 DEF Memory, Held, NoBlock, BM!NoBlock
  <2> QED
    BY <2>1, <2>2 DEF Rows, Using, EndedRows, RightRow
<1>12. CASE \/ FirstBlockThrows \/ CopyThrows \/ NextLeftThrows \/ NextMatchThrows
            \/ InputThrows \/ Abandon \/ EndOfLeft \/ ReleaseBlocks \/ Close
            \/ NewJoin
  <2>1. pc' \in {"release", "closed", "first"}
    BY <1>12
    DEF FirstBlockThrows, CopyThrows, NextLeftThrows, NextMatchThrows,
        InputThrows, Abandon, EndOfLeft, ReleaseBlocks, Close, Destroy, NewJoin
  <2> QED
    BY <2>1 DEF Rows, Using
<1> QED
  BY <1>6, <1>7, <1>8, <1>9, <1>10, <1>11, <1>12 DEF Next, Join, Stopped

JoinedRows == [lhs : Nat, rhs : Seq(Nat \X Nat)]

(* What was delivered: the matches of the left rows before the current     *)
(* one, and those of the current one that are not in range any more.       *)
Results ==
  /\ delivered \in Seq(JoinedRows)
  /\ outcome = "open" <=> pc \notin {"closed", "release"}
  /\ Filling => delivered = <<>> /\ lpos = 0 /\ range = {}
  /\ pc = "match" =>
       /\ rpos = Len(input.rhs) /\ range \subseteq hashTable
       /\ \A e \in range : lpos >= 1 /\ e.row \in EJ!Matches(lpos)
       /\ \A l \in DOMAIN input.lhs, r \in DOMAIN input.rhs :
            EJ!Joined(l, r) \in EJ!Delivered <=>
              /\ r \in EJ!Matches(l)
              /\ l < lpos \/ (l = lpos /\ \A e \in range : e.row # r)

LEMMA JoinedDiffer ==
  ASSUME input \in Inputs, NEW l, NEW k,
         NEW r \in DOMAIN input.rhs, NEW s \in DOMAIN input.rhs,
         EJ!Joined(l, r) = EJ!Joined(k, s)
  PROVE  l = k /\ r = s
<1>1. \A q \in DOMAIN input.rhs : 1 \in DOMAIN input.rhs[q].sizes
  <2> TAKE q \in DOMAIN input.rhs
  <2>1. PICK sizes \in Seq(Nat) : sizes = input.rhs[q].sizes /\ Len(sizes) >= 1
    BY InputTypes
  <2> QED
    BY <2>1
<1>2. EJ!Joined(l, r).lhs = l /\ EJ!Joined(k, s).lhs = k
  BY DEF EJ!Joined
<1>3. EJ!Joined(l, r).rhs[1] = <<r, 1>> /\ EJ!Joined(k, s).rhs[1] = <<s, 1>>
  BY <1>1 DEF EJ!Joined
<1>4. <<r, 1>> = <<s, 1>>
  BY <1>3
<1> QED
  BY <1>2, <1>4

(* The row that is read is the one that was found.                         *)
LEMMA MatchRead ==
  ASSUME JoinOK, Rows, Results, pc = "match", NEW e \in range,
         Complete(e.at, Width(e))
  PROVE  /\ e.row \in DOMAIN input.rhs
         /\ [lhs |-> lpos, rhs |-> RowAt(e.at, Width(e))] = EJ!Joined(lpos, e.row)
         /\ EJ!Joined(lpos, e.row) \in JoinedRows
<1>1. /\ e \in hashTable /\ e.row \in 1 .. rpos /\ rpos = Len(input.rhs)
      /\ lpos \in Nat
  BY InputTypes DEF JoinOK, Results
<1>2. PICK r : r = e.row /\ r \in 1 .. Len(input.rhs) /\ r \in Nat
  BY <1>1, InputTypes DEF JoinOK
<1>3. r \in DOMAIN input.rhs
  BY <1>2, InputTypes DEF JoinOK
<1>4. PICK sizes \in Seq(Nat) \ {<<>>} : sizes = input.rhs[r].sizes
  <2>1. input.rhs[r].sizes \in Seq(Nat) /\ Len(input.rhs[r].sizes) >= 1
    BY <1>2, InputTypes DEF JoinOK
  <2>2. input.rhs[r].sizes # <<>>
    BY <2>1
  <2> QED
    BY <2>1, <2>2
<1>5. PICK p \in Positions : p = e.at /\ Stands(Memory, p, r, sizes)
  BY <1>1, <1>2, <1>4 DEF Rows, Using, EndedRows
<1>6. PICK n \in Nat : n = Len(sizes) /\ n = Width(e) /\ DOMAIN sizes = 1 .. n
  BY <1>2, <1>4 DEF Width
<1>7. RowAt(e.at, Width(e)) = [c \in 1 .. n |-> <<r, c>>]
  <2>1. Complete(p, Len(sizes))
    BY <1>5, <1>6
  <2>2. RowAt(p, Len(sizes)) = [c \in 1 .. Len(sizes) |-> <<r, c>>]
    BY <1>5, <2>1, ReadsStanding
  <2> QED
    BY <1>5, <1>6, <2>2
<1>8. [lhs |-> lpos, rhs |-> RowAt(e.at, Width(e))] = EJ!Joined(lpos, e.row)
  BY <1>2, <1>4, <1>6, <1>7 DEF EJ!Joined
<1>9. [c \in 1 .. n |-> <<r, c>>] \in Seq(Nat \X Nat)
  <2>1. \A c \in 1 .. n : <<r, c>> \in Nat \X Nat
    BY <1>2
  <2> QED
    BY <2>1
<1>10. EJ!Joined(lpos, e.row) \in JoinedRows
  BY <1>1, <1>7, <1>8, <1>9 DEF JoinedRows
<1> QED
  BY <1>2, <1>3, <1>8, <1>10

(* The entries found for a left row are the right rows that match it.      *)
LEMMA FoundAreMatches ==
  ASSUME JoinOK, Entries, Results, NextLeft
  PROVE  /\ \A e \in range' : e.row \in EJ!Matches(lpos + 1)
         /\ \A r \in EJ!Matches(lpos + 1) : \E e \in range' : e.row = r
<1>1. /\ pc = "match" /\ ~ TypesDiffer /\ range' \subseteq hashTable
      /\ range' = {e \in Compared(LeftKey) : SameKey(e.key, LeftKey)}
  BY DEF NextLeft, PullsLeft, Compared
<1>2. /\ rpos = Len(input.rhs) /\ DOMAIN input.rhs = 1 .. rpos
      /\ \A e \in hashTable : e.row \in 1 .. rpos /\ e.key = input.rhs[e.row].key
      /\ {e.row : e \in hashTable} = 1 .. rpos
  BY <1>1, InputTypes DEF JoinOK, Results, Entries, Using, KeyedRows, EndedRows
<1>3. ASSUME NEW e \in range'
      PROVE  e.row \in EJ!Matches(lpos + 1)
  <2>1. e \in hashTable /\ e \in Compared(LeftKey) /\ SameKey(e.key, LeftKey)
    BY <1>1 DEF Compared
  <2>2. e.key.type = LeftKey.type
    BY <1>1, <2>1 DEF TypesDiffer
  <2>3. e.row \in DOMAIN input.rhs /\ e.key = input.rhs[e.row].key
    BY <1>2, <2>1
  <2> QED
    BY <2>1, <2>2, <2>3 DEF SameKey, LeftKey, EJ!Matches, EJ!Equal
<1>4. ASSUME NEW r \in EJ!Matches(lpos + 1)
      PROVE  \E e \in range' : e.row = r
  <2>1. r \in DOMAIN input.rhs /\ EJ!Equal(LeftKey, input.rhs[r].key)
    BY DEF EJ!Matches, LeftKey
  <2>2. PICK e \in hashTable : e.row = r
    BY <1>2, <2>1
  <2>3. e.key = input.rhs[r].key
    BY <1>2, <2>2
  <2>4. Hash(e.key) = Hash(LeftKey) /\ SameKey(e.key, LeftKey)
    BY <2>1, <2>3 DEF EJ!Equal, Hash, SameKey
  <2> QED
    BY <1>1, <2>2, <2>4 DEF Compared
<1> QED
  BY <1>3, <1>4

LEMMA ResultsStep ==
  ASSUME FaultsIInv, Entries, Rows, Results, [Next]_vars
  PROVE  Results'
<1>1. JoinOK /\ input \in Inputs
  BY DEF FaultsIInv, JoinOK
<1>2. CASE FirstBlock \/ PullRight \/ CopyValue \/ CopyToNextBlock \/ EndRow
  <2>1. /\ Filling /\ pc' \in {"pull", "copy"}
        /\ UNCHANGED <<outcome, delivered, lpos, range>>
    BY <1>2
    DEF FirstBlock, PullRight, CopyValue, CopyToNextBlock, Copy, Copying, EndRow,
        Filling
  <2> QED
    BY <2>1 DEF Results, Filling
<1>3. CASE EndOfRight
  <2>1. /\ pc = "pull" /\ pc' = "match" /\ rpos = Len(input.rhs)
        /\ UNCHANGED <<outcome, delivered, lpos, range, input, rpos>>
    BY <1>3 DEF EndOfRight
  <2>2. delivered = <<>> /\ lpos = 0 /\ range = {}
    BY <2>1 DEF Results, Filling
  <2>3. EJ!Delivered' = {}
    BY <2>1, <2>2 DEF EJ!Delivered
  <2>4. \A l \in DOMAIN input.lhs : l \in Nat /\ ~ (l < 0) /\ l # 0
    BY <1>1, JoinAssumption
  <2> QED
    BY <2>1, <2>2, <2>3, <2>4 DEF Results, Filling
<1>4. CASE NextLeft
  <2>1. /\ pc = "match" /\ pc' = "match" /\ range = {} /\ lpos' = lpos + 1
        /\ range' \subseteq hashTable
        /\ UNCHANGED <<outcome, delivered, input, rpos, hashTable>>
    BY <1>4 DEF NextLeft, PullsLeft, Compared, tableVars
  <2>2. /\ \A e \in range' : e.row \in EJ!Matches(lpos')
        /\ \A r \in EJ!Matches(lpos') : \E e \in range' : e.row = r
    BY <1>1, <1>4, <2>1, FoundAreMatches
  <2>3. lpos \in Nat /\ \A l \in DOMAIN input.lhs : l \in Nat
    BY <1>1, InputTypes, JoinAssumption DEF JoinOK
  <2>4. UNCHANGED EJ!Delivered
    BY <2>1 DEF EJ!Delivered
  <2>5. \A l, r : (EJ!Joined(l, r))' = EJ!Joined(l, r) /\ (EJ!Matches(l))' = EJ!Matches(l)
    BY <2>1 DEF EJ!Joined, EJ!Matches
  <2>6. ASSUME NEW l \in DOMAIN input.lhs, NEW r \in DOMAIN input.rhs
        PROVE  EJ!Joined(l, r) \in EJ!Delivered <=>
                 /\ r \in EJ!Matches(l)
                 /\ l < lpos' \/ (l = lpos' /\ \A e \in range' : e.row # r)
    <3>1. EJ!Joined(l, r) \in EJ!Delivered <=>
            r \in EJ!Matches(l) /\ (l < lpos \/ l = lpos)
      BY <2>1 DEF Results
    <3>2. (l < lpos \/ l = lpos) <=> l < lpos'
      BY <2>1, <2>3
    <3>3. ~ (r \in EJ!Matches(l) /\ l = lpos' /\ \A e \in range' : e.row # r)
      BY <2>2
    <3> QED
      BY <3>1, <3>2, <3>3
  <2> QED
    BY <2>1, <2>2, <2>3, <2>4, <2>5, <2>6 DEF Results, Filling
<1>5. CASE NextMatch
  <2>1. PICK e \in range :
          /\ Complete(e.at, Width(e))
          /\ delivered' = Append(delivered,
                                 [lhs |-> lpos, rhs |-> RowAt(e.at, Width(e))])
          /\ range' = range \ {e}
    BY <1>5 DEF NextMatch
  <2>2. pc = "match" /\ UNCHANGED <<pc, outcome, input, rpos, lpos, hashTable>>
    BY <1>5 DEF NextMatch, tableVars
  <2>3. PICK row \in JoinedRows :
          /\ row = EJ!Joined(lpos, e.row) /\ e.row \in DOMAIN input.rhs
          /\ delivered' = Append(delivered, row)
    BY <1>1, <2>1, <2>2, MatchRead
  <2>4. delivered' \in Seq(JoinedRows) /\ EJ!Delivered' = EJ!Delivered \cup {row}
    BY <2>3 DEF Results, EJ!Delivered
  <2>5. \A l, r : (EJ!Joined(l, r))' = EJ!Joined(l, r) /\ (EJ!Matches(l))' = EJ!Matches(l)
    BY <2>2 DEF EJ!Joined, EJ!Matches
  <2>6. /\ e.row \in EJ!Matches(lpos) /\ e \in hashTable
        /\ \A f \in range : f.row = e.row => f = e
    BY <2>2 DEF Results, Entries, Using
  <2>7. lpos \in Nat /\ \A l \in DOMAIN input.lhs : l \in Nat
    BY <1>1, InputTypes, JoinAssumption DEF JoinOK
  <2>8. ASSUME NEW l \in DOMAIN input.lhs, NEW r \in DOMAIN input.rhs
        PROVE  EJ!Joined(l, r) \in EJ!Delivered' <=>
                 /\ r \in EJ!Matches(l)
                 /\ l < lpos \/ (l = lpos /\ \A f \in range' : f.row # r)
    <3>1. EJ!Joined(l, r) \in EJ!Delivered <=>
            /\ r \in EJ!Matches(l)
            /\ l < lpos \/ (l = lpos /\ \A f \in range : f.row # r)
      BY <2>2 DEF Results
    <3>2. EJ!Joined(l, r) = row <=> l = lpos /\ r = e.row
      BY <1>1, <2>3, JoinedDiffer
    <3>3. CASE l = lpos /\ r = e.row
      BY <2>1, <2>4, <2>6, <3>2, <3>3
    <3>4. CASE l # lpos
      BY <2>4, <3>1, <3>2, <3>4
    <3>5. CASE l = lpos /\ r # e.row
      BY <2>1, <2>4, <2>7, <3>1, <3>2, <3>5
    <3> QED
      BY <3>3, <3>4, <3>5
  <2> QED
    BY <2>1, <2>2, <2>4, <2>5, <2>8 DEF Results, Filling
<1>6. CASE ReadReleasedKey \/ UNCHANGED vars
  <2>1. UNCHANGED <<pc, outcome, delivered, input, rpos, lpos, range, hashTable>>
    BY <1>6 DEF ReadReleasedKey, Crash, vars, tableVars
  <2>2. UNCHANGED EJ!Delivered
    BY <2>1 DEF EJ!Delivered
  <2>3. \A l, r : (EJ!Joined(l, r))' = EJ!Joined(l, r) /\ (EJ!Matches(l))' = EJ!Matches(l)
    BY <2>1 DEF EJ!Joined, EJ!Matches
  <2> QED
    BY <2>1, <2>2, <2>3 DEF Results, Filling
<1>7. CASE \/ FirstBlockThrows \/ CopyThrows \/ NextLeftThrows \/ NextMatchThrows
           \/ InputThrows \/ Abandon \/ EndOfLeft
  <2>1. pc' = "release" /\ outcome' \in {"threw", "abandoned", "eof"}
        /\ UNCHANGED delivered
    BY <1>7
    DEF FirstBlockThrows, CopyThrows, NextLeftThrows, NextMatchThrows,
        InputThrows, Abandon, EndOfLeft, Destroy
  <2> QED
    BY <2>1 DEF Results, Filling
<1>8. CASE ReleaseBlocks \/ Close
  <2>1. pc = "release" /\ pc' \in {"release", "closed"} /\ UNCHANGED <<outcome, delivered>>
    BY <1>8 DEF ReleaseBlocks, Close
  <2> QED
    BY <2>1 DEF Results, Filling
<1>9. CASE NewJoin
  <2>1. <<>> \in Seq(JoinedRows)
    BY EmptySeq
  <2> QED
    BY <1>9, <2>1 DEF NewJoin, Results, Filling
<1> QED
  BY <1>2, <1>3, <1>4, <1>5, <1>6, <1>7, <1>8, <1>9 DEF Next, Join, Stopped

JoinIInv == FaultsIInv /\ Entries /\ Rows /\ Results

LEMMA InitJoin == Init => JoinIInv
<1> SUFFICES ASSUME Init PROVE JoinIInv
  OBVIOUS
<1>1. FaultsIInv
  BY InitFaults
<1>2. <<>> \in Seq(JoinedRows)
  BY EmptySeq
<1> QED
  BY <1>1, <1>2 DEF Init, JoinIInv, Entries, Rows, Results, Using, Filling

LEMMA SpecJoin == Spec => [](Ownership /\ JoinIInv)
<1>1. Ownership /\ Ownership' /\ JoinIInv /\ [Next]_vars => JoinIInv'
  BY FaultsStep, EntriesStep, RowsStep, ResultsStep DEF JoinIInv
<1> QED
  BY <1>1, InitJoin, SpecOwnership, PTL DEF Spec

(* A row that is delivered is one that the left row has to meet and did    *)
(* not meet before.                                                        *)
LEMMA NextMatchDelivers ==
  ASSUME JoinIInv, NextMatch
  PROVE  EJ!Deliver
<1>1. JoinOK /\ Rows /\ Results /\ Entries /\ pc = "match"
  BY DEF JoinIInv, FaultsIInv, NextMatch
<1>2. PICK e \in range :
        /\ Complete(e.at, Width(e))
        /\ delivered' = Append(delivered,
                               [lhs |-> lpos, rhs |-> RowAt(e.at, Width(e))])
  BY DEF NextMatch
<1>3. /\ e.row \in DOMAIN input.rhs
      /\ delivered' = Append(delivered, EJ!Joined(lpos, e.row))
  BY <1>1, <1>2, MatchRead
<1>4. lpos >= 1 /\ e.row \in EJ!Matches(lpos)
  BY <1>1 DEF Results
<1>5. lpos \in DOMAIN input.lhs /\ \A k \in 1 .. lpos - 1 : k \in DOMAIN input.lhs /\ k < lpos
  <2>1. input.lhs \in Seq([type : STRING, n : Nat, null : BOOLEAN])
    BY <1>1, JoinAssumption DEF JoinOK
  <2>2. lpos \in Nat /\ lpos <= Len(input.lhs) /\ Len(input.lhs) \in Nat
    BY <1>1, InputTypes DEF JoinOK
  <2> QED
    BY <1>4, <2>1, <2>2
<1>6. EJ!Joined(lpos, e.row) \notin EJ!Delivered
  <2>1. EJ!Joined(lpos, e.row) \in EJ!Delivered =>
          lpos < lpos \/ \A f \in range : f.row # e.row
    BY <1>1, <1>3, <1>5 DEF Results
  <2>2. lpos \in Nat
    BY <1>1, InputTypes DEF JoinOK
  <2>3. ~ (lpos < lpos)
    BY <2>2
  <2> QED
    BY <2>1, <2>3
<1>7. \A k \in 1 .. lpos - 1 : EJ!Exhausted(k)
  BY <1>1, <1>5 DEF Results, EJ!Exhausted, EJ!Matches
<1>8. outcome = "open" /\ UNCHANGED <<input, outcome>>
  BY <1>1 DEF NextMatch, Results
<1> QED
  BY <1>3, <1>4, <1>5, <1>6, <1>7, <1>8 DEF EJ!Deliver

LEMMA EndOfLeftEnds ==
  ASSUME JoinIInv, EndOfLeft
  PROVE  EJ!End
<1>1. /\ JoinOK /\ Results /\ pc = "match" /\ range = {}
      /\ lpos = Len(input.lhs) /\ outcome' = "eof" /\ UNCHANGED <<input, delivered>>
  BY DEF JoinIInv, FaultsIInv, EndOfLeft
<1>2. \A l \in DOMAIN input.lhs : l < lpos \/ l = lpos
  <2>1. input.lhs \in Seq([type : STRING, n : Nat, null : BOOLEAN])
    BY <1>1, JoinAssumption DEF JoinOK
  <2> QED
    BY <1>1, <2>1
<1>3. \A l \in DOMAIN input.lhs : EJ!Exhausted(l)
  BY <1>1, <1>2 DEF Results, EJ!Exhausted, EJ!Matches
<1>4. outcome = "open"
  BY <1>1 DEF Results
<1> QED
  BY <1>1, <1>3, <1>4 DEF EJ!End

LEMMA JoinStep ==
  ASSUME JoinIInv, [Next]_vars
  PROVE  [EJ!Next]_(EJ!joinVars)
<1>1. Results /\ JoinOK
  BY DEF JoinIInv, FaultsIInv
<1>2. CASE NextMatch
  BY <1>2, NextMatchDelivers DEF EJ!Next
<1>3. CASE EndOfLeft
  BY <1>3, EndOfLeftEnds DEF EJ!Next
<1>4. CASE \/ FirstBlockThrows \/ CopyThrows \/ NextLeftThrows \/ NextMatchThrows
           \/ InputThrows \/ Abandon
  <2>1. /\ pc \notin {"closed", "release"}
        /\ outcome' \in {"threw", "abandoned"} /\ UNCHANGED <<input, delivered>>
    BY <1>4
    DEF FirstBlockThrows, CopyThrows, Copying, NextLeftThrows, PullsLeft,
        NextMatchThrows, InputThrows, Abandon, Destroy
  <2>2. EJ!Stop
    BY <1>1, <2>1 DEF Results, EJ!Stop
  <2> QED
    BY <2>2 DEF EJ!Next
<1>5. CASE NewJoin
  <2>1. EJ!NextJoin
    BY <1>1, <1>5 DEF NewJoin, Results, EJ!NextJoin
  <2> QED
    BY <2>1 DEF EJ!Next
<1>6. CASE \/ FirstBlock \/ PullRight \/ CopyValue \/ CopyToNextBlock \/ EndRow
           \/ EndOfRight \/ NextLeft \/ ReadReleasedKey \/ ReleaseBlocks \/ Close
           \/ UNCHANGED vars
  <2>1. UNCHANGED <<input, delivered, outcome>>
    BY <1>6
    DEF FirstBlock, PullRight, CopyValue, CopyToNextBlock, Copy, EndRow,
        EndOfRight, NextLeft, ReadReleasedKey, Crash, ReleaseBlocks, Close, vars
  <2> QED
    BY <2>1 DEF EJ!joinVars
<1> QED
  BY <1>2, <1>3, <1>4, <1>5, <1>6 DEF Next, Join, Stopped

(* However rows and keys are spread over blocks, each left row meets       *)
(* exactly the right rows with an equal key, each once and complete, and   *)
(* an end is reported only when all of them have been delivered.           *)
THEOREM EquiJoinImplemented == Spec => ImplementsEquiJoin
<1>1. Init => EJ!Init
  BY DEF Init, EJ!Init
<1>2. JoinIInv /\ [Next]_vars => [EJ!Next]_(EJ!joinVars)
  BY JoinStep
<1> QED
  BY <1>1, <1>2, SpecJoin, PTL DEF Spec, EJ!Spec, ImplementsEquiJoin
=============================================================================
