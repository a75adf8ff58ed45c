--------------------------- MODULE RowCopiesProofs ---------------------------
(***************************************************************************)
(* Who owns the blocks while rows are copied, what is written to them, and *)
(* that what is read back is what was copied: lemmas about the operations  *)
(* of RowCopies, for the proofs about the iterators that use them.         *)
(***************************************************************************)
EXTENDS RowCopies, SequenceTheorems, WellFoundedInduction, TLAPS

(* The blocks that exist are those of the iterator, each once.             *)
Owned ==
  /\ sBlockNumber \in Nat
  /\ cache \in Seq(0 .. sBlockNumber)
  /\ blocks = {cache[i] : i \in DOMAIN cache} \ {NoBlock}
  /\ \A i, j \in DOMAIN cache : cache[i] = cache[j] => i = j \/ cache[i] = NoBlock

(* A new block has a number that no block has.                             *)
LEMMA PushOwned ==
  ASSUME Owned, NEW content, PushBlock(content)
  PROVE  Owned'
<1> DEFINE n == sBlockNumber + 1
<1>1. /\ sBlockNumber' = n /\ n \in Nat /\ n # NoBlock /\ n \notin 0 .. sBlockNumber
      /\ blocks' = blocks \cup {n} /\ cache' = Append(cache, n)
  BY DEF Owned, PushBlock, BM!CreateBlock, NoBlock, BM!NoBlock
<1>2. cache \in Seq(0 .. n) /\ Len(cache) \in Nat /\ n \in 0 .. n
  BY <1>1 DEF Owned
<1>3. cache' \in Seq(0 .. n)
  BY <1>1, <1>2
<1>4. /\ DOMAIN cache' = DOMAIN cache \cup {Len(cache) + 1}
      /\ \A i \in DOMAIN cache : cache'[i] = cache[i] /\ cache[i] \in 0 .. sBlockNumber
      /\ cache'[Len(cache) + 1] = n
  BY <1>1, <1>2 DEF Owned
<1>5. blocks' = {cache'[i] : i \in DOMAIN cache'} \ {NoBlock}
  BY <1>1, <1>4 DEF Owned
<1>6. \A i, j \in DOMAIN cache' : cache'[i] = cache'[j] => i = j \/ cache'[i] = NoBlock
  BY <1>1, <1>4 DEF Owned
<1> QED
  BY <1>1, <1>3, <1>5, <1>6 DEF Owned

(* A block that is given back is owned nowhere else.                       *)
LEMMA ReleaseOwned ==
  ASSUME Owned, ReleaseNext
  PROVE  Owned'
<1>1. PICK i \in DOMAIN cache :
        /\ cache[i] # NoBlock
        /\ BM!Release(cache[i])
        /\ cache' = [cache EXCEPT ![i] = NoBlock]
  BY DEF ReleaseNext
<1>2. blocks' = blocks \ {cache[i]} /\ sBlockNumber' = sBlockNumber
  BY <1>1 DEF BM!Release, NoBlock
<1>3. /\ DOMAIN cache' = DOMAIN cache /\ cache' \in Seq(0 .. sBlockNumber)
      /\ cache'[i] = NoBlock
      /\ \A k \in DOMAIN cache \ {i} : cache'[k] = cache[k]
  BY <1>1 DEF Owned, NoBlock, BM!NoBlock
<1> QED
  BY <1>1, <1>2, <1>3 DEF Owned

(* Where no block is created or released nothing changes hands.            *)
LEMMA SameOwned ==
  ASSUME Owned, UNCHANGED <<sBlockNumber, blocks, cache>>
  PROVE  Owned'
BY DEF Owned

LEMMA RefusedOwned ==
  ASSUME Owned, BM!CreateBlockThrows, UNCHANGED cache
  PROVE  Owned'
BY SameOwned DEF BM!CreateBlockThrows

(* An iterator that has given all of its blocks back can go.               *)
LEMMA AllReleasedOwned ==
  ASSUME Owned, AllReleased
  PROVE  blocks = {}
BY DEF Owned, AllReleased

LEMMA EmptiedOwned ==
  ASSUME Owned, AllReleased, cache' = <<>>, UNCHANGED managerVars
  PROVE  Owned'
<1>1. blocks' = {} /\ sBlockNumber' \in Nat
  BY AllReleasedOwned DEF managerVars, Owned
<1> QED
  BY <1>1 DEF Owned

(* Every operation is a call of the block manager or none.                 *)
LEMMA PushIsCall ==
  ASSUME NEW content, PushBlock(content)
  PROVE  BM!Next
BY DEF PushBlock, BM!Next

LEMMA ThrowIsCall ==
  ASSUME BM!CreateBlockThrows
  PROVE  BM!Next
BY DEF BM!Next

LEMMA ReleaseIsCall ==
  ASSUME Owned, ReleaseNext
  PROVE  BM!Next
<1>1. PICK i \in DOMAIN cache : cache[i] # NoBlock /\ BM!Release(cache[i])
  BY DEF ReleaseNext
<1>2. cache[i] \in blocks
  BY <1>1 DEF Owned
<1> QED
  BY <1>1, <1>2 DEF BM!Next
-----------------------------------------------------------------------------
(* What is written to the blocks.                                          *)

Written ==
  /\ store \in [1 .. sBlockNumber -> Contents]
  /\ MarkersFit

HasCurrent == cache # <<>> /\ cache[Len(cache)] # NoBlock

(* The current block has room for k more markers.                          *)
Room(k) == HasCurrent /\ Current.used + k <= Capacity

LEMMA ContentTypes ==
  /\ Empty \in Contents /\ Empty.used = 0
  /\ \A content \in Contents, tag \in {"AA", "BB", "CC", "DD"} :
       /\ Marked(content, tag) \in Contents
       /\ Marked(content, tag).used = content.used + 1
  /\ \A content \in Contents, l, c, size \in Nat :
       /\ Added(content, l, c, size) \in Contents
       /\ Added(content, l, c, size).used = content.used + 1 + size
  /\ \A l, c, size \in Nat :
       /\ Opened(l, c, size) \in Contents
       /\ Opened(l, c, size).used + 2 <= Capacity
<1>1. \A content \in Contents, l, c, size \in Nat :
       /\ Added(content, l, c, size) \in Contents
       /\ Added(content, l, c, size).used = content.used + 1 + size
  BY DEF Contents, Cells, Added, Value
<1>2. \A content \in Contents, tag \in {"AA", "BB", "CC", "DD"} :
       /\ Marked(content, tag) \in Contents
       /\ Marked(content, tag).used = content.used + 1
  BY DEF Contents, Cells, MarkedAt, Marked, Mark
<1>3. Empty \in Contents /\ Empty.used = 0
  BY DEF Contents, Empty
<1>4. ASSUME NEW l \in Nat, NEW c \in Nat, NEW size \in Nat
      PROVE  /\ Opened(l, c, size) \in Contents
             /\ Opened(l, c, size).used + 2 <= Capacity
  <2>1. CASE HasSizeFor(Empty, size)
    <3>1. Opened(l, c, size) = Added(Empty, l, c, size)
      BY <2>1 DEF Opened
    <3>2. Added(Empty, l, c, size) \in Contents /\ Added(Empty, l, c, size).used = 0 + 1 + size
      BY <1>1, <1>3
    <3>3. 0 + size + 2 < Capacity
      BY <1>3, <2>1 DEF HasSizeFor
    <3> QED
      BY <3>1, <3>2, <3>3, CopiesAssumption
  <2>2. CASE ~ HasSizeFor(Empty, size)
    BY <1>3, <2>2, CopiesAssumption DEF Opened
  <2> QED
    BY <2>1, <2>2
<1> QED
  BY <1>1, <1>2, <1>3, <1>4

LEMMA CurrentExists ==
  ASSUME Owned, Written, HasCurrent
  PROVE  /\ cache[Len(cache)] \in 1 .. sBlockNumber
         /\ Current \in Contents
         /\ Current.used \in Nat
<1>1. cache[Len(cache)] \in 0 .. sBlockNumber
  BY DEF Owned, HasCurrent
<1>2. cache[Len(cache)] \in 1 .. sBlockNumber
  BY <1>1 DEF Owned, HasCurrent, NoBlock, BM!NoBlock
<1> QED
  BY <1>2 DEF Written, Current, Contents

(* Another content of the current block that fits.                         *)
LEMMA WriteKeeps ==
  ASSUME Owned, Written, HasCurrent, UNCHANGED <<sBlockNumber, cache>>,
         NEW content \in Contents, content.used <= Capacity,
         store' = [store EXCEPT ![cache[Len(cache)]] = content]
  PROVE  Written' /\ HasCurrent' /\ Current' = content
<1>1. PICK b \in 1 .. sBlockNumber : b = cache[Len(cache)]
  BY CurrentExists
<1>2. store' = [store EXCEPT ![b] = content]
  BY <1>1
<1>3. store' \in [1 .. sBlockNumber -> Contents] /\ store'[b] = content
  BY <1>2 DEF Written
<1>4. \A d \in 1 .. sBlockNumber : store'[d].used <= Capacity
  BY <1>2 DEF Written, MarkersFit
<1> QED
  BY <1>1, <1>3, <1>4
  DEF Written, MarkersFit, HasCurrent, Current, NoBlock, BM!NoBlock

LEMMA MarkKeeps ==
  ASSUME Owned, Written, NEW k \in Nat, Room(k + 1),
         NEW tag \in {"AA", "BB", "CC", "DD"}, WriteMark(tag)
  PROVE  Written' /\ Room(k)'
<1>1. PICK content \in Contents : content = Marked(Current, tag)
  BY CurrentExists, ContentTypes DEF Room
<1>2. content.used = Current.used + 1 /\ Current.used \in Nat
  BY <1>1, CurrentExists, ContentTypes DEF Room
<1>3. content.used + k <= Capacity
  BY <1>2, CopiesAssumption DEF Room
<1>4. content.used <= Capacity
  BY <1>2, <1>3, CopiesAssumption
<1>5. store' = [store EXCEPT ![cache[Len(cache)]] = content]
  BY <1>1 DEF WriteMark, Current
<1>6. Written' /\ HasCurrent' /\ Current' = content
  BY <1>4, <1>5, WriteKeeps DEF Room, WriteMark, managerVars
<1> QED
  BY <1>3, <1>6 DEF Room

LEMMA AddKeeps ==
  ASSUME Owned, Written, HasCurrent, NEW r \in Nat, NEW c \in Nat,
         NEW size \in Nat, AddToCurrent(r, c, size)
  PROVE  Written' /\ Room(2)'
<1>1. PICK current \in Contents : current = Current /\ current.used \in Nat
  BY CurrentExists
<1> DEFINE content == Added(current, r, c, size)
<1>2. content \in Contents /\ content.used = current.used + 1 + size
  BY ContentTypes
<1>3. current.used + size + 2 < Capacity
  BY <1>1 DEF AddToCurrent, HasSizeFor
<1>4. content.used \in Nat /\ content.used + 2 <= Capacity /\ content.used <= Capacity
  BY <1>1, <1>2, <1>3, CopiesAssumption
<1>5. store' = [store EXCEPT ![cache[Len(cache)]] = content]
  BY <1>1 DEF AddToCurrent, Current
<1> HIDE DEF content
<1>6. Written' /\ HasCurrent' /\ Current' = content
  BY <1>2, <1>4, <1>5, WriteKeeps DEF AddToCurrent, managerVars
<1> QED
  BY <1>4, <1>6 DEF Room

(* The block before the new one had room for its marker.                   *)
LEMMA PushKeeps ==
  ASSUME Owned, Written, cache = <<>> \/ Room(1),
         NEW content \in Contents, content.used <= Capacity, PushBlock(content)
  PROVE  Written' /\ HasCurrent' /\ Current' = content
<1> DEFINE n == sBlockNumber + 1
<1>1. /\ sBlockNumber' = n /\ n \in Nat /\ n # NoBlock
      /\ cache' = Append(cache, n)
  BY DEF Owned, PushBlock, BM!CreateBlock, NoBlock, BM!NoBlock
<1>2. Len(cache') = Len(cache) + 1 /\ cache'[Len(cache')] = n /\ cache' # <<>>
  BY <1>1 DEF Owned
<1>3. ASSUME NEW b \in 1 .. n
      PROVE  store'[b] \in Contents /\ store'[b].used <= Capacity
  <2>1. CASE b = n
    BY <1>1, <2>1 DEF PushBlock
  <2>2. CASE b # n /\ cache # <<>> /\ b = cache[Len(cache)]
    <3>1. b \in 1 .. sBlockNumber /\ store'[b] = Marked(store[b], "CC")
      BY <1>1, <2>2 DEF PushBlock, Owned
    <3>2. store[b] \in Contents /\ store[b].used + 1 <= Capacity
      BY <2>2, <3>1 DEF Written, Room, Current
    <3> QED
      BY <3>1, <3>2, ContentTypes
  <2>3. CASE b # n /\ ~ (cache # <<>> /\ b = cache[Len(cache)])
    <3>1. b \in 1 .. sBlockNumber /\ store'[b] = store[b]
      BY <1>1, <2>3 DEF PushBlock, Owned
    <3> QED
      BY <3>1 DEF Written, MarkersFit
  <2> QED
    BY <2>1, <2>2, <2>3
<1>4. DOMAIN store' = 1 .. n /\ store'[n] = content
  <2>1. n \in 1 .. n
    BY DEF Owned
  <2> QED
    BY <1>1, <2>1 DEF PushBlock
<1>5. store' \in [1 .. n -> Contents]
  BY <1>3, <1>4 DEF PushBlock
<1> QED
  BY <1>1, <1>2, <1>3, <1>4, <1>5
  DEF Written, MarkersFit, HasCurrent, Current, NoBlock, BM!NoBlock

LEMMA ThrowKeeps ==
  ASSUME Owned, Written, Room(1), NEW size, AddThrows(size)
  PROVE  Written'
<1>1. PICK content \in Contents : content = Marked(Current, "CC")
  BY CurrentExists, ContentTypes DEF Room
<1>2. content.used = Current.used + 1
  BY <1>1, CurrentExists, ContentTypes DEF Room
<1>3. store' = [store EXCEPT ![cache[Len(cache)]] = content]
  BY <1>1 DEF AddThrows, Current
<1> QED
  BY <1>2, <1>3, WriteKeeps DEF Room, AddThrows, BM!CreateBlockThrows

LEMMA SameWritten ==
  ASSUME Written, UNCHANGED <<sBlockNumber, store>>
  PROVE  Written'
BY DEF Written, MarkersFit

-----------------------------------------------------------------------------
(* The block manager below keeps its types.                                *)
BMP == INSTANCE BlockManagerProofs

LEMMA ManagerTypes == BM!Spec => []BM!TypeOK
<1>1. MaxActiveBlocks \in Nat
  BY CopiesAssumption
<1>2. BMP!Spec => []BMP!TypeOK
  BY <1>1, BMP!TypeCorrect
<1>3. BM!Init => BMP!Init
  BY DEF BM!Init, BMP!Init
<1>4. [BM!Next]_BM!managerVars => [BMP!Next]_BMP!managerVars
  BY DEF BM!Next, BMP!Next, BM!managerVars, BMP!managerVars, BM!CreateBlock,
         BMP!CreateBlock, BM!CountRequest, BMP!CountRequest, BM!CreateBlockThrows,
         BMP!CreateBlockThrows, BM!Release, BMP!Release, BM!NoBlock, BMP!NoBlock
<1>5. BMP!TypeOK => BM!TypeOK
  BY DEF BM!TypeOK, BMP!TypeOK
<1> QED
  BY <1>2, <1>3, <1>4, <1>5, PTL DEF BM!Spec, BMP!Spec
-----------------------------------------------------------------------------
(* What is read back.                                                      *)

(* The cells of the blocks of the iterator, one block after the other.     *)
Memories == Seq(Seq(Cells))
Memory == [k \in DOMAIN cache |-> store[cache[k]].cells]

(* The iterator has each of its blocks once, and every block contents.  All *)
(* of this, and no more, is what a reader needs of the two invariants      *)
(* above: there may be blocks that are somebody else's.                    *)
Filed ==
  /\ sBlockNumber \in Nat
  /\ cache \in Seq(0 .. sBlockNumber)
  /\ \A i, j \in DOMAIN cache : cache[i] = cache[j] => i = j \/ cache[i] = NoBlock
Stored == store \in [1 .. sBlockNumber -> Contents]

LEMMA OwnedFiled == Owned /\ Written => Filed /\ Stored
BY DEF Owned, Written, Filed, Stored

(* No block was given back.                                                *)
Held == \A k \in DOMAIN cache : cache[k] # NoBlock

(* The position in mem at which the next cell is put, a cell put there,    *)
(* and a block opened.                                                     *)
EndOf(mem) == [block |-> Len(mem), offset |-> Len(mem[Len(mem)])]
Put(mem, cell) == [mem EXCEPT ![Len(mem)] = Append(@, cell)]
Fresh(mem) == Append(mem, <<>>)
NextBlock == Mark("CC", 0, 0)

Positions == [block : Nat \ {0}, offset : Nat]
IsIn(mem, p) ==
  p.block \in DOMAIN mem /\ p.offset + 1 \in DOMAIN mem[p.block]
CellIn(mem, p) == mem[p.block][p.offset + 1]
Onward(mem, p) ==
  IF CellIn(mem, p).tag = "CC" THEN [block |-> p.block + 1, offset |-> 0] ELSE p

(* Nothing that was written changes.                                       *)
Grows(mem, new) ==
  \A p \in Positions :
    IsIn(mem, p) => IsIn(new, p) /\ CellIn(new, p) = CellIn(mem, p)

(* From p on c values are read, at the positions pos; behind them the      *)
(* reader is at Behind(pos, c, p).                                         *)
Behind(pos, c, p) == IF c = 0 THEN p ELSE After(pos[c])
Link(mem, p, q) ==
  IsIn(mem, p) /\ q = Onward(mem, p) /\ IsIn(mem, q) /\ CellIn(mem, q).tag = "AA"
Chain(mem, pos, c, p) ==
  /\ pos \in [1 .. c -> Positions]
  /\ \A i \in 1 .. c : Link(mem, Behind(pos, i - 1, p), pos[i])

(* They are the values of row r.                                           *)
Holds(mem, pos, c, r) == \A i \in 1 .. c : CellIn(mem, pos[i]) = Value(r, i)

(* A reader at p will meet what is written next; or what it meets is the   *)
(* end of a row or of another block.                                       *)
Waits(mem, p) ==
  \/ p = EndOf(mem)
  \/ IsIn(mem, p) /\ CellIn(mem, p).tag = "CC" /\ Onward(mem, p) = EndOf(mem)
Stuck(mem, p) ==
  IsIn(mem, p) /\ IsIn(mem, Onward(mem, p))
  /\ CellIn(mem, Onward(mem, p)).tag \in {"BB", "CC"}

(* The first c values of row r were copied from position p on: all of      *)
(* them, or one was too large for any block.                               *)
WholeSoFar(mem, p, r, c) ==
  \E pos \in [1 .. c -> Positions] :
    Chain(mem, pos, c, p) /\ Holds(mem, pos, c, r) /\ Behind(pos, c, p) = EndOf(mem)
CutSoFar(mem, p, c) ==
  \E m \in 0 .. c - 1 : \E pos \in [1 .. m -> Positions] :
    /\ Chain(mem, pos, m, p)
    /\ Waits(mem, Behind(pos, m, p)) \/ Stuck(mem, Behind(pos, m, p))
Fit(sizes, c) == \A i \in 1 .. c : HasSizeFor(Empty, sizes[i])
Copied(mem, p, r, sizes, c) ==
  IF Fit(sizes, c) THEN WholeSoFar(mem, p, r, c) ELSE CutSoFar(mem, p, c)

(* The row of n values was copied, and the marker behind it, which is at q *)
(* then.                                                                   *)
Whole(mem, p, q, r, n) ==
  \E pos \in [1 .. n -> Positions] :
    /\ Chain(mem, pos, n, p) /\ Holds(mem, pos, n, r)
    /\ q = Behind(pos, n, p) /\ IsIn(mem, q) /\ CellIn(mem, q).tag = "BB"
Cut(mem, p, n) ==
  \E m \in 0 .. n - 1 : \E pos \in [1 .. m -> Positions] :
    Chain(mem, pos, m, p) /\ Stuck(mem, Behind(pos, m, p))
Spans(mem, p, q, r, sizes) ==
  IF Fit(sizes, Len(sizes)) THEN Whole(mem, p, q, r, Len(sizes))
  ELSE Cut(mem, p, Len(sizes))
Stands(mem, p, r, sizes) == \E q \in Positions : Spans(mem, p, q, r, sizes)

(* A cell that is put, and a block that is opened.                         *)
LEMMA EndPosition ==
  ASSUME NEW mem \in Memories, mem # <<>>
  PROVE  /\ EndOf(mem) \in Positions /\ After(EndOf(mem)) \in Positions
         /\ Len(mem) \in DOMAIN mem /\ mem[Len(mem)] \in Seq(Cells)
BY DEF Memories, EndOf, Positions, After

LEMMA PutCell ==
  ASSUME NEW mem \in Memories, mem # <<>>, NEW cell \in Cells
  PROVE  LET new == Put(mem, cell) IN
         /\ new \in Memories /\ new # <<>> /\ Len(new) = Len(mem)
         /\ Grows(mem, new)
         /\ IsIn(new, EndOf(mem)) /\ CellIn(new, EndOf(mem)) = cell
         /\ EndOf(new) = After(EndOf(mem))
<1> DEFINE new == Put(mem, cell)
<1>1. PICK n : n = Len(mem) /\ n \in DOMAIN mem /\ n \in Nat \ {0} /\ mem[n] \in Seq(Cells)
  BY EndPosition DEF Memories
<1>2. PICK last \in Seq(Cells) : last = Append(mem[n], cell)
  BY <1>1, AppendProperties
<1>3. /\ Len(last) = Len(mem[n]) + 1 /\ last[Len(mem[n]) + 1] = cell
      /\ DOMAIN last = 1 .. Len(mem[n]) + 1 /\ DOMAIN mem[n] = 1 .. Len(mem[n])
      /\ Len(mem[n]) \in Nat
      /\ \A i \in DOMAIN mem[n] : i \in DOMAIN last /\ last[i] = mem[n][i]
  BY <1>1, <1>2
<1>4. new = [mem EXCEPT ![n] = last]
  BY <1>1, <1>2 DEF Put
<1>5. /\ new \in Memories /\ Len(new) = n /\ new # <<>> /\ DOMAIN new = DOMAIN mem
      /\ new[n] = last /\ \A k \in DOMAIN mem : k # n => new[k] = mem[k]
  BY <1>1, <1>4 DEF Memories
<1> HIDE DEF new
<1>6. Grows(mem, new)
  <2> SUFFICES ASSUME NEW p \in Positions, IsIn(mem, p)
               PROVE  IsIn(new, p) /\ CellIn(new, p) = CellIn(mem, p)
    BY DEF Grows
  <2>1. CASE p.block = n
    BY <1>3, <1>5, <2>1 DEF IsIn, CellIn
  <2>2. CASE p.block # n
    BY <1>5, <2>2 DEF IsIn, CellIn
  <2> QED
    BY <2>1, <2>2
<1>7. IsIn(new, EndOf(mem)) /\ CellIn(new, EndOf(mem)) = cell
  BY <1>1, <1>3, <1>5 DEF IsIn, CellIn, EndOf
<1>8. EndOf(new) = After(EndOf(mem))
  BY <1>1, <1>3, <1>5 DEF EndOf, After
<1> QED
  BY <1>1, <1>5, <1>6, <1>7, <1>8 DEF new

LEMMA FreshBlock ==
  ASSUME NEW mem \in Memories
  PROVE  LET new == Fresh(mem) IN
         /\ new \in Memories /\ new # <<>> /\ Len(new) = Len(mem) + 1
         /\ Grows(mem, new)
         /\ EndOf(new) = [block |-> Len(mem) + 1, offset |-> 0]
<1> DEFINE new == Fresh(mem)
<1>1. /\ new \in Memories /\ Len(new) = Len(mem) + 1 /\ new # <<>>
      /\ new[Len(mem) + 1] = <<>>
      /\ \A k \in DOMAIN mem : k \in DOMAIN new /\ new[k] = mem[k]
  <2>1. PICK none \in Seq(Cells) : none = <<>>
    BY EmptySeq
  <2>2. mem \in Seq(Seq(Cells)) /\ new = Append(mem, none)
    BY <2>1 DEF Fresh, Memories
  <2> HIDE DEF new
  <2>3. /\ new \in Seq(Seq(Cells)) /\ new # <<>>
        /\ Len(new) = Len(mem) + 1
        /\ \A k \in 1 .. Len(mem) : new[k] = mem[k]
        /\ new[Len(mem) + 1] = none
    BY <2>2, AppendProperties
  <2> QED
    BY <2>1, <2>2, <2>3 DEF Memories
<1> HIDE DEF new
<1>2. Grows(mem, new)
  BY <1>1 DEF Grows, IsIn, CellIn
<1>3. EndOf(new) = [block |-> Len(mem) + 1, offset |-> 0]
  BY <1>1 DEF EndOf
<1> QED
  BY <1>1, <1>2, <1>3 DEF new

LEMMA GrowsOn ==
  ASSUME NEW mem, NEW new, NEW newer, Grows(mem, new), Grows(new, newer)
  PROVE  Grows(mem, newer)
BY DEF Grows

(* What was read stays, and the reader goes on from there.                 *)
LEMMA OnwardTypes ==
  ASSUME NEW mem, NEW p \in Positions
  PROVE  Onward(mem, p) \in Positions /\ After(p) \in Positions
BY DEF Onward, After, Positions

LEMMA BehindTypes ==
  ASSUME NEW c \in Nat, NEW p \in Positions, NEW pos \in [1 .. c -> Positions],
         NEW i \in 0 .. c
  PROVE  Behind(pos, i, p) \in Positions
<1>1. CASE i = 0
  BY <1>1 DEF Behind
<1>2. CASE i # 0
  <2>1. pos[i] \in Positions
    BY <1>2
  <2> QED
    BY <1>2, <2>1, OnwardTypes DEF Behind
<1> QED
  BY <1>1, <1>2

LEMMA LinkGrows ==
  ASSUME NEW mem, NEW new, Grows(mem, new), NEW p \in Positions,
         NEW q \in Positions, Link(mem, p, q)
  PROVE  Link(new, p, q) /\ CellIn(new, q) = CellIn(mem, q)
BY DEF Grows, Link, Onward

LEMMA StuckGrows ==
  ASSUME NEW mem, NEW new, Grows(mem, new), NEW p \in Positions, Stuck(mem, p)
  PROVE  Stuck(new, p)
<1>1. Onward(mem, p) \in Positions
  BY OnwardTypes
<1>2. Onward(new, p) = Onward(mem, p)
  BY DEF Stuck, Grows, Onward
<1> QED
  BY <1>1, <1>2 DEF Stuck, Grows

LEMMA ChainGrows ==
  ASSUME NEW mem, NEW new, Grows(mem, new), NEW p \in Positions,
         NEW c \in Nat, NEW pos, Chain(mem, pos, c, p)
  PROVE  /\ Chain(new, pos, c, p)
         /\ \A i \in 1 .. c : CellIn(new, pos[i]) = CellIn(mem, pos[i])
<1>1. pos \in [1 .. c -> Positions]
  BY DEF Chain
<1>2. ASSUME NEW i \in 1 .. c
      PROVE  /\ Link(new, Behind(pos, i - 1, p), pos[i])
             /\ CellIn(new, pos[i]) = CellIn(mem, pos[i])
  <2>1. PICK q \in Positions : q = Behind(pos, i - 1, p)
    BY <1>1, BehindTypes
  <2>2. pos[i] \in Positions /\ Link(mem, q, pos[i])
    BY <1>1, <2>1 DEF Chain
  <2> QED
    BY <2>1, <2>2, LinkGrows
<1> QED
  BY <1>1, <1>2 DEF Chain

Longer(pos, c, q) == [i \in 1 .. c + 1 |-> IF i = c + 1 THEN q ELSE pos[i]]

LEMMA ChainExtends ==
  ASSUME NEW mem, NEW p \in Positions, NEW c \in Nat, NEW pos,
         Chain(mem, pos, c, p), NEW q \in Positions,
         Link(mem, Behind(pos, c, p), q)
  PROVE  LET new == Longer(pos, c, q) IN
         /\ new \in [1 .. c + 1 -> Positions]
         /\ Chain(mem, new, c + 1, p) /\ Behind(new, c + 1, p) = After(q)
         /\ new[c + 1] = q /\ \A i \in 1 .. c : new[i] = pos[i]
<1> DEFINE new == Longer(pos, c, q)
<1>1. pos \in [1 .. c -> Positions]
  BY DEF Chain
<1>2. /\ new \in [1 .. c + 1 -> Positions]
      /\ new[c + 1] = q /\ \A i \in 1 .. c : new[i] = pos[i]
  BY <1>1 DEF Longer
<1> HIDE DEF new
<1>3. \A i \in 0 .. c : Behind(new, i, p) = Behind(pos, i, p)
  BY <1>2 DEF Behind
<1>4. ASSUME NEW i \in 1 .. c + 1
      PROVE  Link(mem, Behind(new, i - 1, p), new[i])
  <2>1. CASE i = c + 1
    <3>1. i - 1 = c /\ c \in 0 .. c
      BY <2>1
    <3> QED
      BY <1>2, <1>3, <2>1, <3>1
  <2>2. CASE i \in 1 .. c
    <3>1. i - 1 \in 0 .. c
      BY <2>2
    <3> QED
      BY <1>2, <1>3, <2>2, <3>1 DEF Chain
  <2> QED
    BY <2>1, <2>2
<1>5. Chain(mem, new, c + 1, p)
  BY <1>2, <1>4 DEF Chain
<1>6. Behind(new, c + 1, p) = After(q)
  BY <1>2 DEF Behind
<1> QED
  BY <1>2, <1>5, <1>6 DEF new

(* A row stays where it is.                                                *)
LEMMA SpanGrows ==
  ASSUME NEW mem, NEW new, Grows(mem, new), NEW p \in Positions,
         NEW q \in Positions, NEW r, NEW sizes \in Seq(Nat),
         Spans(mem, p, q, r, sizes)
  PROVE  Spans(new, p, q, r, sizes)
<1>1. PICK n \in Nat : n = Len(sizes)
  OBVIOUS
<1>2. CASE Fit(sizes, n)
  <2>1. PICK pos \in [1 .. n -> Positions] :
          /\ Chain(mem, pos, n, p) /\ Holds(mem, pos, n, r)
          /\ q = Behind(pos, n, p) /\ IsIn(mem, q) /\ CellIn(mem, q).tag = "BB"
    BY <1>1, <1>2 DEF Spans, Whole
  <2>2. Chain(new, pos, n, p) /\ Holds(new, pos, n, r)
    BY <2>1, ChainGrows DEF Holds
  <2>3. IsIn(new, q) /\ CellIn(new, q).tag = "BB"
    BY <2>1 DEF Grows
  <2> QED
    BY <1>1, <1>2, <2>1, <2>2, <2>3 DEF Spans, Whole
<1>3. CASE ~ Fit(sizes, n)
  <2>1. PICK m \in 0 .. n - 1 : \E pos \in [1 .. m -> Positions] :
          Chain(mem, pos, m, p) /\ Stuck(mem, Behind(pos, m, p))
    BY <1>1, <1>3 DEF Spans, Cut
  <2>2. PICK pos \in [1 .. m -> Positions] :
          Chain(mem, pos, m, p) /\ Stuck(mem, Behind(pos, m, p))
    BY <2>1
  <2>3. m \in Nat /\ Behind(pos, m, p) \in Positions
    BY BehindTypes
  <2>4. Chain(new, pos, m, p) /\ Stuck(new, Behind(pos, m, p))
    BY <2>2, <2>3, ChainGrows, StuckGrows
  <2> QED
    BY <1>1, <1>3, <2>4 DEF Spans, Cut
<1> QED
  BY <1>2, <1>3

LEMMA StandsGrows ==
  ASSUME NEW mem, NEW new, Grows(mem, new), NEW p \in Positions,
         NEW r, NEW sizes \in Seq(Nat), Stands(mem, p, r, sizes)
  PROVE  Stands(new, p, r, sizes)
BY SpanGrows DEF Stands

(* A value put behind a whole row so far, in the same block or the next;   *)
(* or it fits into none.                                                   *)
LEMMA WholeAdded ==
  ASSUME NEW mem \in Memories, mem # <<>>, NEW p \in Positions, NEW r \in Nat,
         NEW c \in Nat, NEW pos, Chain(mem, pos, c, p), Holds(mem, pos, c, r),
         Waits(mem, Behind(pos, c, p))
  PROVE  WholeSoFar(Put(mem, Value(r, c + 1)), p, r, c + 1)
<1> DEFINE cell == Value(r, c + 1)
           new == Put(mem, cell)
           end == EndOf(mem)
<1>1. cell \in Cells /\ cell.tag = "AA"
  BY DEF Cells, Value
<1> HIDE DEF cell
<1>2. /\ Grows(mem, new) /\ IsIn(new, end) /\ CellIn(new, end) = cell
      /\ EndOf(new) = After(end)
  BY <1>1, PutCell
<1> HIDE DEF new
<1>3. PICK u \in Positions : u = Behind(pos, c, p)
  BY BehindTypes DEF Chain
<1>4. end \in Positions
  BY EndPosition
<1>5. Link(new, u, end)
  <2>1. CASE u = end
    BY <1>1, <1>2, <2>1 DEF Link, Onward
  <2>2. CASE IsIn(mem, u) /\ CellIn(mem, u).tag = "CC" /\ Onward(mem, u) = end
    <3>1. IsIn(new, u) /\ CellIn(new, u) = CellIn(mem, u)
      BY <1>2, <2>2 DEF Grows
    <3>2. Onward(new, u) = end
      BY <2>2, <3>1 DEF Onward
    <3> QED
      BY <1>1, <1>2, <3>1, <3>2 DEF Link
  <2> HIDE DEF end
  <2> QED
    BY <1>3, <2>1, <2>2 DEF Waits, end
<1>6. /\ Chain(new, pos, c, p)
      /\ \A i \in 1 .. c : CellIn(new, pos[i]) = CellIn(mem, pos[i])
  BY <1>2, ChainGrows
<1>7. PICK longer \in [1 .. c + 1 -> Positions] :
        /\ Chain(new, longer, c + 1, p) /\ Behind(longer, c + 1, p) = After(end)
        /\ longer[c + 1] = end /\ \A i \in 1 .. c : longer[i] = pos[i]
  <2>1. Link(new, Behind(pos, c, p), end)
    BY <1>3, <1>5
  <2> DEFINE longer == Longer(pos, c, end)
  <2> HIDE DEF end
  <2>2. /\ longer \in [1 .. c + 1 -> Positions]
        /\ Chain(new, longer, c + 1, p) /\ Behind(longer, c + 1, p) = After(end)
        /\ longer[c + 1] = end /\ \A i \in 1 .. c : longer[i] = pos[i]
    BY <1>4, <1>6, <2>1, ChainExtends
  <2> HIDE DEF longer
  <2> QED
    BY <2>2
<1>8. Holds(new, longer, c + 1, r)
  <2> SUFFICES ASSUME NEW i \in 1 .. c + 1
               PROVE  CellIn(new, longer[i]) = Value(r, i)
    BY DEF Holds
  <2>1. CASE i = c + 1
    BY <1>2, <1>7, <2>1 DEF cell
  <2>2. CASE i \in 1 .. c
    BY <1>6, <1>7, <2>2 DEF Holds
  <2> QED
    BY <2>1, <2>2
<1> QED
  BY <1>2, <1>7, <1>8 DEF WholeSoFar, new, cell

(* The block is closed: the reader goes on to the next.                    *)
LEMMA Closed ==
  ASSUME NEW mem \in Memories, mem # <<>>
  PROVE  LET new == Fresh(Put(mem, NextBlock)) IN
         /\ new \in Memories /\ new # <<>> /\ Grows(mem, new)
         /\ \A p \in Positions : Waits(mem, p) => Waits(new, p) \/ Stuck(new, p)
         /\ Waits(new, EndOf(mem))
<1>1. NextBlock \in Cells /\ NextBlock.tag = "CC"
  BY DEF NextBlock, Mark, Cells
<1> DEFINE marked == Put(mem, NextBlock)
           new == Fresh(marked)
           end == EndOf(mem)
<1>2. /\ marked \in Memories /\ Len(marked) = Len(mem) /\ Grows(mem, marked)
      /\ IsIn(marked, end) /\ CellIn(marked, end).tag = "CC"
  BY <1>1, PutCell
<1> HIDE DEF marked
<1>3. /\ new \in Memories /\ new # <<>> /\ Grows(marked, new)
      /\ EndOf(new) = [block |-> Len(mem) + 1, offset |-> 0]
  BY <1>2, FreshBlock
<1> HIDE DEF new
<1>4. Grows(mem, new)
  BY <1>2, <1>3, GrowsOn
<1>5. end \in Positions /\ end.block = Len(mem)
  BY EndPosition DEF EndOf
<1>6. IsIn(new, end) /\ CellIn(new, end).tag = "CC"
  BY <1>2, <1>3, <1>5 DEF Grows
<1>7. Onward(new, end) = EndOf(new)
  BY <1>3, <1>5, <1>6 DEF Onward
<1>8. Waits(new, end)
  BY <1>6, <1>7 DEF Waits
<1>9. ASSUME NEW p \in Positions, Waits(mem, p)
      PROVE  Waits(new, p) \/ Stuck(new, p)
  <2>1. CASE p = end
    BY <1>8, <2>1
  <2>2. CASE IsIn(mem, p) /\ CellIn(mem, p).tag = "CC" /\ Onward(mem, p) = end
    <3>1. IsIn(new, p) /\ CellIn(new, p) = CellIn(mem, p)
      BY <1>4, <2>2 DEF Grows
    <3>2. Onward(new, p) = end
      BY <2>2, <3>1 DEF Onward
    <3> QED
      BY <1>6, <3>1, <3>2 DEF Stuck
  <2> QED
    BY <1>9, <2>1, <2>2 DEF Waits
<1> QED
  BY <1>3, <1>4, <1>8, <1>9 DEF new, marked

(* A value put behind a row that is cut.                                   *)
LEMMA CutAdded ==
  ASSUME NEW mem \in Memories, mem # <<>>, NEW p \in Positions,
         NEW c \in Nat, CutSoFar(mem, p, c),
         NEW cell \in Cells, cell.tag = "AA"
  PROVE  CutSoFar(Put(mem, cell), p, c + 1)
<1> DEFINE new == Put(mem, cell)
           end == EndOf(mem)
<1>1. /\ Grows(mem, new) /\ IsIn(new, end) /\ CellIn(new, end) = cell
      /\ EndOf(new) = After(end) /\ end \in Positions
  BY PutCell, EndPosition
<1> HIDE DEF new
<1>2. PICK m \in 0 .. c - 1 : \E pos \in [1 .. m -> Positions] :
        /\ Chain(mem, pos, m, p)
        /\ Waits(mem, Behind(pos, m, p)) \/ Stuck(mem, Behind(pos, m, p))
  BY DEF CutSoFar
<1>3. PICK pos \in [1 .. m -> Positions] :
        /\ Chain(mem, pos, m, p)
        /\ Waits(mem, Behind(pos, m, p)) \/ Stuck(mem, Behind(pos, m, p))
  BY <1>2
<1>4. PICK u \in Positions : u = Behind(pos, m, p)
  BY BehindTypes
<1>5. Chain(new, pos, m, p) /\ m \in Nat
  BY <1>1, <1>3, ChainGrows
<1>6. CASE Stuck(mem, u)
  <2>1. Stuck(new, Behind(pos, m, p))
    BY <1>1, <1>4, <1>6, StuckGrows
  <2>2. m \in 0 .. (c + 1) - 1
    OBVIOUS
  <2> QED
    BY <1>3, <1>5, <2>1, <2>2 DEF CutSoFar, new
<1>7. CASE Waits(mem, u)
  <2>1. Link(new, u, end)
    <3>1. CASE u = end
      BY <1>1, <3>1 DEF Link, Onward
    <3>2. CASE IsIn(mem, u) /\ CellIn(mem, u).tag = "CC" /\ Onward(mem, u) = end
      <4>1. IsIn(new, u) /\ CellIn(new, u) = CellIn(mem, u)
        BY <1>1, <3>2 DEF Grows
      <4>2. Onward(new, u) = end
        BY <3>2, <4>1 DEF Onward
      <4> QED
        BY <1>1, <4>1, <4>2 DEF Link
    <3> HIDE DEF end
    <3> QED
      BY <1>7, <3>1, <3>2 DEF Waits, end
  <2>2. PICK longer \in [1 .. m + 1 -> Positions] :
          Chain(new, longer, m + 1, p) /\ Behind(longer, m + 1, p) = EndOf(new)
    <3>1. Link(new, Behind(pos, m, p), end)
      BY <1>4, <2>1
    <3> DEFINE longer == Longer(pos, m, end)
    <3> HIDE DEF end
    <3>2. /\ longer \in [1 .. m + 1 -> Positions]
          /\ Chain(new, longer, m + 1, p) /\ Behind(longer, m + 1, p) = After(end)
      BY <1>1, <1>5, <3>1, ChainExtends
    <3> HIDE DEF longer
    <3> QED
      BY <1>1, <3>2
  <2>3. m + 1 \in 0 .. (c + 1) - 1
    OBVIOUS
  <2> QED
    BY <2>2, <2>3 DEF CutSoFar, Waits, new
<1> QED
  BY <1>3, <1>4, <1>6, <1>7

(* A row that is cut when its block is closed, and one that is cut then.   *)
LEMMA CutClosed ==
  ASSUME NEW mem \in Memories, mem # <<>>, NEW p \in Positions,
         NEW c \in Nat, CutSoFar(mem, p, c)
  PROVE  CutSoFar(Fresh(Put(mem, NextBlock)), p, c)
<1> DEFINE new == Fresh(Put(mem, NextBlock))
<1>1. /\ Grows(mem, new)
      /\ \A u \in Positions : Waits(mem, u) => Waits(new, u) \/ Stuck(new, u)
  BY Closed
<1> HIDE DEF new
<1>2. PICK m \in 0 .. c - 1 : \E pos \in [1 .. m -> Positions] :
        /\ Chain(mem, pos, m, p)
        /\ Waits(mem, Behind(pos, m, p)) \/ Stuck(mem, Behind(pos, m, p))
  BY DEF CutSoFar
<1>3. PICK pos \in [1 .. m -> Positions] :
        /\ Chain(mem, pos, m, p)
        /\ Waits(mem, Behind(pos, m, p)) \/ Stuck(mem, Behind(pos, m, p))
  BY <1>2
<1>4. Behind(pos, m, p) \in Positions
  BY BehindTypes
<1>5. Chain(new, pos, m, p) /\ m \in Nat
  BY <1>1, <1>3, ChainGrows
<1>6. Waits(new, Behind(pos, m, p)) \/ Stuck(new, Behind(pos, m, p))
  BY <1>1, <1>3, <1>4, StuckGrows
<1> QED
  BY <1>2, <1>5, <1>6 DEF CutSoFar, new

LEMMA CutLonger ==
  ASSUME NEW mem, NEW p, NEW c \in Nat, CutSoFar(mem, p, c)
  PROVE  CutSoFar(mem, p, c + 1)
<1>1. 0 .. c - 1 \subseteq 0 .. (c + 1) - 1
  OBVIOUS
<1> QED
  BY <1>1 DEF CutSoFar

LEMMA WholeBreaks ==
  ASSUME NEW mem \in Memories, mem # <<>>, NEW p \in Positions, NEW r,
         NEW c \in Nat, WholeSoFar(mem, p, r, c)
  PROVE  CutSoFar(Fresh(Put(mem, NextBlock)), p, c + 1)
<1> DEFINE new == Fresh(Put(mem, NextBlock))
<1>1. Grows(mem, new) /\ Waits(new, EndOf(mem))
  BY Closed
<1> HIDE DEF new
<1>2. PICK pos \in [1 .. c -> Positions] :
        Chain(mem, pos, c, p) /\ Behind(pos, c, p) = EndOf(mem)
  BY DEF WholeSoFar
<1>3. Chain(new, pos, c, p) /\ Waits(new, Behind(pos, c, p))
  BY <1>1, <1>2, ChainGrows
<1>4. c \in 0 .. (c + 1) - 1
  OBVIOUS
<1> QED
  BY <1>3, <1>4 DEF CutSoFar, new

(* The marker behind the row.                                              *)
LEMMA EndCopied ==
  ASSUME NEW mem \in Memories, mem # <<>>, NEW p \in Positions, NEW r,
         NEW sizes \in Seq(Nat), Copied(mem, p, r, sizes, Len(sizes)),
         NEW cell \in Cells, cell.tag = "BB"
  PROVE  Spans(Put(mem, cell), p, EndOf(mem), r, sizes)
<1> DEFINE new == Put(mem, cell)
           end == EndOf(mem)
<1>1. /\ Grows(mem, new) /\ IsIn(new, end) /\ CellIn(new, end) = cell
      /\ end \in Positions
  BY PutCell, EndPosition
<1> HIDE DEF new
<1>2. PICK n \in Nat : n = Len(sizes)
  OBVIOUS
<1>3. CASE Fit(sizes, n)
  <2>1. PICK pos \in [1 .. n -> Positions] :
          /\ Chain(mem, pos, n, p) /\ Holds(mem, pos, n, r)
          /\ Behind(pos, n, p) = end
    BY <1>2, <1>3 DEF Copied, WholeSoFar
  <2>2. Chain(new, pos, n, p) /\ Holds(new, pos, n, r)
    BY <1>1, <2>1, ChainGrows DEF Holds
  <2> QED
    BY <1>1, <1>2, <1>3, <2>1, <2>2 DEF Spans, Whole, new
<1>4. CASE ~ Fit(sizes, n)
  <2>1. PICK m \in 0 .. n - 1 : \E pos \in [1 .. m -> Positions] :
          /\ Chain(mem, pos, m, p)
          /\ Waits(mem, Behind(pos, m, p)) \/ Stuck(mem, Behind(pos, m, p))
    BY <1>2, <1>4 DEF Copied, CutSoFar
  <2>2. PICK pos \in [1 .. m -> Positions] :
          /\ Chain(mem, pos, m, p)
          /\ Waits(mem, Behind(pos, m, p)) \/ Stuck(mem, Behind(pos, m, p))
    BY <2>1
  <2>3. PICK u \in Positions : u = Behind(pos, m, p)
    BY BehindTypes
  <2>4. Chain(new, pos, m, p)
    <3>1. m \in Nat
      OBVIOUS
    <3> QED
      BY <1>1, <2>2, <3>1, ChainGrows
  <2>5. Stuck(new, u)
    <3>1. CASE Stuck(mem, u)
      BY <1>1, <3>1, StuckGrows
    <3>2. CASE u = end
      BY <1>1, <3>2 DEF Stuck, Onward
    <3>3. CASE IsIn(mem, u) /\ CellIn(mem, u).tag = "CC" /\ Onward(mem, u) = end
      <4>1. IsIn(new, u) /\ CellIn(new, u) = CellIn(mem, u)
        BY <1>1, <3>3 DEF Grows
      <4>2. Onward(new, u) = end
        BY <3>3, <4>1 DEF Onward
      <4> QED
        BY <1>1, <4>1, <4>2 DEF Stuck
    <3> QED
      BY <2>2, <2>3, <3>1, <3>2, <3>3 DEF Waits
  <2> QED
    BY <1>2, <1>4, <2>3, <2>4, <2>5 DEF Spans, Cut, new
<1> QED
  BY <1>3, <1>4

(* The operations, as changes of the cells.                                *)
LEMMA MemoryTypes ==
  ASSUME Filed, Stored, Held
  PROVE  /\ Memory \in Memories /\ Len(Memory) = Len(cache)
         /\ \A k \in DOMAIN cache :
              /\ cache[k] \in 1 .. sBlockNumber
              /\ Memory[k] = store[cache[k]].cells
         /\ cache # <<>> =>
              /\ Memory # <<>> /\ HasCurrent /\ Here = EndOf(Memory)
              /\ Memory[Len(Memory)] = Current.cells
<1>1. ASSUME NEW k \in DOMAIN cache
      PROVE  /\ cache[k] \in 1 .. sBlockNumber
             /\ Memory[k] = store[cache[k]].cells /\ Memory[k] \in Seq(Cells)
  <2>1. cache[k] \in 0 .. sBlockNumber /\ cache[k] # 0 /\ sBlockNumber \in Nat
    BY DEF Filed, Held, NoBlock, BM!NoBlock
  <2>2. cache[k] \in 1 .. sBlockNumber
    BY <2>1
  <2>3. store[cache[k]] \in Contents
    BY <2>2 DEF Stored
  <2> QED
    BY <2>2, <2>3 DEF Memory, Contents
<1>2. Memory \in Memories /\ Len(Memory) = Len(cache)
  <2>1. PICK n \in Nat : n = Len(cache) /\ DOMAIN cache = 1 .. n
    BY DEF Filed
  <2>2. Memory = [k \in 1 .. n |-> Memory[k]] /\ DOMAIN Memory = 1 .. n
    BY <2>1 DEF Memory
  <2>3. Memory \in [1 .. n -> Seq(Cells)]
    BY <1>1, <2>1, <2>2
  <2> QED
    BY <2>1, <2>3 DEF Memories
<1>3. ASSUME cache # <<>>
      PROVE  /\ Memory # <<>> /\ HasCurrent /\ Here = EndOf(Memory)
             /\ Memory[Len(Memory)] = Current.cells
  <2>1. Len(cache) \in DOMAIN cache
    BY <1>3 DEF Filed
  <2>2. Memory[Len(Memory)] = Current.cells
    BY <1>1, <1>2, <2>1 DEF Current
  <2>3. Memory # <<>>
    BY <1>2, <1>3, <2>1 DEF Filed
  <2> QED
    BY <1>2, <1>3, <2>1, <2>2, <2>3 DEF HasCurrent, Held, Here, EndOf
<1> QED
  BY <1>1, <1>2, <1>3

LEMMA CellWritten ==
  ASSUME Filed, Stored, Held, cache # <<>>, UNCHANGED cache,
         NEW cell \in Cells, NEW content, content.cells = Append(Current.cells, cell),
         store' = [store EXCEPT ![cache[Len(cache)]] = content]
  PROVE  Memory' = Put(Memory, cell)
<1>1. PICK n : n = Len(cache) /\ n \in DOMAIN cache /\ cache[n] \in 1 .. sBlockNumber
  BY MemoryTypes DEF Filed
<1>2. PICK b : b = cache[n]
  OBVIOUS
<1>3. \A k \in DOMAIN cache : k # n => cache[k] # b
  BY <1>1, <1>2 DEF Filed, Held
<1>4. /\ store'[b] = content
      /\ \A d \in 1 .. sBlockNumber : d # b => store'[d] = store[d]
  BY <1>1, <1>2 DEF Stored
<1>5. /\ n = Len(Memory) /\ n \in DOMAIN Memory /\ DOMAIN Memory = DOMAIN cache
      /\ Memory[n] = Current.cells
  BY <1>1, MemoryTypes DEF Memory
<1>6. Memory' = [k \in DOMAIN cache |-> store'[cache[k]].cells]
  BY DEF Memory
<1>7. ASSUME NEW k \in DOMAIN cache
      PROVE  store'[cache[k]].cells =
               IF k = n THEN Append(Memory[n], cell) ELSE Memory[k]
  <2>1. CASE k = n
    BY <1>2, <1>4, <1>5, <2>1
  <2>2. CASE k # n
    <3>1. cache[k] \in 1 .. sBlockNumber /\ Memory[k] = store[cache[k]].cells
      BY MemoryTypes
    <3> QED
      BY <1>3, <1>4, <2>2, <3>1
  <2> QED
    BY <2>1, <2>2
<1>8. Put(Memory, cell) =
        [k \in DOMAIN cache |-> IF k = n THEN Append(Memory[n], cell) ELSE Memory[k]]
  BY <1>5 DEF Put
<1> QED
  BY <1>6, <1>7, <1>8

LEMMA MarkWrites ==
  ASSUME Filed, Stored, Held, cache # <<>>,
         NEW tag \in {"AA", "BB", "CC", "DD"}, WriteMark(tag)
  PROVE  Memory' = Put(Memory, Mark(tag, 0, 0)) /\ Held'
<1>1. PICK content : content = Marked(Current, tag)
  OBVIOUS
<1>2. PICK cell \in Cells : cell = Mark(tag, 0, 0)
  BY DEF Mark, Cells
<1>3. content.cells = Append(Current.cells, cell)
  BY <1>1, <1>2 DEF Marked, MarkedAt
<1>4. store' = [store EXCEPT ![cache[Len(cache)]] = content]
  BY <1>1 DEF WriteMark, Current
<1>5. UNCHANGED cache /\ Held'
  BY DEF WriteMark, Held, NoBlock, BM!NoBlock
<1> QED
  BY <1>2, <1>3, <1>4, <1>5, CellWritten

LEMMA AddWrites ==
  ASSUME Filed, Stored, Held, cache # <<>>,
         NEW r \in Nat, NEW c \in Nat, NEW size, AddToCurrent(r, c, size)
  PROVE  Memory' = Put(Memory, Value(r, c)) /\ Held'
<1>1. PICK content : content = Added(Current, r, c, size)
  OBVIOUS
<1>2. PICK cell \in Cells : cell = Value(r, c)
  BY DEF Value, Cells
<1>3. content.cells = Append(Current.cells, cell)
  BY <1>1, <1>2 DEF Added
<1>4. store' = [store EXCEPT ![cache[Len(cache)]] = content]
  BY <1>1 DEF AddToCurrent, Current
<1>5. UNCHANGED cache /\ Held'
  BY DEF AddToCurrent, Held, NoBlock, BM!NoBlock
<1> QED
  BY <1>2, <1>3, <1>4, <1>5, CellWritten

LEMMA PushWrites ==
  ASSUME Filed, Stored, Held, NEW content, content.cells \in Seq(Cells),
         PushBlock(content)
  PROVE  /\ Held' /\ cache' # <<>>
         /\ Memory' = Append(IF cache = <<>> THEN <<>> ELSE Put(Memory, NextBlock),
                             content.cells)
<1>1. PICK b : b = sBlockNumber + 1
  OBVIOUS
<1>2. /\ sBlockNumber' = b /\ b \in Nat \ {0} /\ cache' = Append(cache, b)
      /\ b \in 1 .. b /\ 1 .. sBlockNumber \subseteq 1 .. b /\ b \notin 1 .. sBlockNumber
  BY <1>1 DEF Filed, PushBlock, BM!CreateBlock
<1>3. PICK n \in Nat : n = Len(cache) /\ DOMAIN cache = 1 .. n
  BY DEF Filed
<1>4. /\ cache' # <<>> /\ DOMAIN cache' = 1 .. n + 1 /\ cache'[n + 1] = b
      /\ \A k \in 1 .. n : cache'[k] = cache[k] /\ cache[k] \in 1 .. sBlockNumber
  BY <1>2, <1>3, MemoryTypes DEF Filed
<1>5. Held'
  <2>1. \A k \in 1 .. n + 1 : cache'[k] # 0
    BY <1>2, <1>4
  <2> QED
    BY <1>4, <2>1 DEF Held, NoBlock, BM!NoBlock
<1>6. /\ store'[b] = content
      /\ \A d \in 1 .. sBlockNumber :
           store'[d] = IF cache # <<>> /\ d = cache[n] THEN Marked(store[d], "CC")
                       ELSE store[d]
  BY <1>2, <1>3 DEF PushBlock
<1>7. Memory' = [k \in 1 .. n + 1 |-> store'[cache'[k]].cells]
  BY <1>4 DEF Memory
<1>8. PICK old \in Memories :
        /\ old = IF cache = <<>> THEN <<>> ELSE Put(Memory, NextBlock)
        /\ Len(old) = n
        /\ \A k \in 1 .. n :
             old[k] = IF k = n THEN Append(Memory[k], NextBlock) ELSE Memory[k]
  <2>1. CASE cache = <<>>
    <3>1. n = 0 /\ 1 .. n = {}
      BY <1>3, <2>1
    <3>2. <<>> \in Memories /\ Len(<<>>) = 0
      BY EmptySeq DEF Memories
    <3> QED
      BY <2>1, <3>1, <3>2
  <2>2. CASE cache # <<>>
    <3>1. NextBlock \in Cells
      BY DEF NextBlock, Mark, Cells
    <3>2. Memory \in Memories /\ Memory # <<>> /\ Len(Memory) = n
      BY <1>3, <2>2, MemoryTypes
    <3>3. Put(Memory, NextBlock) \in Memories /\ Len(Put(Memory, NextBlock)) = n
      BY <3>1, <3>2, PutCell
    <3>4. DOMAIN Memory = 1 .. n
      BY <1>3 DEF Memory
    <3>5. \A k \in 1 .. n : Put(Memory, NextBlock)[k] =
             IF k = n THEN Append(Memory[k], NextBlock) ELSE Memory[k]
      BY <3>2, <3>4 DEF Put
    <3> QED
      BY <2>2, <3>3, <3>5
  <2> QED
    BY <2>1, <2>2
<1>9. ASSUME NEW k \in 1 .. n + 1
      PROVE  store'[cache'[k]].cells = IF k = n + 1 THEN content.cells ELSE old[k]
  <2>1. CASE k = n + 1
    BY <1>4, <1>6, <2>1
  <2>2. CASE k \in 1 .. n
    <3>1. /\ cache'[k] = cache[k] /\ cache[k] \in 1 .. sBlockNumber
          /\ Memory[k] = store[cache[k]].cells /\ cache # <<>> /\ k # n + 1
      BY <1>3, <1>4, <2>2, MemoryTypes
    <3>2. n \in 1 .. n /\ cache[n] # NoBlock
      BY <1>3, <2>2 DEF Held
    <3>3. CASE k = n
      <4>1. store'[cache[k]] = Marked(store[cache[k]], "CC")
        BY <1>6, <3>1, <3>3
      <4>2. store'[cache[k]].cells = Append(Memory[k], NextBlock)
        BY <3>1, <4>1 DEF Marked, MarkedAt, NextBlock
      <4> QED
        BY <1>8, <2>2, <3>1, <3>3, <4>2
    <3>4. CASE k # n
      <4>1. cache[k] # cache[n]
        BY <1>3, <2>2, <3>2, <3>4 DEF Filed, Held
      <4> QED
        BY <1>6, <1>8, <2>2, <3>1, <3>4, <4>1
    <3> QED
      BY <3>3, <3>4
  <2> QED
    BY <2>1, <2>2
<1>10. Append(old, content.cells) =
         [k \in 1 .. n + 1 |-> IF k = n + 1 THEN content.cells ELSE old[k]]
  BY <1>8 DEF Memories
<1>11. Memory' = Append(old, content.cells)
  BY <1>7, <1>9, <1>10
<1> QED
  BY <1>4, <1>5, <1>8, <1>11

(* The rows, while they are copied.                                        *)
LEMMA CopyStarts ==
  ASSUME NEW mem \in Memories, mem # <<>>, NEW r, NEW sizes
  PROVE  Copied(mem, EndOf(mem), r, sizes, 0)
<1> DEFINE pos == [i \in 1 .. 0 |-> EndOf(mem)]
<1>1. 1 .. 0 = {}
  OBVIOUS
<1>2. pos \in [1 .. 0 -> Positions]
  BY <1>1
<1> HIDE DEF pos
<1>3. /\ Chain(mem, pos, 0, EndOf(mem)) /\ Holds(mem, pos, 0, r)
      /\ Behind(pos, 0, EndOf(mem)) = EndOf(mem)
  BY <1>1, <1>2 DEF Chain, Holds, Behind
<1>4. Fit(sizes, 0)
  BY <1>1 DEF Fit
<1> QED
  BY <1>2, <1>3, <1>4 DEF Copied, WholeSoFar

LEMMA FitNext ==
  ASSUME NEW sizes, NEW c \in Nat, HasSizeFor(Empty, sizes[c + 1])
  PROVE  Fit(sizes, c + 1) <=> Fit(sizes, c)
<1>1. 1 .. c + 1 = (1 .. c) \cup {c + 1}
  OBVIOUS
<1> QED
  BY <1>1 DEF Fit

LEMMA CopiedAdds ==
  ASSUME Filed, Stored, Held, cache # <<>>, NEW p \in Positions, NEW r \in Nat,
         NEW sizes, NEW c \in Nat, Copied(Memory, p, r, sizes, c),
         sizes[c + 1] \in Nat, AddToCurrent(r, c + 1, sizes[c + 1])
  PROVE  Copied(Memory', p, r, sizes, c + 1) /\ Held' /\ cache' # <<>>
<1>1. Memory' = Put(Memory, Value(r, c + 1)) /\ Held' /\ cache' # <<>>
  <2>1. PICK d \in Nat : d = c + 1
    OBVIOUS
  <2>2. Memory' = Put(Memory, Value(r, d)) /\ Held'
    BY <2>1, AddWrites
  <2> QED
    BY <2>1, <2>2 DEF AddToCurrent
<1>2. HasSizeFor(Empty, sizes[c + 1])
  <2>1. Len(cache) \in DOMAIN cache
    BY DEF Filed
  <2>2. Current.used \in Nat
    BY <2>1, MemoryTypes DEF Current, Stored, Contents
  <2> QED
    BY <2>2, CopiesAssumption DEF AddToCurrent, HasSizeFor, Empty
<1>3. Memory \in Memories /\ Memory # <<>>
  BY MemoryTypes
<1>4. Fit(sizes, c + 1) <=> Fit(sizes, c)
  BY <1>2, FitNext
<1>5. CASE Fit(sizes, c)
  <2>1. PICK pos \in [1 .. c -> Positions] :
          /\ Chain(Memory, pos, c, p) /\ Holds(Memory, pos, c, r)
          /\ Behind(pos, c, p) = EndOf(Memory)
    BY <1>5 DEF Copied, WholeSoFar
  <2>2. Waits(Memory, Behind(pos, c, p))
    BY <2>1 DEF Waits
  <2>3. WholeSoFar(Put(Memory, Value(r, c + 1)), p, r, c + 1)
    BY <1>3, <2>1, <2>2, WholeAdded
  <2> QED
    BY <1>1, <1>4, <1>5, <2>3 DEF Copied
<1>6. CASE ~ Fit(sizes, c)
  <2>1. PICK cell \in Cells : cell = Value(r, c + 1) /\ cell.tag = "AA"
    <3>1. Value(r, c + 1) \in Cells /\ Value(r, c + 1).tag = "AA"
      BY DEF Cells, Value
    <3> QED
      BY <3>1
  <2>2. CutSoFar(Memory, p, c)
    BY <1>6 DEF Copied
  <2>3. CutSoFar(Put(Memory, cell), p, c + 1)
    BY <1>3, <2>1, <2>2, CutAdded
  <2> QED
    BY <1>1, <1>4, <1>6, <2>1, <2>3 DEF Copied
<1> QED
  BY <1>5, <1>6

LEMMA CopiedNext ==
  ASSUME Filed, Stored, Held, cache # <<>>, NEW p \in Positions, NEW r \in Nat,
         NEW sizes, NEW c \in Nat, Copied(Memory, p, r, sizes, c),
         AddToNext(r, c + 1, sizes[c + 1])
  PROVE  Copied(Memory', p, r, sizes, c + 1) /\ Held' /\ cache' # <<>>
<1> DEFINE size == sizes[c + 1]
           closed == Put(Memory, NextBlock)
           next == Fresh(closed)
<1>1. Memory \in Memories /\ Memory # <<>>
  BY MemoryTypes
<1>2. closed \in Memories /\ next \in Memories /\ next # <<>> /\ Grows(Memory, next)
  <2>1. NextBlock \in Cells
    BY DEF NextBlock, Mark, Cells
  <2> QED
    BY <1>1, <2>1, PutCell, Closed
<1>3. PICK content : content = Opened(r, c + 1, size) /\ PushBlock(content)
  BY DEF AddToNext
<1>4. CASE HasSizeFor(Empty, size)
  <2>1. content.cells = <<Value(r, c + 1)>> /\ Value(r, c + 1) \in Cells
    BY <1>3, <1>4 DEF Opened, Added, Empty, Value, Cells
  <2>2. content.cells \in Seq(Cells)
    BY <2>1
  <2>3. Memory' = Append(closed, <<Value(r, c + 1)>>) /\ Held' /\ cache' # <<>>
    BY <1>3, <2>1, <2>2, PushWrites
  <2>4. Append(closed, <<Value(r, c + 1)>>) = Put(next, Value(r, c + 1))
    <3>1. PICK m \in Memories : m = closed
      BY <1>2
    <3>2. PICK n \in Nat : n = Len(m)
      BY DEF Memories
    <3>3. /\ Fresh(m) = [k \in 1 .. n + 1 |-> IF k = n + 1 THEN <<>> ELSE m[k]]
          /\ Len(Fresh(m)) = n + 1 /\ n + 1 \in 1 .. n + 1
      <4>1. Fresh(m) = [k \in 1 .. n + 1 |-> IF k = n + 1 THEN <<>> ELSE m[k]]
        <5>1. PICK none \in Seq(Cells) : none = <<>>
          BY EmptySeq
        <5>2. m \in Seq(Seq(Cells)) /\ DOMAIN m = 1 .. n
          BY <3>2 DEF Memories
        <5>3. /\ Append(m, none) \in Seq(Seq(Cells)) /\ Len(Append(m, none)) = n + 1
              /\ \A k \in 1 .. n : Append(m, none)[k] = m[k]
              /\ Append(m, none)[n + 1] = none
          BY <3>2, <5>2, AppendProperties
        <5>4. Append(m, none) = [k \in 1 .. n + 1 |-> IF k = n + 1 THEN none ELSE m[k]]
          <6>1. PICK f \in Seq(Seq(Cells)) : f = Append(m, none)
            BY <5>3
          <6>2. DOMAIN f = 1 .. n + 1 /\ f = [k \in 1 .. n + 1 |-> f[k]]
            <7>1. Len(f) = n + 1
              BY <5>3, <6>1
            <7>2. DOMAIN f = 1 .. n + 1 /\ f \in [1 .. n + 1 -> Seq(Cells)]
              BY <6>1, <7>1, LenProperties
            <7> QED
              BY <7>2
          <6>3. \A k \in 1 .. n + 1 : f[k] = IF k = n + 1 THEN none ELSE m[k]
            <7>1. \A k \in 1 .. n + 1 : k = n + 1 \/ (k \in 1 .. n /\ k # n + 1)
              BY <3>2
            <7> QED
              BY <5>3, <6>1, <7>1
          <6> QED
            BY <6>1, <6>2, <6>3
        <5> QED
          BY <5>1, <5>4 DEF Fresh
      <4>2. Len(Fresh(m)) = n + 1
        BY <3>2, FreshBlock
      <4> QED
        BY <4>1, <4>2
    <3>4. Append(<<>>, Value(r, c + 1)) = <<Value(r, c + 1)>>
      OBVIOUS
    <3>5. Put(Fresh(m), Value(r, c + 1)) =
            [k \in 1 .. n + 1 |-> IF k = n + 1 THEN <<Value(r, c + 1)>> ELSE m[k]]
      BY <3>3, <3>4 DEF Put
    <3>6. Append(m, <<Value(r, c + 1)>>) =
            [k \in 1 .. n + 1 |-> IF k = n + 1 THEN <<Value(r, c + 1)>> ELSE m[k]]
      BY <3>2 DEF Memories
    <3> QED
      BY <3>1, <3>5, <3>6
  <2>5. Fit(sizes, c + 1) <=> Fit(sizes, c)
    BY <1>4, FitNext
  <2>6. CASE Fit(sizes, c)
    <3>1. PICK pos \in [1 .. c -> Positions] :
            /\ Chain(Memory, pos, c, p) /\ Holds(Memory, pos, c, r)
            /\ Behind(pos, c, p) = EndOf(Memory)
      BY <2>6 DEF Copied, WholeSoFar
    <3>2. Waits(next, Behind(pos, c, p))
      BY <1>1, <3>1, Closed
    <3> HIDE DEF next
    <3>3. Chain(next, pos, c, p) /\ Holds(next, pos, c, r)
      BY <1>2, <3>1, ChainGrows DEF Holds
    <3>4. WholeSoFar(Put(next, Value(r, c + 1)), p, r, c + 1)
      BY <1>2, <3>2, <3>3, WholeAdded
    <3> QED
      BY <2>3, <2>4, <2>5, <2>6, <3>4 DEF Copied
  <2>7. CASE ~ Fit(sizes, c)
    <3>1. PICK cell \in Cells : cell = Value(r, c + 1) /\ cell.tag = "AA"
      BY <2>1 DEF Value
    <3>2. CutSoFar(next, p, c)
      BY <1>1, <2>7, CutClosed DEF Copied
    <3> HIDE DEF next
    <3>3. CutSoFar(Put(next, cell), p, c + 1)
      BY <1>2, <3>1, <3>2, CutAdded
    <3> QED
      BY <2>3, <2>4, <2>5, <2>7, <3>1, <3>3 DEF Copied
  <2> QED
    BY <2>3, <2>6, <2>7
<1>5. CASE ~ HasSizeFor(Empty, size)
  <2>1. content.cells = <<>> /\ <<>> \in Seq(Cells)
    BY <1>3, <1>5, EmptySeq DEF Opened, Empty
  <2>2. Memory' = next /\ Held' /\ cache' # <<>>
    BY <1>3, <2>1, PushWrites DEF Fresh
  <2>3. ~ Fit(sizes, c + 1)
    <3>1. c + 1 \in 1 .. c + 1
      OBVIOUS
    <3> QED
      BY <1>5, <3>1 DEF Fit
  <2>4. CutSoFar(next, p, c + 1)
    <3>1. CASE Fit(sizes, c)
      BY <1>1, <3>1, WholeBreaks DEF Copied
    <3>2. CASE ~ Fit(sizes, c)
      <4>1. CutSoFar(next, p, c)
        BY <1>1, <3>2, CutClosed DEF Copied
      <4> HIDE DEF next
      <4> QED
        BY <4>1, CutLonger
    <3> QED
      BY <3>1, <3>2
  <2> QED
    BY <2>2, <2>3, <2>4 DEF Copied
<1> QED
  BY <1>4, <1>5

(* The row is complete.                                                    *)
LEMMA CopiedEnds ==
  ASSUME Filed, Stored, Held, cache # <<>>, NEW p \in Positions, NEW r,
         NEW sizes \in Seq(Nat), Copied(Memory, p, r, sizes, Len(sizes)),
         WriteMark("BB")
  PROVE  /\ Spans(Memory', p, EndOf(Memory), r, sizes)
         /\ Stands(Memory', p, r, sizes)
         /\ EndOf(Memory') = After(EndOf(Memory))
<1>1. PICK cell \in Cells : cell = Mark("BB", 0, 0) /\ cell.tag = "BB"
  <2>1. Mark("BB", 0, 0) \in Cells /\ Mark("BB", 0, 0).tag = "BB"
    BY DEF Mark, Cells
  <2> QED
    BY <2>1
<1>2. Memory' = Put(Memory, cell)
  BY <1>1, MarkWrites
<1>3. Spans(Memory', p, EndOf(Memory), r, sizes)
  BY <1>1, <1>2, MemoryTypes, EndCopied
<1>4. EndOf(Memory) \in Positions /\ EndOf(Memory') = After(EndOf(Memory))
  BY <1>1, <1>2, MemoryTypes, EndPosition, PutCell
<1> QED
  BY <1>3, <1>4 DEF Stands

(* Nothing that is written changes what was there.                         *)
LEMMA MarkGrows ==
  ASSUME Filed, Stored, Held, cache # <<>>,
         NEW tag \in {"AA", "BB", "CC", "DD"}, WriteMark(tag)
  PROVE  Grows(Memory, Memory')
<1>1. PICK cell \in Cells : cell = Mark(tag, 0, 0)
  BY DEF Mark, Cells
<1> QED
  BY <1>1, MemoryTypes, MarkWrites, PutCell

LEMMA AddGrows ==
  ASSUME Filed, Stored, Held, cache # <<>>,
         NEW r \in Nat, NEW c \in Nat, NEW size, AddToCurrent(r, c, size)
  PROVE  Grows(Memory, Memory')
<1>1. PICK cell \in Cells : cell = Value(r, c)
  BY DEF Value, Cells
<1> QED
  BY <1>1, MemoryTypes, AddWrites, PutCell

LEMMA PushGrows ==
  ASSUME Filed, Stored, Held, NEW content, content.cells \in Seq(Cells),
         PushBlock(content)
  PROVE  Grows(Memory, Memory')
<1>1. PICK cells \in Seq(Cells) : cells = content.cells
  OBVIOUS
<1>2. CASE cache = <<>>
  <2>1. DOMAIN Memory = {}
    BY <1>2 DEF Memory
  <2> QED
    BY <2>1 DEF Grows, IsIn
<1>3. CASE cache # <<>>
  <2>1. Memory \in Memories /\ Memory # <<>> /\ NextBlock \in Cells
    BY <1>3, MemoryTypes DEF NextBlock, Mark, Cells
  <2>2. PICK closed \in Memories :
          closed = Put(Memory, NextBlock) /\ Grows(Memory, closed)
    BY <2>1, PutCell
  <2>3. Memory' = Append(closed, cells)
    BY <1>1, <1>3, <2>2, PushWrites
  <2>4. \A k \in DOMAIN closed : k \in DOMAIN Memory' /\ Memory'[k] = closed[k]
    BY <2>3 DEF Memories
  <2>5. Grows(closed, Memory')
    BY <2>4 DEF Grows, IsIn, CellIn
  <2> QED
    BY <2>2, <2>5, GrowsOn
<1> QED
  BY <1>2, <1>3

LEMMA NextGrows ==
  ASSUME Filed, Stored, Held, NEW r \in Nat, NEW c \in Nat, NEW size \in Nat,
         AddToNext(r, c, size)
  PROVE  Grows(Memory, Memory')
<1>1. PICK content \in Contents : content = Opened(r, c, size)
  BY ContentTypes
<1>2. content.cells \in Seq(Cells) /\ PushBlock(content)
  BY <1>1 DEF Contents, AddToNext
<1> QED
  BY <1>2, PushGrows
-----------------------------------------------------------------------------
(* The reader.                                                             *)

Below == {p \in Nat \X Nat : p[1] < p[2]}

(* Induction over the natural numbers, for a set.                          *)
LEMMA NatSetInduction ==
  ASSUME NEW S, 0 \in S, \A n \in Nat : n \in S => n + 1 \in S
  PROVE  Nat \subseteq S
<1> DEFINE T == {n \in Nat : n \notin S}
<1>1. SUFFICES ASSUME T # {} PROVE FALSE
  OBVIOUS
<1>2. IsWellFoundedOn(Below, Nat)
  <2>1. Below = OpToRel(<, Nat)
    BY DEF Below, OpToRel
  <2> QED
    BY <2>1, NatLessThanWellFounded
<1>3. PICK x \in T : \A y \in T : ~ (<<y, x>> \in Below)
  <2>1. T \subseteq Nat
    OBVIOUS
  <2> HIDE DEF T
  <2> QED
    BY <1>1, <1>2, <2>1, WFMin
<1>4. x # 0 /\ x - 1 \in Nat /\ x - 1 \in T
  BY <1>3
<1>5. <<x - 1, x>> \in Below
  BY <1>3, <1>4 DEF Below
<1> QED
  BY <1>3, <1>4, <1>5

(* f gives the positions of the values of the row that is read from p on.  *)
PositionsTo(p, n, f) ==
  f = [c \in 1 .. n |->
         IF c = 1 THEN Skipped(p)
         ELSE IF TagAt(f[c - 1]) # "AA" THEN f[c - 1] ELSE Skipped(After(f[c - 1]))]
PositionsOf(p, n) == CHOOSE f : PositionsTo(p, n, f)

LEMMA PositionsExist ==
  ASSUME NEW p, NEW n \in Nat
  PROVE  \E f : PositionsTo(p, n, f)
<1> DEFINE S == {m \in Nat : \E f : PositionsTo(p, m, f)}
<1>1. 0 \in S
  <2> DEFINE f == [c \in 1 .. 0 |-> p]
  <2>1. 1 .. 0 = {}
    OBVIOUS
  <2>2. PositionsTo(p, 0, f)
    BY <2>1 DEF PositionsTo
  <2> QED
    BY <2>2
<1>2. ASSUME NEW m \in Nat, m \in S
      PROVE  m + 1 \in S
  <2>1. PICK f : PositionsTo(p, m, f)
    BY <1>2
  <2> DEFINE step(g, c) ==
        IF c = 1 THEN Skipped(p)
        ELSE IF TagAt(g[c - 1]) # "AA" THEN g[c - 1] ELSE Skipped(After(g[c - 1]))
  <2> DEFINE g == [c \in 1 .. m + 1 |-> IF c \in 1 .. m THEN f[c] ELSE step(f, c)]
  <2>2. ASSUME NEW c \in 1 .. m + 1
        PROVE  g[c] = step(g, c)
    <3>1. step(g, c) = step(f, c)
      <4>1. c = 1 \/ (c - 1 \in 1 .. m /\ c - 1 \in 1 .. m + 1)
        OBVIOUS
      <4>2. c # 1 => g[c - 1] = f[c - 1]
        BY <4>1
      <4> HIDE DEF g
      <4> QED
        BY <4>2
    <3>2. CASE c \in 1 .. m
      <4>1. f[c] = step(f, c)
        BY <2>1, <3>2 DEF PositionsTo
      <4> HIDE DEF step
      <4> QED
        BY <3>1, <3>2, <4>1
    <3>3. CASE c \notin 1 .. m
      <4> HIDE DEF step
      <4> QED
        BY <3>1, <3>3
    <3> QED
      BY <3>2, <3>3
  <2>3. g = [c \in 1 .. m + 1 |-> step(g, c)]
    <3>1. PICK h : h = g
      OBVIOUS
    <3>2. h = [c \in 1 .. m + 1 |-> h[c]]
      BY <3>1
    <3> HIDE DEF g, step
    <3> QED
      BY <2>2, <3>1, <3>2
  <2>4. PositionsTo(p, m + 1, g)
    <3> HIDE DEF g
    <3> QED
      BY <2>3 DEF PositionsTo
  <2> QED
    BY <2>4
<1> HIDE DEF S
<1>3. Nat \subseteq S
  BY <1>1, <1>2, NatSetInduction
<1> QED
  BY <1>3 DEF S

LEMMA ReadsOn ==
  ASSUME NEW p, NEW n \in Nat
  PROVE  \A c \in 1 .. n :
           ValuePositions(p, n)[c] =
             IF c = 1 THEN Skipped(p)
             ELSE IF TagAt(ValuePositions(p, n)[c - 1]) # "AA"
                  THEN ValuePositions(p, n)[c - 1]
                  ELSE Skipped(After(ValuePositions(p, n)[c - 1]))
<1>1. PICK f : f = PositionsOf(p, n)
  OBVIOUS
<1>2. PositionsTo(p, n, f)
  BY <1>1, PositionsExist DEF PositionsOf
<1>3. ValuePositions(p, n) = f
  <2>1. ValuePositions(p, n) = PositionsOf(p, n)
    BY Zenon DEF ValuePositions, PositionsOf, PositionsTo
  <2> QED
    BY <1>1, <2>1
<1> QED
  BY <1>2, <1>3 DEF PositionsTo

(* The cells that the reader sees are those of the memory.                 *)
LEMMA SeesMemory ==
  ASSUME NEW p \in Positions, IsIn(Memory, p)
  PROVE  CellAt(p) = CellIn(Memory, p) /\ Skipped(p) = Onward(Memory, p)
<1>1. p.block \in DOMAIN cache
  BY DEF IsIn, Memory
<1>2. CellAt(p) = CellIn(Memory, p)
  BY <1>1 DEF CellAt, CellIn, Memory
<1> QED
  BY <1>2 DEF Skipped, Onward, TagAt

LEMMA ReadsChain ==
  ASSUME NEW p \in Positions, NEW n \in Nat, NEW m \in 0 .. n,
         NEW pos, Chain(Memory, pos, m, p)
  PROVE  /\ \A c \in 1 .. m :
              /\ ValuePositions(p, n)[c] = pos[c]
              /\ CellAt(pos[c]) = CellIn(Memory, pos[c]) /\ TagAt(pos[c]) = "AA"
         /\ m < n => ValuePositions(p, n)[m + 1] = Skipped(Behind(pos, m, p))
<1> DEFINE read == ValuePositions(p, n)
<1>1. \A c \in 1 .. n :
        read[c] = IF c = 1 THEN Skipped(p)
                  ELSE IF TagAt(read[c - 1]) # "AA" THEN read[c - 1]
                       ELSE Skipped(After(read[c - 1]))
  BY ReadsOn
<1> HIDE DEF read
<1>2. pos \in [1 .. m -> Positions]
  BY DEF Chain
<1>3. ASSUME NEW c \in 1 .. m
      PROVE  /\ CellAt(pos[c]) = CellIn(Memory, pos[c]) /\ TagAt(pos[c]) = "AA"
             /\ Skipped(Behind(pos, c - 1, p)) = pos[c]
  <2>1. PICK q \in Positions : q = Behind(pos, c - 1, p)
    <3>1. c - 1 \in 0 .. m
      OBVIOUS
    <3> QED
      BY <1>2, <3>1, BehindTypes
  <2>2. pos[c] \in Positions /\ Link(Memory, q, pos[c])
    BY <1>2, <2>1 DEF Chain
  <2>3. CellAt(pos[c]) = CellIn(Memory, pos[c]) /\ CellIn(Memory, pos[c]).tag = "AA"
    BY <2>2, SeesMemory DEF Link
  <2>4. Skipped(q) = pos[c]
    BY <2>1, <2>2, SeesMemory DEF Link
  <2> QED
    BY <2>1, <2>3, <2>4 DEF TagAt
<1> DEFINE S == {c \in Nat : c \in 1 .. m => read[c] = pos[c]}
<1>4. 0 \in S
  OBVIOUS
<1>5. ASSUME NEW c \in Nat, c \in S PROVE c + 1 \in S
  <2> SUFFICES ASSUME c + 1 \in 1 .. m PROVE read[c + 1] = pos[c + 1]
    OBVIOUS
  <2>1. c + 1 \in 1 .. n /\ (c + 1) - 1 = c
    OBVIOUS
  <2>2. Skipped(Behind(pos, c, p)) = pos[c + 1]
    BY <1>3, <2>1
  <2>3. CASE c = 0
    BY <1>1, <2>1, <2>2, <2>3 DEF Behind
  <2>4. CASE c # 0
    <3>1. c \in 1 .. m /\ c + 1 # 1
      BY <2>4
    <3>2. read[c] = pos[c] /\ TagAt(pos[c]) = "AA"
      BY <1>3, <1>5, <3>1
    <3> QED
      BY <1>1, <2>1, <2>2, <2>4, <3>1, <3>2 DEF Behind
  <2> QED
    BY <2>3, <2>4
<1> HIDE DEF S
<1>6. Nat \subseteq S
  BY <1>4, <1>5, NatSetInduction
<1>7. \A c \in 1 .. m : read[c] = pos[c]
  BY <1>6 DEF S
<1>8. ASSUME m < n PROVE read[m + 1] = Skipped(Behind(pos, m, p))
  <2>1. m + 1 \in 1 .. n /\ (m + 1) - 1 = m /\ m \in Nat
    BY <1>8
  <2>2. CASE m = 0
    BY <1>1, <2>1, <2>2 DEF Behind
  <2>3. CASE m # 0
    <3>1. m \in 1 .. m /\ m + 1 # 1
      BY <2>1, <2>3
    <3>2. read[m] = pos[m] /\ TagAt(pos[m]) = "AA"
      BY <1>3, <1>7, <3>1
    <3> QED
      BY <1>1, <2>1, <2>3, <3>1, <3>2 DEF Behind
  <2> QED
    BY <2>2, <2>3
<1> QED
  BY <1>3, <1>7, <1>8 DEF read

(* A row whose values fit into blocks is read back as it was, and the      *)
(* reader is at the marker behind it; one with a value that does not is    *)
(* found to be incomplete.                                                 *)
LEMMA ReadsWhole ==
  ASSUME NEW p \in Positions, NEW q \in Positions, NEW r, NEW n \in Nat \ {0},
         Whole(Memory, p, q, r, n)
  PROVE  /\ Complete(p, n) /\ RowAt(p, n) = [c \in 1 .. n |-> <<r, c>>]
         /\ q = After(ValuePositions(p, n)[n]) /\ q.offset # 0 /\ TagAt(q) = "BB"
<1>1. PICK pos \in [1 .. n -> Positions] :
        /\ Chain(Memory, pos, n, p) /\ Holds(Memory, pos, n, r)
        /\ q = Behind(pos, n, p) /\ IsIn(Memory, q) /\ CellIn(Memory, q).tag = "BB"
  BY DEF Whole
<1>2. ASSUME NEW c \in 1 .. n
      PROVE  /\ ValuePositions(p, n)[c] = pos[c]
             /\ CellAt(pos[c]) = Value(r, c) /\ TagAt(pos[c]) = "AA"
  <2>1. n \in 0 .. n
    OBVIOUS
  <2> QED
    BY <1>1, <2>1, ReadsChain DEF Holds
<1>3. Complete(p, n)
  BY <1>2 DEF Complete
<1>4. RowAt(p, n) = [c \in 1 .. n |-> <<r, c>>]
  BY <1>2 DEF RowAt, Value
<1>5. q = After(pos[n]) /\ pos[n] \in Positions /\ n \in 1 .. n
  BY <1>1 DEF Behind
<1>6. q.offset # 0
  BY <1>5 DEF After, Positions
<1>7. TagAt(q) = "BB"
  BY <1>1, SeesMemory DEF TagAt
<1> QED
  BY <1>2, <1>3, <1>4, <1>5, <1>6, <1>7

LEMMA ReadsCut ==
  ASSUME NEW p \in Positions, NEW n \in Nat, Cut(Memory, p, n)
  PROVE  ~ Complete(p, n)
<1>1. PICK m \in 0 .. n - 1 : \E pos \in [1 .. m -> Positions] :
        Chain(Memory, pos, m, p) /\ Stuck(Memory, Behind(pos, m, p))
  BY DEF Cut
<1>2. PICK pos \in [1 .. m -> Positions] :
        Chain(Memory, pos, m, p) /\ Stuck(Memory, Behind(pos, m, p))
  BY <1>1
<1>3. m \in Nat /\ m \in 0 .. n /\ m < n /\ m + 1 \in 1 .. n
  OBVIOUS
<1>4. PICK q \in Positions : q = Behind(pos, m, p)
  BY <1>3, BehindTypes
<1>5. ValuePositions(p, n)[m + 1] = Skipped(q)
  BY <1>2, <1>3, <1>4, ReadsChain
<1>6. Skipped(q) = Onward(Memory, q) /\ Skipped(q) \in Positions
  BY <1>2, <1>4, SeesMemory, OnwardTypes DEF Stuck
<1>7. TagAt(Skipped(q)) # "AA"
  BY <1>2, <1>4, <1>6, SeesMemory DEF Stuck, TagAt
<1> QED
  BY <1>3, <1>5, <1>7 DEF Complete

LEMMA ReadsSpan ==
  ASSUME NEW p \in Positions, NEW q \in Positions, NEW r,
         NEW sizes \in Seq(Nat) \ {<<>>}, Spans(Memory, p, q, r, sizes)
  PROVE  LET n == Len(sizes) IN
         /\ Complete(p, n) <=> Fit(sizes, n)
         /\ Complete(p, n) =>
              /\ RowAt(p, n) = [c \in 1 .. n |-> <<r, c>>]
              /\ q = After(ValuePositions(p, n)[n])
              /\ q.offset # 0 /\ TagAt(q) = "BB"
<1>1. PICK n \in Nat \ {0} : n = Len(sizes)
  OBVIOUS
<1>2. CASE Fit(sizes, n)
  BY <1>1, <1>2, ReadsWhole DEF Spans
<1>3. CASE ~ Fit(sizes, n)
  BY <1>1, <1>3, ReadsCut DEF Spans
<1> QED
  BY <1>1, <1>2, <1>3

LEMMA ReadsStanding ==
  ASSUME NEW p \in Positions, NEW r, NEW sizes \in Seq(Nat) \ {<<>>},
         Stands(Memory, p, r, sizes)
  PROVE  /\ Complete(p, Len(sizes)) <=> Fit(sizes, Len(sizes))
         /\ Complete(p, Len(sizes)) =>
              RowAt(p, Len(sizes)) = [c \in 1 .. Len(sizes) |-> <<r, c>>]
BY ReadsSpan DEF Stands

(* Where a row is read from there is no end of the rows.                   *)
LEMMA SpanBegins ==
  ASSUME NEW p \in Positions, NEW q \in Positions, NEW r,
         NEW sizes \in Seq(Nat) \ {<<>>}, Spans(Memory, p, q, r, sizes)
  PROVE  TagAt(p) # "DD"
<1>1. PICK n \in Nat \ {0} : n = Len(sizes)
  OBVIOUS
<1>2. ASSUME NEW m \in Nat \ {0}, NEW pos, Chain(Memory, pos, m, p)
      PROVE  TagAt(p) # "DD"
  <2>1. 1 \in 1 .. m /\ Behind(pos, 1 - 1, p) = p
    BY DEF Behind
  <2>2. Link(Memory, p, pos[1])
    BY <1>2, <2>1 DEF Chain
  <2>3. IsIn(Memory, p) /\ CellIn(Memory, p).tag # "DD"
    BY <2>2 DEF Link, Onward
  <2> QED
    BY <2>3, SeesMemory DEF TagAt
<1>3. CASE Fit(sizes, n)
  BY <1>1, <1>2, <1>3 DEF Spans, Whole
<1>4. CASE ~ Fit(sizes, n)
  <2>1. PICK m \in 0 .. n - 1 : \E pos \in [1 .. m -> Positions] :
          Chain(Memory, pos, m, p) /\ Stuck(Memory, Behind(pos, m, p))
    BY <1>1, <1>4 DEF Spans, Cut
  <2>2. PICK pos \in [1 .. m -> Positions] :
          Chain(Memory, pos, m, p) /\ Stuck(Memory, Behind(pos, m, p))
    BY <2>1
  <2>3. CASE m = 0
    <3>1. IsIn(Memory, p) /\ CellIn(Memory, p).tag # "DD"
      BY <2>2, <2>3 DEF Behind, Stuck, Onward
    <3> QED
      BY <3>1, SeesMemory DEF TagAt
  <2>4. CASE m # 0
    BY <1>2, <2>2, <2>4
  <2> QED
    BY <2>3, <2>4
<1> QED
  BY <1>3, <1>4
=============================================================================
