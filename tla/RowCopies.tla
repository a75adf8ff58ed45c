------------------------------ MODULE RowCopies ------------------------------
(***************************************************************************)
(* Rows copied into blocks of one's own, and read back: what the iterators *)
(* that keep their input (caching, sorting, grouping, hashing) have in     *)
(* common.  Values are copied one by one; a value that does not fit closes *)
(* the block and goes to a new one, so that a row may be cut anywhere.     *)
(*                                                                         *)
(* The operations are actions that the modules of the iterators compose    *)
(* with their own.  A value is told by the row and the column it is from.  *)
(***************************************************************************)
EXTENDS Naturals, Sequences, FiniteSets, BlockLayout

CONSTANT
  MaxActiveBlocks (* the limit of the block manager                        *)

(* The blocks of the engine have a megabyte; two bytes are what the        *)
(* markers need that an iterator writes to a block without values.         *)
ASSUME CopiesAssumption ==
  /\ Capacity \in Nat /\ Capacity >= 2
  /\ MaxActiveBlocks \in Nat

VARIABLES
  blocks, activeBlocks, maxCountActiveBlocks, totalBlocks, sBlockNumber,
  store,      (* block number -> its contents                               *)
  cache       (* _blocks of the iterator                                    *)

managerVars ==
  <<blocks, activeBlocks, maxCountActiveBlocks, totalBlocks, sBlockNumber>>
copyVars == <<managerVars, store, cache>>

BM == INSTANCE BlockManager

NoBlock == BM!NoBlock
Current == store[cache[Len(cache)]]
-----------------------------------------------------------------------------
(* A block is created and becomes the current one, with the contents new;  *)
(* the one before it, if there is one, was closed.                         *)
PushBlock(new) ==
  /\ BM!CreateBlock
  /\ cache' = Append(cache, sBlockNumber')
  /\ store' = [b \in 1 .. sBlockNumber' |->
                 IF b = sBlockNumber' THEN new
                 ELSE IF cache # <<>> /\ b = cache[Len(cache)]
                 THEN Marked(store[b], "CC") ELSE store[b]]

WriteMark(tag) ==
  /\ store' = [store EXCEPT ![cache[Len(cache)]] = Marked(@, tag)]
  /\ UNCHANGED <<managerVars, cache>>

(* Value c of row r is added to the current block, or, if it does not fit, *)
(* to a new one; or the block is closed and no new one is to be had.       *)
AddToCurrent(r, c, size) ==
  /\ HasSizeFor(Current, size)
  /\ store' = [store EXCEPT ![cache[Len(cache)]] = Added(@, r, c, size)]
  /\ UNCHANGED <<managerVars, cache>>

AddToNext(r, c, size) ==
  /\ ~ HasSizeFor(Current, size)
  /\ PushBlock(Opened(r, c, size))

AddThrows(size) ==
  /\ ~ HasSizeFor(Current, size)
  /\ BM!CreateBlockThrows
  /\ store' = [store EXCEPT ![cache[Len(cache)]] = Marked(@, "CC")]
  /\ UNCHANGED cache

(* Where the next value is written: an index of cache and one of cells.    *)
Here == [block |-> Len(cache), offset |-> Len(Current.cells)]
-----------------------------------------------------------------------------
(* getNextValue() at position p: behind a next-block marker it goes on in  *)
(* the next block.                                                         *)
CellAt(p) == store[cache[p.block]].cells[p.offset + 1]
TagAt(p) == CellAt(p).tag
Skipped(p) ==
  IF TagAt(p) = "CC" THEN [block |-> p.block + 1, offset |-> 0] ELSE p
After(p) == [p EXCEPT !.offset = @ + 1]

(* The positions of the n values of the row that is read from p on, up to  *)
(* a place that holds no value.                                            *)
ValuePositions(p, n) ==
  LET position[c \in 1 .. n] ==
        IF c = 1 THEN Skipped(p)
        ELSE IF TagAt(position[c - 1]) # "AA" THEN position[c - 1]
        ELSE Skipped(After(position[c - 1]))
  IN  position

(* A value is found at each position.                                      *)
Complete(p, n) == \A c \in 1 .. n : TagAt(ValuePositions(p, n)[c]) = "AA"

(* The row that is read: where each of its values comes from.              *)
RowAt(p, n) ==
  [c \in 1 .. n |-> LET cell == CellAt(ValuePositions(p, n)[c])
                    IN  <<cell.line, cell.col>>]
-----------------------------------------------------------------------------
(* The destructor, or reset(), gives the blocks back one by one; what      *)
(* reset() left null the destructor passes over.                           *)
ReleaseNext ==
  /\ \E i \in DOMAIN cache :
       /\ cache[i] # NoBlock /\ \A k \in 1 .. i - 1 : cache[k] = NoBlock
       /\ BM!Release(cache[i])
       /\ cache' = [cache EXCEPT ![i] = NoBlock]
  /\ UNCHANGED store

AllReleased == \A i \in DOMAIN cache : cache[i] = NoBlock

CopiesOK ==
  /\ BM!TypeOK
  /\ store \in [1 .. sBlockNumber -> Contents]
  /\ cache \in Seq(0 .. sBlockNumber)

(* No marker is written behind the end of a block: the two bytes that      *)
(* every value leaves free are enough for the markers that may follow it.  *)
MarkersFit == \A b \in 1 .. sBlockNumber : store[b].used <= Capacity
=============================================================================
