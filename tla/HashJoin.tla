------------------------------ MODULE HashJoin ------------------------------
(***************************************************************************)
(* InnerHashJoinOperatorNode with its HashingBlockIterator: the rows of    *)
(* the right input are copied into blocks of the iterator and entered into *)
(* a hash table, key -> position of the row; then each row of the left     *)
(* input looks its key up and the rows found are read from the blocks.     *)
(*                                                                         *)
(* The key in the table is a Variant that does not own its string: it      *)
(* points into the block of the right input from which the row was copied, *)
(* and that input releases a block when it has moved two blocks on.  The   *)
(* field block of a right row names the block of the input it comes from.  *)
(*                                                                         *)
(* All code runs in the thread of the query.  The engine runs one join     *)
(* after the other with the same block manager.                            *)
(***************************************************************************)
EXTENDS RowCopies

CONSTANTS
  Inputs,          (* the inputs of the joins, see EquiJoin                 *)
  KeyColumn,       (* _hashTableKeyPosition of the iterator                 *)
  MaxJoins         (* bound: the joins that one engine runs                 *)

(* A table has at least one column, and the key is one of them.            *)
ASSUME JoinAssumption ==
  /\ \A in \in Inputs :
       /\ in.lhs \in Seq([type : STRING, n : Nat, null : BOOLEAN])
       /\ in.rhs \in Seq([key : [type : STRING, n : Nat, null : BOOLEAN],
                          sizes : Seq(Nat) \ {<<>>}, block : Nat])
       /\ \A r \in DOMAIN in.rhs : KeyColumn <= Len(in.rhs[r].sizes)
  /\ KeyColumn \in Nat \ {0}
  /\ MaxJoins \in Nat

VARIABLES
  pc,         (* where getNextRow() of the join is                          *)
  joins,      (* how many joins were begun                                  *)
  input,      (* the inputs of the current one                              *)
  rpos, lpos, (* the rows pulled from the right and from the left input     *)
  col,        (* the value of the right row that is copied next             *)
  at,         (* BlockPosition of the right row that is copied              *)
  hashTable,  (* [key, row, at]; row is the right row, for the key's origin *)
  range,      (* _context: the entries found for the left row and not read  *)
  delivered, outcome,
  fault       (* the undefined behaviour reached, or "none"                 *)

tableVars == <<cache, hashTable>>
vars == <<managerVars, store, pc, joins, input, rpos, lpos, col, at, tableVars,
          range, delivered, outcome, fault>>

EJ == INSTANCE EquiJoin

RightRow == input.rhs[rpos]
-----------------------------------------------------------------------------
(* Keys: Variant::getHash() and operator==.  NULL hashes like the number   *)
(* 0, and so does the REAL 0.0; other numbers hash differently as INT and  *)
(* as REAL.                                                                *)
Hash(key) ==
  IF key.null \/ (key.n = 0 /\ key.type \in {"INT", "REAL"}) THEN <<"zero">>
  ELSE <<key.type, key.n>>

(* What could go wrong, for the runs that test the properties: a NULL is   *)
(* compared by the number that is stored beside it.                        *)
SameNumber(j, k) == j.n = k.n

SameKey(j, k) == ~ j.null /\ ~ k.null /\ j.n = k.n

(* The entries whose key operator== is applied to.                         *)
Compared(key) == {e \in hashTable : Hash(e.key) = Hash(key)}

(* What could go wrong, for the runs that test the properties: the input   *)
(* releases its block when it leaves it.                                   *)
DanglingEarly(r) ==
  /\ input.rhs[r].key.type = "STRING" /\ ~ input.rhs[r].key.null
  /\ input.rhs[r].block < RightRow.block

(* The right input has released the block that a string of row r is in.    *)
Dangling(r) ==
  /\ input.rhs[r].key.type = "STRING" /\ ~ input.rhs[r].key.null
  /\ input.rhs[r].block + 2 <= RightRow.block

ReadsReleasedKey(key) == \E e \in Compared(key) : Dangling(e.row)

Crash(what) ==
  /\ fault' = what
  /\ UNCHANGED <<managerVars, store, pc, joins, input, rpos, lpos, col, at,
                 tableVars, range, delivered, outcome>>

(* getNextRow() is left with an exception, or not called any more: the     *)
(* plan is destroyed.                                                      *)
Destroy(how) ==
  /\ outcome' = how
  /\ pc' = "release"
  /\ UNCHANGED <<joins, input, rpos, lpos, col, at, tableVars, range,
                 delivered, fault>>
-----------------------------------------------------------------------------
Init ==
  /\ BM!Init
  /\ store = <<>> /\ pc = "closed" /\ joins = 0 /\ input \in Inputs
  /\ rpos = 0 /\ lpos = 0 /\ col = 1 /\ at = [block |-> 0, offset |-> 0]
  /\ cache = <<>> /\ hashTable = {} /\ range = {}
  /\ delivered = <<>> /\ outcome = "none" /\ fault = "none"

NewJoin ==
  /\ pc = "closed" /\ joins < MaxJoins
  /\ joins' = joins + 1
  /\ pc' = "first"
  /\ input' \in Inputs
  /\ rpos' = 0 /\ lpos' = 0 /\ col' = 1 /\ at' = [block |-> 0, offset |-> 0]
  /\ cache' = <<>> /\ hashTable' = {} /\ range' = {}
  /\ delivered' = <<>> /\ outcome' = "open"
  /\ UNCHANGED <<managerVars, store, fault>>

(* The first getNextKeyValueRow() fills the hash table by getNextRow() of  *)
(* the iterator, which first of all creates a block.                       *)
FirstBlock ==
  /\ pc = "first"
  /\ PushBlock(Empty)
  /\ pc' = "pull"
  /\ UNCHANGED <<joins, input, rpos, lpos, col, at, hashTable, range, delivered,
                 outcome, fault>>

FirstBlockThrows ==
  /\ pc = "first"
  /\ BM!CreateBlockThrows
  /\ Destroy("threw")
  /\ UNCHANGED store

(* The right input returns its next row.                                   *)
PullRight ==
  /\ pc = "pull" /\ rpos < Len(input.rhs)
  /\ rpos' = rpos + 1
  /\ col' = 1
  /\ at' = Here
  /\ pc' = "copy"
  /\ UNCHANGED <<managerVars, store, joins, input, lpos, tableVars, range,
                 delivered, outcome, fault>>

(* The next value of the row: the key is entered, the value is copied.     *)
Copying == pc = "copy" /\ col <= Len(RightRow.sizes)
EntersReleasedKey == col = KeyColumn /\ ReadsReleasedKey(RightRow.key)
Copy ==
  /\ Copying /\ ~ EntersReleasedKey
  /\ hashTable' = IF col = KeyColumn
                  THEN hashTable \cup {[key |-> RightRow.key, row |-> rpos, at |-> at]}
                  ELSE hashTable
  /\ col' = col + 1
  /\ UNCHANGED <<pc, joins, input, rpos, lpos, at, range, delivered, outcome,
                 fault>>

CopyValue == Copy /\ AddToCurrent(rpos, col, RightRow.sizes[col])

(* The value does not fit: the block is closed and a new one is taken.     *)
CopyToNextBlock == Copy /\ AddToNext(rpos, col, RightRow.sizes[col])

CopyThrows ==
  /\ Copying /\ ~ EntersReleasedKey
  /\ AddThrows(RightRow.sizes[col])
  /\ Destroy("threw")

EndRow ==
  /\ pc = "copy" /\ col > Len(RightRow.sizes)
  /\ WriteMark("BB")
  /\ pc' = "pull"
  /\ UNCHANGED <<joins, input, rpos, lpos, col, at, hashTable, range, delivered,
                 outcome, fault>>

(* What could go wrong, for the runs that test the properties: an empty    *)
(* table is filled from the input again.                                   *)
EndOfRightRefills ==
  /\ pc = "pull" /\ rpos = Len(input.rhs)
  /\ IF hashTable = {} THEN UNCHANGED <<store, pc>>
     ELSE WriteMark("DD") /\ pc' = "match"
  /\ UNCHANGED <<managerVars, cache, joins, input, rpos, lpos, col, at,
                 hashTable, range, delivered, outcome, fault>>

(* The right input is at its end.  An empty table would be filled again at *)
(* each later call, from the blocks, where the iterator finds the end      *)
(* marker at once.                                                         *)
EndOfRight ==
  /\ pc = "pull" /\ rpos = Len(input.rhs)
  /\ WriteMark("DD")
  /\ pc' = "match"
  /\ UNCHANGED <<joins, input, rpos, lpos, col, at, hashTable, range, delivered,
                 outcome, fault>>

(* An input throws.                                                        *)
InputThrows ==
  /\ pc = "pull" \/ (pc = "match" /\ range = {})
  /\ Destroy("threw")
  /\ UNCHANGED <<managerVars, store>>
-----------------------------------------------------------------------------
(* setContextForKeyValue(): equal_range() with the key of the left row.    *)
(* operator== throws for keys of different types.                          *)
LeftKey == input.lhs[lpos + 1]
PullsLeft == pc = "match" /\ range = {} /\ lpos < Len(input.lhs)
TypesDiffer == \E e \in Compared(LeftKey) : e.key.type # LeftKey.type

NextLeft ==
  /\ PullsLeft /\ ~ TypesDiffer /\ ~ ReadsReleasedKey(LeftKey)
  /\ lpos' = lpos + 1
  /\ range' = {e \in Compared(LeftKey) : SameKey(e.key, LeftKey)}
  /\ UNCHANGED <<managerVars, store, pc, joins, input, rpos, col, at, tableVars,
                 delivered, outcome, fault>>

NextLeftThrows ==
  /\ PullsLeft /\ TypesDiffer
  /\ Destroy("threw")
  /\ UNCHANGED <<managerVars, store>>

(* A string key is compared after its block was released.                  *)
ReadReleasedKey ==
  /\ \/ Copying /\ EntersReleasedKey
     \/ PullsLeft /\ ReadsReleasedKey(LeftKey)
  /\ Crash("key")

(* getNextKeyValueRow() reads the row that an entry points to.             *)
Width(e) == Len(input.rhs[e.row].sizes)

(* It returns one of the rows found, in the order of the hash table.       *)
NextMatch ==
  /\ pc = "match"
  /\ \E e \in range :
       /\ Complete(e.at, Width(e))
       /\ delivered' = Append(delivered,
                              [lhs |-> lpos, rhs |-> RowAt(e.at, Width(e))])
       /\ range' = range \ {e}
  /\ UNCHANGED <<managerVars, store, pc, joins, input, rpos, lpos, col, at,
                 tableVars, outcome, fault>>

(* A value was too large for any block and is missing.                     *)
NextMatchThrows ==
  /\ pc = "match" /\ \E e \in range : ~ Complete(e.at, Width(e))
  /\ Destroy("threw")
  /\ UNCHANGED <<managerVars, store>>

(* The left input is at its end: the iterator is reset.                    *)
EndOfLeft ==
  /\ pc = "match" /\ range = {} /\ lpos = Len(input.lhs)
  /\ outcome' = "eof"
  /\ pc' = "release"
  /\ hashTable' = {}
  /\ UNCHANGED <<managerVars, store, joins, input, rpos, lpos, col, at, cache,
                 range, delivered, fault>>

(* The operator above has its row and wants no more.                       *)
Abandon ==
  /\ pc = "match" /\ delivered # <<>>
  /\ Destroy("abandoned")
  /\ UNCHANGED <<managerVars, store>>

ReleaseBlocks ==
  /\ pc = "release"
  /\ ReleaseNext
  /\ UNCHANGED <<pc, joins, input, rpos, lpos, col, at, hashTable, range,
                 delivered, outcome, fault>>

(* What could go wrong: there is no destructor.                            *)
CloseAtOnce ==
  /\ pc = "release"
  /\ pc' = "closed"
  /\ UNCHANGED <<managerVars, store, joins, input, rpos, lpos, col, at,
                 tableVars, range, delivered, outcome, fault>>

Close ==
  /\ pc = "release" /\ AllReleased
  /\ pc' = "closed"
  /\ UNCHANGED <<managerVars, store, joins, input, rpos, lpos, col, at,
                 tableVars, range, delivered, outcome, fault>>

Join ==
  \/ FirstBlock \/ FirstBlockThrows \/ PullRight
  \/ CopyValue \/ CopyToNextBlock \/ CopyThrows \/ EndRow \/ EndOfRight
  \/ NextLeft \/ NextLeftThrows \/ ReadReleasedKey
  \/ NextMatch \/ NextMatchThrows \/ EndOfLeft
  \/ ReleaseBlocks \/ Close

Stopped ==
  /\ (pc = "closed" /\ joins = MaxJoins) \/ fault # "none"
  /\ UNCHANGED vars

Next ==
  \/ fault = "none" /\ (Join \/ NewJoin \/ InputThrows \/ Abandon)
  \/ Stopped

(* A statement that runs goes on.                                          *)
Spec == Init /\ [][Next]_vars /\ WF_vars(fault = "none" /\ Join)
-----------------------------------------------------------------------------
TypeOK ==
  /\ CopiesOK
  /\ pc \in {"closed", "first", "pull", "copy", "match", "release"}
  /\ joins \in 0 .. MaxJoins /\ input \in Inputs
  /\ rpos \in 0 .. Len(input.rhs) /\ lpos \in 0 .. Len(input.lhs)
  /\ col \in Nat \ {0}
  /\ at \in [block : Nat, offset : Nat]
  /\ hashTable \subseteq [key : {input.rhs[r].key : r \in DOMAIN input.rhs},
                          row : 1 .. rpos, at : [block : Nat, offset : Nat]]
  /\ range \subseteq hashTable \/ pc \in {"release", "closed"}
  /\ outcome \in {"none", "open", "eof", "threw", "abandoned"}
  /\ fault \in {"none", "key"}

(* Every join is an EquiJoin: however rows and keys are spread over blocks,*)
(* each left row meets exactly the right rows with an equal key, and an    *)
(* end is reported only when all of them have been delivered.              *)
ImplementsEquiJoin == EJ!Spec

KeyFaultsExplained ==
  fault = "key" =>
    \E r, s \in DOMAIN input.rhs :
      /\ input.rhs[r].key.type = "STRING"
      /\ input.rhs[r].block + 2 <= input.rhs[s].block

(* A key is read after its block was released only if it is a string and   *)
(* the right input fills more than two blocks; and no marker is written    *)
(* behind the end of a block that rows are copied to.  All variables keep  *)
(* their types.                                                            *)
FaultsExplained == TypeOK /\ KeyFaultsExplained /\ MarkersFit

(* Whether a join ends, fails in the middle of filling its table, or is    *)
(* abandoned, it gives all of its blocks back.                             *)
BlocksGivenBack == pc = "closed" => blocks = {}

(* Every join that is begun comes to its end, an empty right input, whose  *)
(* table looks unfilled for ever, included.                                *)
JoinEnds == outcome = "open" ~> (pc = "closed" \/ fault # "none")
=============================================================================
