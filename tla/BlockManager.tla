---------------------------- MODULE BlockManager ----------------------------
(***************************************************************************)
(* The block manager of the execution engine (block.cpp, class             *)
(* BlockManager): it hands out the memory blocks all operators of a plan   *)
(* store their rows in, counts them, and refuses to go over a limit.       *)
(*                                                                         *)
(* A block is its number.  The operations are actions that other modules   *)
(* compose with their own; Spec lets one thread call them in any order.    *)
(***************************************************************************)
EXTENDS BlockLimit

VARIABLES
  blocks,               (* _blocks: the numbers of the blocks that exist      *)
  activeBlocks,         (* _activeBlocks                                      *)
  maxCountActiveBlocks, (* _maxCountActiveBlocks                              *)
  totalBlocks,          (* _totalBlocks                                       *)
  sBlockNumber          (* BlockManager::sBlockNumber, the last number given  *)

managerVars ==
  <<blocks, activeBlocks, maxCountActiveBlocks, totalBlocks, sBlockNumber>>

(* A null BlockPtr.  Block numbers start with 1.                           *)
NoBlock == 0

Init ==
  /\ blocks = {}
  /\ activeBlocks = 0
  /\ maxCountActiveBlocks = 0
  /\ totalBlocks = 0
  /\ sBlockNumber = 0

-----------------------------------------------------------------------------
(* The counters createBlock advances before it looks at the limit.         *)
CountRequest ==
  /\ activeBlocks' = activeBlocks + 1
  /\ totalBlocks' = totalBlocks + 1
  /\ maxCountActiveBlocks' = IF activeBlocks' > maxCountActiveBlocks
                             THEN activeBlocks'
                             ELSE maxCountActiveBlocks

(* What could go wrong, for the runs that test the properties: the limit   *)
(* lets one block too many pass.                                           *)
CreateBlockOffByOne ==
  /\ CountRequest
  /\ activeBlocks' <= MaxActiveBlocks + 1
  /\ sBlockNumber' = sBlockNumber + 1
  /\ blocks' = blocks \cup {sBlockNumber'}

(* createBlock() that returns block number sBlockNumber'.                  *)
CreateBlock ==
  /\ CountRequest
  /\ activeBlocks' <= MaxActiveBlocks
  /\ sBlockNumber' = sBlockNumber + 1
  /\ blocks' = blocks \cup {sBlockNumber'}

(* createBlock() that throws: the counters keep the request.               *)
CreateBlockThrows ==
  /\ CountRequest
  /\ activeBlocks' > MaxActiveBlocks
  /\ UNCHANGED <<sBlockNumber, blocks>>

(* release(b): a null pointer is ignored.                                  *)
Release(b) ==
  IF b = NoBlock
  THEN UNCHANGED managerVars
  ELSE /\ activeBlocks' = activeBlocks - 1
       /\ blocks' = blocks \ {b}
       /\ UNCHANGED <<maxCountActiveBlocks, totalBlocks, sBlockNumber>>

Next ==
  \/ CreateBlock
  \/ CreateBlockThrows
  \/ \E b \in blocks : Release(b)

Spec == Init /\ [][Next]_managerVars

-----------------------------------------------------------------------------
(* The requests that were refused.                                         *)
Refused == totalBlocks - sBlockNumber

TypeOK ==
  /\ blocks \subseteq 1 .. sBlockNumber
  /\ activeBlocks \in Nat
  /\ maxCountActiveBlocks \in Nat
  /\ totalBlocks \in Nat
  /\ sBlockNumber \in 0 .. totalBlocks

(* getActiveBlocks() is the number of blocks that exist plus one for each  *)
(* request that createBlock() ever refused: what a refused request counts  *)
(* is never given back.                                                    *)
Accounting == activeBlocks = Cardinality(blocks) + Refused

(* The memory limit: however requests, refusals and releases alternate, no *)
(* more than MaxActiveBlocks blocks exist, and the statistics of a         *)
(* statement (getMaxUsedBlocks) never report fewer than there were.        *)
LimitKept ==
  /\ Cardinality(blocks) <= MaxActiveBlocks
  /\ Cardinality(blocks) <= maxCountActiveBlocks
  /\ maxCountActiveBlocks <= MaxActiveBlocks + Refused
=============================================================================
