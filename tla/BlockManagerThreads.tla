------------------------ MODULE BlockManagerThreads ------------------------
(***************************************************************************)
(* The block manager as the threads of a statement use it: each table scan *)
(* has a reader thread that creates blocks while the thread that runs the  *)
(* query creates and releases them.  No operation takes a lock, so an      *)
(* update of a counter is a read and a write that other threads may        *)
(* separate.                                                               *)
(*                                                                         *)
(* SerialSpec lets only one call run at a time, and implements             *)
(* BlockManager; Spec is what the code does.                               *)
(***************************************************************************)
EXTENDS BlockLimit

CONSTANTS
  Threads,
  WordSize,       (* size_t holds 0 .. WordSize - 1                         *)
  MaxCalls        (* bound: the calls of createBlock                        *)

ASSUME ThreadsAssumption ==
  /\ MaxCalls \in Nat
  /\ WordSize \in Nat /\ WordSize > MaxCalls /\ WordSize > MaxActiveBlocks

VARIABLES
  blocks,               (* _blocks: for each block its number, and an id    *)
                        (* that stands for its address                      *)
  activeBlocks, maxCountActiveBlocks, totalBlocks, sBlockNumber,
  pc,                   (* where each thread is in its call                 *)
  reg,                  (* the value that its update of a counter has read  *)
  target,               (* the block that it creates or releases            *)
  calls,                (* history: the calls of createBlock so far         *)
  corrupted             (* two threads have changed _blocks at once         *)

counters == <<activeBlocks, maxCountActiveBlocks, totalBlocks, sBlockNumber>>
vars == <<blocks, counters, pc, reg, target, calls, corrupted>>

NoTarget == [number |-> 0, id |-> 0]

managerVars == <<blocks, counters>>

Init ==
  /\ blocks = {}
  /\ activeBlocks = 0 /\ maxCountActiveBlocks = 0
  /\ totalBlocks = 0 /\ sBlockNumber = 0
  /\ pc = [t \in Threads |-> "idle"]
  /\ reg = [t \in Threads |-> 0]
  /\ target = [t \in Threads |-> NoTarget]
  /\ calls = 0 /\ corrupted = FALSE

-----------------------------------------------------------------------------
Goto(t, here, there) == pc[t] = here /\ pc' = [pc EXCEPT ![t] = there]
Read(t, value) == reg' = [reg EXCEPT ![t] = value]
Plus(value, n) == (value + n) % WordSize
Larger(a, b) == IF a > b THEN a ELSE b

(* createBlock(), one access to a counter after the other.                 *)
BeginCreate(t) ==
  /\ calls < MaxCalls
  /\ Goto(t, "idle", "storeActive")
  /\ Read(t, activeBlocks)
  /\ calls' = calls + 1
  /\ target' = [target EXCEPT ![t] = [number |-> 0, id |-> calls']]
  /\ UNCHANGED <<managerVars, corrupted>>

StoreActive(t) ==
  /\ Goto(t, "storeActive", "loadTotal")
  /\ activeBlocks' = Plus(reg[t], 1)
  /\ UNCHANGED <<blocks, maxCountActiveBlocks, totalBlocks, sBlockNumber, reg,
                 target, calls, corrupted>>

LoadTotal(t) ==
  /\ Goto(t, "loadTotal", "storeTotal")
  /\ Read(t, totalBlocks)
  /\ UNCHANGED <<managerVars, target, calls, corrupted>>

StoreTotal(t) ==
  /\ Goto(t, "storeTotal", "loadMax")
  /\ totalBlocks' = Plus(reg[t], 1)
  /\ UNCHANGED <<blocks, activeBlocks, maxCountActiveBlocks, sBlockNumber, reg,
                 target, calls, corrupted>>

(* What could go wrong: the maximum follows the counter down.              *)
LoadMaxForgets(t) ==
  /\ Goto(t, "loadMax", "storeMax")
  /\ Read(t, activeBlocks)
  /\ UNCHANGED <<managerVars, target, calls, corrupted>>

LoadMax(t) ==
  /\ Goto(t, "loadMax", "storeMax")
  /\ Read(t, Larger(activeBlocks, maxCountActiveBlocks))
  /\ UNCHANGED <<managerVars, target, calls, corrupted>>

StoreMax(t) ==
  /\ Goto(t, "storeMax", "check")
  /\ maxCountActiveBlocks' = reg[t]
  /\ UNCHANGED <<blocks, activeBlocks, totalBlocks, sBlockNumber, reg, target,
                 calls, corrupted>>

(* The exception: the counters keep what was added to them.                *)
Refuse(t) ==
  /\ Goto(t, "check", "idle")
  /\ activeBlocks > MaxActiveBlocks
  /\ target' = [target EXCEPT ![t] = NoTarget]
  /\ UNCHANGED <<managerVars, reg, calls, corrupted>>

LoadNumber(t) ==
  /\ Goto(t, "check", "storeNumber")
  /\ activeBlocks <= MaxActiveBlocks
  /\ Read(t, sBlockNumber)
  /\ UNCHANGED <<managerVars, target, calls, corrupted>>

StoreNumber(t) ==
  /\ Goto(t, "storeNumber", "push")
  /\ sBlockNumber' = Plus(reg[t], 1)
  /\ target' = [target EXCEPT ![t].number = Plus(reg[t], 1)]
  /\ UNCHANGED <<blocks, activeBlocks, maxCountActiveBlocks, totalBlocks, reg,
                 calls, corrupted>>

Push(t) ==
  /\ Goto(t, "push", "idle")
  /\ blocks' = blocks \cup {target[t]}
  /\ target' = [target EXCEPT ![t] = NoTarget]
  /\ UNCHANGED <<counters, reg, calls, corrupted>>

(* release(b).  A block has one owner, see OneOwner of BlockScan.          *)
BeginRelease(t) ==
  /\ Goto(t, "idle", "storeReleased")
  /\ Read(t, activeBlocks)
  /\ \E b \in blocks :
       /\ \A u \in Threads : target[u] # b
       /\ target' = [target EXCEPT ![t] = b]
  /\ UNCHANGED <<managerVars, calls, corrupted>>

StoreReleased(t) ==
  /\ Goto(t, "storeReleased", "erase")
  /\ activeBlocks' = Plus(reg[t], WordSize - 1)
  /\ UNCHANGED <<blocks, maxCountActiveBlocks, totalBlocks, sBlockNumber, reg,
                 target, calls, corrupted>>

Erase(t) ==
  /\ Goto(t, "erase", "idle")
  /\ blocks' = blocks \ {target[t]}
  /\ target' = [target EXCEPT ![t] = NoTarget]
  /\ UNCHANGED <<counters, reg, calls, corrupted>>

(* Two threads change the vector at once: anything may follow.             *)
Corrupt ==
  /\ \E t, u \in Threads : t # u /\ {pc[t], pc[u]} \subseteq {"push", "erase"}
  /\ corrupted' = TRUE
  /\ UNCHANGED <<managerVars, pc, reg, target, calls>>

Begin(t) == BeginCreate(t) \/ BeginRelease(t)

Proceed(t) ==
  \/ StoreActive(t) \/ LoadTotal(t) \/ StoreTotal(t) \/ LoadMax(t)
  \/ StoreMax(t) \/ Refuse(t) \/ LoadNumber(t) \/ StoreNumber(t) \/ Push(t)
  \/ StoreReleased(t) \/ Erase(t)

Quiet == \A t \in Threads : pc[t] = "idle"

(* The threads take turns.                                                 *)
SerialNext == \E t \in Threads : (Quiet /\ Begin(t)) \/ Proceed(t)
SerialSpec == Init /\ [][SerialNext]_vars

(* The code.                                                               *)
Next ==
  /\ ~ corrupted
  /\ (\E t \in Threads : Begin(t) \/ Proceed(t)) \/ Corrupt
Spec == Init /\ [][Next]_vars
-----------------------------------------------------------------------------
TypeOK ==
  /\ blocks \subseteq [number : 0 .. MaxCalls, id : 1 .. MaxCalls]
  /\ activeBlocks \in 0 .. WordSize - 1
  /\ maxCountActiveBlocks \in 0 .. WordSize - 1
  /\ totalBlocks \in 0 .. MaxCalls /\ sBlockNumber \in 0 .. MaxCalls
  /\ reg \in [Threads -> 0 .. WordSize - 1]
  /\ target \in [Threads -> [number : 0 .. MaxCalls, id : 0 .. MaxCalls]]
  /\ calls \in 0 .. MaxCalls /\ corrupted \in BOOLEAN

(* The state as the call in progress, if any, will leave it: the call      *)
(* takes effect with its first step.                                       *)
In(places) == \E t \in Threads : pc[t] \in places

ActiveAfter == IF In({"storeActive"}) THEN activeBlocks + 1
               ELSE IF In({"storeReleased"}) THEN activeBlocks - 1
               ELSE activeBlocks

BeforeCheck ==
  {"storeActive", "loadTotal", "storeTotal", "loadMax", "storeMax", "check"}
Granted ==
  In({"storeNumber", "push"}) \/ (In(BeforeCheck) /\ ActiveAfter <= MaxActiveBlocks)

NumberAfter == IF Granted /\ ~ In({"push"}) THEN sBlockNumber + 1 ELSE sBlockNumber
TotalAfter == IF In({"storeActive", "loadTotal", "storeTotal"})
              THEN totalBlocks + 1 ELSE totalBlocks
Kept == {b \in blocks : \A t \in Threads : target[t] # b}
BlocksAfter == {b.number : b \in Kept} \cup (IF Granted THEN {NumberAfter} ELSE {})

Settled == INSTANCE BlockManager WITH
  blocks <- BlocksAfter,
  activeBlocks <- ActiveAfter,
  maxCountActiveBlocks <- Larger(ActiveAfter, maxCountActiveBlocks),
  totalBlocks <- TotalAfter,
  sBlockNumber <- NumberAfter

(* If the threads take turns, whatever thread releases a block that        *)
(* another one created, the calls behave as the atomic operations of       *)
(* BlockManager do, refusals included.                                     *)
ImplementsBlockManager == Settled!Spec

(* "MPF_TEST_ASSERTEQUAL(1u, blockManager.getActiveBlocks())" after two    *)
(* blocks were created and one was released (test/blockmanager_test.cpp:94):*)
(* when no call runs the manager counts the blocks that exist.  Looked at  *)
(* only as long as no request was refused and the vector is intact.        *)
CountsLiveBlocks ==
  Quiet /\ ~ corrupted /\ calls <= MaxActiveBlocks =>
    activeBlocks = Cardinality(blocks)
=============================================================================
