------------------------- MODULE BlockManagerProofs -------------------------
(***************************************************************************)
(* What BlockManager promises for every limit, proved.                     *)
(***************************************************************************)
EXTENDS BlockManager, FiniteSetTheorems, TLAPS

(* The inductive invariant.  The numbers of the blocks are never given out *)
(* twice (TypeOK), so a new block is not among the existing ones; a        *)
(* request passes the limit only after the counter has been advanced.      *)
IInv == TypeOK /\ Accounting /\ LimitKept

LEMMA InitIInv == Init => IInv
  BY ManagerAssumption, FS_EmptySet DEF Init, IInv, TypeOK, Accounting, LimitKept, Refused

(* The existing blocks are finitely many.                                  *)
LEMMA BlocksFinite ==
  ASSUME TypeOK
  PROVE  IsFiniteSet(blocks) /\ Cardinality(blocks) \in Nat
<1>1. IsFiniteSet(1 .. sBlockNumber)
  BY FS_Interval DEF TypeOK
<1>2. IsFiniteSet(blocks)
  BY <1>1, FS_Subset DEF TypeOK
<1> QED
  BY <1>2, FS_CardinalityType

LEMMA CreateBlockIInv ==
  ASSUME IInv, CreateBlock
  PROVE  IInv'
<1>1. IsFiniteSet(blocks) /\ Cardinality(blocks) \in Nat
  BY BlocksFinite DEF IInv
<1>2. sBlockNumber' \notin blocks
  BY DEF CreateBlock, IInv, TypeOK
<1>3. Cardinality(blocks') = Cardinality(blocks) + 1
  BY <1>1, <1>2, FS_AddElement DEF CreateBlock
<1>4. TypeOK'
  BY DEF CreateBlock, CountRequest, IInv, TypeOK
<1>5. Accounting' /\ Refused' = Refused
  BY <1>1, <1>3 DEF CreateBlock, CountRequest, IInv, TypeOK, Accounting, Refused
<1>6. LimitKept'
  BY <1>1, <1>3, <1>5, ManagerAssumption
  DEF CreateBlock, CountRequest, IInv, TypeOK, Accounting, LimitKept, Refused
<1> QED
  BY <1>4, <1>5, <1>6 DEF IInv

LEMMA CreateBlockThrowsIInv ==
  ASSUME IInv, CreateBlockThrows
  PROVE  IInv'
<1>1. Cardinality(blocks) \in Nat
  BY BlocksFinite DEF IInv
<1>2. TypeOK'
  BY DEF CreateBlockThrows, CountRequest, IInv, TypeOK
<1>3. Accounting' /\ Refused' = Refused + 1
  BY <1>1 DEF CreateBlockThrows, CountRequest, IInv, TypeOK, Accounting, Refused
<1>4. LimitKept'
  BY <1>1, <1>3, ManagerAssumption
  DEF CreateBlockThrows, CountRequest, IInv, TypeOK, Accounting, LimitKept, Refused
<1> QED
  BY <1>2, <1>3, <1>4 DEF IInv

LEMMA ReleaseIInv ==
  ASSUME IInv, NEW b \in blocks, Release(b)
  PROVE  IInv'
<1>1. IsFiniteSet(blocks) /\ Cardinality(blocks) \in Nat
  BY BlocksFinite DEF IInv
<1>2. b # NoBlock
  BY DEF IInv, TypeOK, NoBlock
<1>3. /\ activeBlocks' = activeBlocks - 1
      /\ blocks' = blocks \ {b}
      /\ UNCHANGED <<maxCountActiveBlocks, totalBlocks, sBlockNumber>>
  BY <1>2 DEF Release
<1>4. Cardinality(blocks') = Cardinality(blocks) - 1 /\ Cardinality(blocks') \in Nat
  BY <1>1, <1>3, FS_RemoveElement, FS_CardinalityType
<1>5. activeBlocks' = Cardinality(blocks') + Refused' /\ Refused' = Refused /\ Refused \in Nat
  BY <1>1, <1>3, <1>4 DEF IInv, TypeOK, Accounting, Refused
<1>6. TypeOK'
  BY <1>3, <1>4, <1>5 DEF IInv, TypeOK
<1>7. LimitKept'
  BY <1>1, <1>3, <1>4, <1>5, ManagerAssumption DEF IInv, TypeOK, LimitKept, Refused
<1> QED
  BY <1>5, <1>6, <1>7 DEF IInv, Accounting

LEMMA SpecIInv == Spec => []IInv
<1>1. IInv /\ [Next]_managerVars => IInv'
  <2> SUFFICES ASSUME IInv, [Next]_managerVars PROVE IInv'
    OBVIOUS
  <2>1. CASE CreateBlock
    BY <2>1, CreateBlockIInv
  <2>2. CASE CreateBlockThrows
    BY <2>2, CreateBlockThrowsIInv
  <2>3. CASE \E b \in blocks : Release(b)
    BY <2>3, ReleaseIInv
  <2>4. CASE UNCHANGED managerVars
    BY <2>4 DEF managerVars, IInv, TypeOK, Accounting, LimitKept, Refused
  <2> QED
    BY <2>1, <2>2, <2>3, <2>4 DEF Next
<1> QED
  BY <1>1, InitIInv, PTL DEF Spec

(* The types of the counters: in particular none ever goes below zero,     *)
(* whatever is created, refused and released.                              *)
THEOREM TypeCorrect == Spec => []TypeOK
  BY SpecIInv, PTL DEF IInv

(* getActiveBlocks() counts the existing blocks and the requests that were *)
(* refused, in every state of createBlock() and release() calls.           *)
THEOREM AccountingHolds == Spec => []Accounting
  BY SpecIInv, PTL DEF IInv

(* createBlock() keeps the limit, and getMaxUsedBlocks() reports at least  *)
(* the blocks that existed at the same time.                               *)
THEOREM LimitHolds == Spec => []LimitKept
  BY SpecIInv, PTL DEF IInv
=============================================================================
