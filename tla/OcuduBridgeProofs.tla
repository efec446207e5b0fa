------------------------- MODULE OcuduBridgeProofs -------------------------
(***************************************************************************)
(* Proofs about MasterPool for every block count, depth and slot quota,    *)
(* and about the bridge that it is part of.                                *)
(*                                                                         *)
(* The pool's inductive invariant is its type, NoAlias, NoLostBlock and    *)
(* the slot quota; that the free list never outgrows its array follows     *)
(* from NoAlias by the pigeonhole principle.                               *)
(*                                                                         *)
(* OcuduBridge is proved for every number of blocks and buffers, every     *)
(* capacity of the rings and every Hold, Backlog and Lag that together     *)
(* stay below Depth: no block is recycled under a reader, and every buffer *)
(* of the two regions is in exactly one place (BuffersOK).                 *)
(*                                                                         *)
(* The invariant that carries the argument is AgeBound.  A rotation ages a *)
(* block by one and takes one SLOT.indication off Pending; a               *)
(* SLOT.indication of L1 adds one to Pending and one to what L1 has seen.  *)
(* A block is free only at age Depth (DeferredPool), and AgeBound keeps    *)
(* the blocks in flight below it.                                          *)
(***************************************************************************)
EXTENDS OcuduBridge, SequenceFacts

-----------------------------------------------------------------------------
(* The inductive invariant.  NoAlias alone is not inductive: Top is a      *)
(* block, and is outside every record, only because of PoolTypeOK and      *)
(* NoAlias together; NoLostBlock is carried by the same facts.             *)
WithinQuota == \A k \in Record : Len(slots[k]) <= MaxPerSlot

PoolInv == PoolTypeOK /\ NoAlias /\ NoLostBlock /\ WithinQuota

(* The newest record, the oldest, and the neighbours of a record.          *)
LEMMA RecordFacts ==
    /\ Newest \in Record /\ 0 \in Record
    /\ \A k \in Record : k < Newest => k + 1 \in Record /\ k + 1 # 0
    /\ \A k \in Record : ~(k < Newest) => k = Newest
    /\ \A k \in Record : k # 0 => k - 1 \in Record /\ k - 1 < Newest /\ (k - 1) + 1 = k
  BY PoolAssumption DEF Record, Newest

(* A created pool has every block on its free list, once.                  *)
LEMMA CreateFacts == Create => PoolInv
<1> SUFFICES ASSUME Create PROVE PoolInv
  OBVIOUS
<1>1. freeList \in [1 .. BlockCount -> Block]
  BY PoolAssumption DEF Create, Block
<1>2. freeList \in Seq(Block) /\ DOMAIN freeList = 1 .. BlockCount
  BY <1>1, SeqDef, PoolAssumption
<1>3. IsInjective(freeList)
  BY PoolAssumption, <1>2 DEF Create, IsInjective
<1>4. \A b \in Block : b \in Range(freeList)
  <2> TAKE b \in Block
  <2>1. BlockCount - b \in 1 .. BlockCount /\ BlockCount - (BlockCount - b) = b
    BY PoolAssumption DEF Block
  <2>2. freeList[BlockCount - b] = b
    BY <2>1 DEF Create
  <2> QED BY <1>2, <2>1, <2>2 DEF Range
<1>5. \A k \in Record : slots[k] = <<>>
  BY DEF Create
<1>6. slots \in [Record -> Seq(Block)]
  BY <1>5, EmptyFacts DEF Create
<1>7. MaxPerSlot >= 0
  BY PoolAssumption
<1> QED
  BY <1>2, <1>3, <1>4, <1>5, <1>6, <1>7, EmptyFacts
  DEF PoolInv, PoolTypeOK, NoAlias, NoLostBlock, WithinQuota

(* Acquiring: the popped block leaves the free list and joins the newest   *)
(* record, which had room for it.                                          *)
LEMMA AcquireKeepsInv == PoolInv /\ Acquire => PoolInv'
<1> SUFFICES ASSUME PoolInv, Acquire PROVE PoolInv'
  OBVIOUS
<1> DEFINE x == Top
<1>0. /\ freeList \in Seq(Block) /\ freeList # <<>>
      /\ slots \in [Record -> Seq(Block)]
      /\ slots[Newest] \in Seq(Block)
      /\ Len(slots[Newest]) < MaxPerSlot
  BY RecordFacts DEF PoolInv, PoolTypeOK, Acquire, CanAcquire
<1>1. /\ freeList' \in Seq(Block)
      /\ x \in Block
      /\ Range(freeList) = Range(freeList') \cup {x}
      /\ IsInjective(freeList')
      /\ x \notin Range(freeList')
  BY <1>0, PopFacts DEF Acquire, Top, PoolInv, NoAlias
<1>2. /\ slots' = [slots EXCEPT ![Newest] = Append(slots[Newest], x)]
      /\ \A k \in Record : k # Newest => slots'[k] = slots[k]
      /\ slots'[Newest] = Append(slots[Newest], x)
  BY <1>0, RecordFacts DEF Acquire
<1> HIDE DEF x
<1>3. \A k \in Record : /\ IsInjective(slots[k])
                        /\ x \notin Range(slots[k])
                        /\ Range(slots[k]) \cap Range(freeList) = {}
                        /\ \A l \in Record \ {k} : Range(slots[k]) \cap Range(slots[l]) = {}
  BY <1>1 DEF PoolInv, NoAlias
<1>4. /\ slots'[Newest] \in Seq(Block)
      /\ Len(slots'[Newest]) = Len(slots[Newest]) + 1
      /\ Range(slots'[Newest]) = Range(slots[Newest]) \cup {x}
      /\ IsInjective(slots'[Newest])
  BY <1>0, <1>1, <1>2, <1>3, AppendFacts, RecordFacts
<1>5. PoolTypeOK'
  BY <1>0, <1>1, <1>2, <1>4 DEF PoolTypeOK
<1>6. NoAlias'
  <2>1. \A k \in Record : IsInjective(slots'[k])
    BY <1>2, <1>3, <1>4
  <2>2. \A k \in Record : Range(slots'[k]) \cap Range(freeList') = {}
    BY <1>1, <1>2, <1>3, <1>4
  <2>3. \A k \in Record : \A l \in Record \ {k} : Range(slots'[k]) \cap Range(slots'[l]) = {}
    <3> TAKE k \in Record
    <3> TAKE l \in Record \ {k}
    <3>1. Range(slots[k]) \cap Range(slots[l]) = {}
      BY <1>3
    <3>2. x \notin Range(slots[k]) /\ x \notin Range(slots[l])
      BY <1>3
    <3>3. CASE k = Newest
      BY <1>2, <1>4, <3>1, <3>2, <3>3
    <3>4. CASE l = Newest
      BY <1>2, <1>4, <3>1, <3>2, <3>4
    <3>5. CASE k # Newest /\ l # Newest
      BY <1>2, <3>1, <3>5
    <3> QED BY <3>3, <3>4, <3>5
  <2> QED BY <1>1, <2>1, <2>2, <2>3 DEF NoAlias
<1>7. NoLostBlock'
  BY <1>1, <1>2, <1>4, RecordFacts DEF PoolInv, NoLostBlock
<1>8. WithinQuota'
  <2>1. Len(slots[Newest]) \in Nat
    BY <1>0, LenProperties
  <2>2. Len(slots[Newest]) + 1 <= MaxPerSlot
    BY <1>0, <2>1, PoolAssumption
  <2> QED BY <1>2, <1>4, <2>2 DEF PoolInv, WithinQuota
<1> QED BY <1>5, <1>6, <1>7, <1>8 DEF PoolInv

(* Rotating: the oldest record moves to the free list as a whole, every    *)
(* other record moves one place down, the newest becomes empty.            *)
LEMMA RotateKeepsInv == PoolInv /\ OnSlotIndication => PoolInv'
<1> SUFFICES ASSUME PoolInv, OnSlotIndication PROVE PoolInv'
  OBVIOUS
<1>0. /\ freeList \in Seq(Block)
      /\ slots \in [Record -> Seq(Block)]
      /\ slots[0] \in Seq(Block)
  BY RecordFacts DEF PoolInv, PoolTypeOK
<1>1. /\ freeList' \in Seq(Block)
      /\ Range(freeList') = Range(freeList) \cup Range(slots[0])
      /\ IsInjective(freeList')
  BY <1>0, ConcatFacts, RecordFacts DEF OnSlotIndication, PoolInv, NoAlias
<1>3. \A k \in Record : /\ IsInjective(slots[k])
                        /\ Range(slots[k]) \cap Range(freeList) = {}
                        /\ \A l \in Record \ {k} : Range(slots[k]) \cap Range(slots[l]) = {}
  BY DEF PoolInv, NoAlias
<1>4. \A k \in Record : slots'[k] = IF k < Newest THEN slots[k + 1] ELSE <<>>
  BY DEF OnSlotIndication
<1>5. PoolTypeOK'
  <2>1. \A k \in Record : slots'[k] \in Seq(Block)
    BY <1>0, <1>4, RecordFacts, EmptyFacts
  <2> QED BY <1>0, <1>1, <2>1 DEF PoolTypeOK, OnSlotIndication
<1>6. NoAlias'
  <2>1. \A k \in Record : IsInjective(slots'[k])
    BY <1>3, <1>4, RecordFacts, EmptyFacts
  <2>2. \A k \in Record : Range(slots'[k]) \cap Range(freeList') = {}
    <3> SUFFICES ASSUME NEW k \in Record, k < Newest
                 PROVE  Range(slots'[k]) \cap Range(freeList') = {}
      BY <1>4, EmptyFacts
    <3>1. k + 1 \in Record /\ k + 1 # 0 /\ slots'[k] = slots[k + 1]
      BY <1>4, RecordFacts
    <3> QED BY <1>1, <1>3, <3>1, RecordFacts
  <2>3. \A k \in Record : \A l \in Record \ {k} : Range(slots'[k]) \cap Range(slots'[l]) = {}
    <3> SUFFICES ASSUME NEW k \in Record, NEW l \in Record \ {k}, k < Newest, l < Newest
                 PROVE  Range(slots'[k]) \cap Range(slots'[l]) = {}
      BY <1>4, EmptyFacts
    <3>1. k + 1 \in Record /\ l + 1 \in Record
      BY RecordFacts
    <3>2. k + 1 # l + 1
      BY DEF Record
    <3>3. slots'[k] = slots[k + 1] /\ slots'[l] = slots[l + 1]
      BY <1>4
    <3> QED BY <1>3, <3>1, <3>2, <3>3
  <2> QED BY <1>1, <2>1, <2>2, <2>3 DEF NoAlias
<1>7. NoLostBlock'
  <2> SUFFICES ASSUME NEW b \in Block, NEW k \in Record, k # 0, b \in Range(slots[k])
               PROVE  \E j \in Record : b \in Range(slots'[j])
    BY <1>1 DEF PoolInv, NoLostBlock
  <2>1. k - 1 \in Record /\ k - 1 < Newest /\ (k - 1) + 1 = k
    BY RecordFacts
  <2>2. slots'[k - 1] = slots[k]
    BY <1>4, <2>1
  <2> QED BY <2>1, <2>2
<1>8. WithinQuota'
  <2>1. MaxPerSlot >= 0
    BY PoolAssumption
  <2> QED BY <1>4, <2>1, RecordFacts, EmptyFacts DEF PoolInv, WithinQuota
<1> QED BY <1>5, <1>6, <1>7, <1>8 DEF PoolInv

(* PoolInv holds in every reachable state. *)
THEOREM PoolInvariant == PoolSpec => []PoolInv
<1>1. PoolInv /\ [PoolNext]_poolVars => PoolInv'
  <2> SUFFICES ASSUME PoolInv, [PoolNext]_poolVars PROVE PoolInv'
    OBVIOUS
  <2>1. CASE Acquire
    BY <2>1, AcquireKeepsInv
  <2>2. CASE OnSlotIndication
    BY <2>2, RotateKeepsInv
  <2>3. CASE UNCHANGED poolVars
    BY <2>3 DEF PoolInv, PoolTypeOK, NoAlias, NoLostBlock, WithinQuota, poolVars
  <2> QED BY <2>1, <2>2, <2>3 DEF PoolNext, AcquireFails
<1> QED BY <1>1, CreateFacts, PTL DEF PoolSpec

(* Two downlink messages never share a block, and none is ever lost: the   *)
(* LIFO free list and the slot records partition the region.               *)
THEOREM PoolPartition == PoolSpec => [](NoAlias /\ NoLostBlock)
<1>1. PoolInv => NoAlias /\ NoLostBlock
  BY DEF PoolInv
<1> QED BY <1>1, PoolInvariant, PTL

(* Every block is free or in a record that expires, after any sequence of  *)
(* acquisitions, refusals and SLOT.indications.                            *)
THEOREM PoolNothingLost == PoolSpec => []NoLostBlock
<1>1. PoolInv => NoLostBlock
  BY DEF PoolInv
<1> QED BY <1>1, PoolInvariant, PTL

(* The type invariant. *)
THEOREM PoolTypeCorrect == PoolSpec => []PoolTypeOK
<1>1. PoolInv => PoolTypeOK
  BY DEF PoolInv
<1> QED BY <1>1, PoolInvariant, PTL

(* The fixed arrays of the pool are never overrun. *)
THEOREM PoolNoOverrun == PoolSpec => []NoOverrun
<1>1. PoolInv => NoOverrun
  <2> SUFFICES ASSUME PoolInv PROVE Len(freeList) <= BlockCount
    BY DEF PoolInv, WithinQuota, NoOverrun
  <2>1. freeList \in Seq(Block) /\ IsInjective(freeList)
    BY DEF PoolInv, PoolTypeOK, NoAlias
  <2>2. Len(freeList) \in Nat /\ freeList \in [1 .. Len(freeList) -> Block]
    BY <2>1, LenProperties
  <2>3. freeList \in Injection(1 .. Len(freeList), Block)
    BY <2>1, <2>2 DEF Injection
  <2>4. IsFiniteSet(Block) /\ Cardinality(Block) = BlockCount
    <3>1. 0 \in Int /\ BlockCount - 1 \in Int
      BY PoolAssumption
    <3> QED BY <3>1, FS_Interval, PoolAssumption DEF Block
  <2>5. Cardinality(1 .. Len(freeList)) = Len(freeList)
    BY <2>2, FS_Interval
  <2>6. Cardinality(1 .. Len(freeList)) <= Cardinality(Block)
    BY <2>3, <2>4, FS_Injection
  <2> QED BY <2>4, <2>5, <2>6
<1> QED BY <1>1, PoolInvariant, PTL

-----------------------------------------------------------------------------
(* The refinement of DeferredPool. *)

(* Ages are well defined while the records are disjoint. *)
LEMMA AgeFacts ==
    ASSUME NEW recs, NEW b,
           \A k \in Record : \A l \in Record \ {k} : Range(recs[k]) \cap Range(recs[l]) = {}
    PROVE  /\ \A k \in Record : b \in Range(recs[k]) => AgeIn(recs, b) = Newest - k
           /\ (\A k \in Record : b \notin Range(recs[k])) => AgeIn(recs, b) = Depth
<1>1. ASSUME NEW k \in Record, b \in Range(recs[k])
      PROVE  AgeIn(recs, b) = Newest - k
  <2>1. \A l \in Record : b \in Range(recs[l]) => l = k
    BY <1>1
  <2>2. (CHOOSE l \in Record : b \in Range(recs[l])) = k
    BY <1>1, <2>1
  <2> QED BY <1>1, <2>2 DEF AgeIn
<1> QED BY <1>1 DEF AgeIn

(* Handing out is for blocks of age Depth only; rotation ages every block. *)
LEMMA AcquireIsHandOut ==
    PoolInv /\ PoolInv' /\ Acquire => Top \in Block /\ Promise!HandOut(Top)
<1> SUFFICES ASSUME PoolInv, PoolInv', Acquire
             PROVE  Top \in Block /\ Promise!HandOut(Top)
  OBVIOUS
<1> DEFINE x == Top
<1>0. /\ freeList \in Seq(Block) /\ freeList # <<>>
      /\ slots \in [Record -> Seq(Block)]
      /\ slots[Newest] \in Seq(Block)
  BY RecordFacts DEF PoolInv, PoolTypeOK, Acquire, CanAcquire
<1>1. x \in Block /\ x \in Range(freeList)
  BY <1>0, PopFacts DEF Top
<1>2. /\ \A k \in Record : k # Newest => slots'[k] = slots[k]
      /\ slots'[Newest] = Append(slots[Newest], x)
  BY <1>0, RecordFacts DEF Acquire
<1> HIDE DEF x
<1>3. Range(slots'[Newest]) = Range(slots[Newest]) \cup {x}
  BY <1>0, <1>1, <1>2, AppendFacts
<1>4. AgeIn(slots, x) = Depth
  BY <1>1, AgeFacts DEF PoolInv, NoAlias
<1>5. AgeIn(slots', x) = 0
  <2>1. AgeIn(slots', x) = Newest - Newest
    BY <1>3, AgeFacts, RecordFacts DEF PoolInv, NoAlias
  <2> QED BY <2>1, PoolAssumption DEF Newest
<1>6. ASSUME NEW b \in Block, b # x PROVE AgeIn(slots', b) = AgeIn(slots, b)
  <2>1. \A k \in Record : b \in Range(slots'[k]) <=> b \in Range(slots[k])
    BY <1>2, <1>3, <1>6
  <2>2. CASE \E k \in Record : b \in Range(slots[k])
    BY <2>1, <2>2, AgeFacts DEF PoolInv, NoAlias
  <2>3. CASE \A k \in Record : b \notin Range(slots[k])
    BY <2>1, <2>3, AgeFacts DEF PoolInv, NoAlias
  <2> QED BY <2>2, <2>3
<1> QED BY <1>1, <1>4, <1>5, <1>6 DEF Promise!HandOut, x

(* Rotating ages every recorded block by one.                              *)
LEMMA RotateIsSlotIndication ==
    PoolInv /\ PoolInv' /\ OnSlotIndication => Promise!SlotIndication
<1> SUFFICES ASSUME PoolInv, PoolInv', OnSlotIndication, NEW b \in Block
             PROVE  AgeIn(slots', b) =
                      IF AgeIn(slots, b) < Depth THEN AgeIn(slots, b) + 1 ELSE Depth
  BY DEF Promise!SlotIndication
<1>1. \A k \in Record : slots'[k] = IF k < Newest THEN slots[k + 1] ELSE <<>>
  BY DEF OnSlotIndication
<1>2. CASE \E k \in Record : k # 0 /\ b \in Range(slots[k])
  <2> PICK k \in Record : k # 0 /\ b \in Range(slots[k])
    BY <1>2
  <2>1. k - 1 \in Record /\ b \in Range(slots'[k - 1])
    BY <1>1, RecordFacts
  <2>2. AgeIn(slots, b) = Newest - k /\ AgeIn(slots', b) = Newest - (k - 1)
    BY <2>1, AgeFacts DEF PoolInv, NoAlias
  <2> QED BY <2>2, PoolAssumption DEF Newest, Record
<1>3. ASSUME \A k \in Record : k # 0 => b \notin Range(slots[k])
      PROVE  AgeIn(slots', b) = Depth
  <2>1. \A k \in Record : b \notin Range(slots'[k])
    BY <1>1, <1>3, RecordFacts, EmptyFacts
  <2> QED BY <2>1, AgeFacts DEF PoolInv, NoAlias
<1>4. CASE b \in Range(slots[0]) /\ \A k \in Record : k # 0 => b \notin Range(slots[k])
  <2>1. AgeIn(slots, b) = Newest - 0
    BY <1>4, AgeFacts, RecordFacts DEF PoolInv, NoAlias
  <2> QED BY <1>3, <1>4, <2>1, PoolAssumption DEF Newest
<1>5. CASE \A k \in Record : b \notin Range(slots[k])
  <2>1. AgeIn(slots, b) = Depth
    BY <1>5, AgeFacts DEF PoolInv, NoAlias
  <2> QED BY <1>3, <1>5, <2>1, PoolAssumption
<1> QED BY <1>2, <1>4, <1>5

(* The pool implements deferred free: a block that was handed out is not   *)
(* handed out again before Depth SLOT.indications have been processed.     *)
THEOREM PoolRefinesDeferredPool == PoolSpec => DeferredFree
<1>1. Create => Promise!Init
  <2> SUFFICES ASSUME Create, NEW b \in Block PROVE AgeIn(slots, b) = Depth
    BY DEF Promise!Init
  <2>1. \A k \in Record : slots[k] = <<>>
    BY DEF Create
  <2> QED BY <2>1, EmptyFacts, AgeFacts
<1>2. PoolInv /\ PoolInv' /\ [PoolNext]_poolVars
        => [Promise!Next]_([b \in Block |-> AgeIn(slots, b)])
  <2> SUFFICES ASSUME PoolInv, PoolInv', [PoolNext]_poolVars
               PROVE  Promise!Next \/ slots' = slots
    OBVIOUS
  <2>1. CASE Acquire
    BY <2>1, AcquireIsHandOut DEF Promise!Next
  <2>2. CASE OnSlotIndication
    BY <2>2, RotateIsSlotIndication DEF Promise!Next
  <2>3. CASE UNCHANGED poolVars
    BY <2>3 DEF poolVars
  <2> QED BY <2>1, <2>2, <2>3 DEF PoolNext, AcquireFails
<1> QED BY <1>1, <1>2, PoolInvariant, PTL DEF PoolSpec, DeferredFree, Promise!Spec

-----------------------------------------------------------------------------
(* The messages of a sequence that are SLOT.indications.                   *)
SlotIndices(s) == {i \in DOMAIN s : s[i].slot}

(* A ring holds finitely many SLOT.indications.                            *)
LEMMA SlotIndicesFinite ==
    ASSUME NEW s \in Seq(Message)
    PROVE  IsFiniteSet(SlotIndices(s)) /\ Cardinality(SlotIndices(s)) \in Nat
<1>1. DOMAIN s = 1 .. Len(s) /\ Len(s) \in Nat
  BY LenProperties
<1>2. IsFiniteSet(1 .. Len(s))
  BY <1>1, FS_Interval
<1>3. SlotIndices(s) \subseteq 1 .. Len(s)
  BY <1>1 DEF SlotIndices
<1>4. IsFiniteSet(SlotIndices(s))
  BY <1>2, <1>3, FS_Subset
<1> QED BY <1>4, FS_CardinalityType

(* Appending a message adds its index, if it is a SLOT.indication.         *)
LEMMA SlotIndicesAppend ==
    ASSUME NEW s \in Seq(Message), NEW m \in Message
    PROVE  Cardinality(SlotIndices(Append(s, m))) =
               Cardinality(SlotIndices(s)) + (IF m.slot THEN 1 ELSE 0)
<1> DEFINE t == Append(s, m)
           n == Len(s)
<1>1. /\ DOMAIN s = 1 .. n /\ n \in Nat
      /\ t \in Seq(Message) /\ Len(t) = n + 1 /\ t[n + 1] = m
      /\ \A i \in 1 .. n : t[i] = s[i]
  BY AppendProperties, LenProperties
<1>2. DOMAIN t = 1 .. n + 1
  BY <1>1, LenProperties
<1>3. n + 1 \notin SlotIndices(s)
  BY <1>1 DEF SlotIndices
<1>4. \A i \in 1 .. n + 1 : i \in 1 .. n \/ i = n + 1
  BY <1>1
<1>5. 1 .. n \subseteq 1 .. n + 1 /\ n + 1 \in 1 .. n + 1 /\ n + 1 \notin 1 .. n
  BY <1>1
<1> HIDE DEF t, n
<1>6. CASE m.slot
  <2>1. SlotIndices(t) = SlotIndices(s) \cup {n + 1}
    BY <1>1, <1>2, <1>4, <1>5, <1>6 DEF SlotIndices
  <2> QED BY <1>3, <1>6, <2>1, SlotIndicesFinite, FS_AddElement DEF t
<1>7. CASE ~m.slot
  <2>1. SlotIndices(t) = SlotIndices(s)
    BY <1>1, <1>2, <1>4, <1>5, <1>7 DEF SlotIndices
  <2> QED BY <1>7, <2>1, SlotIndicesFinite DEF t
<1> QED BY <1>6, <1>7

(* Taking the head removes its index, if it is a SLOT.indication, and      *)
(* shifts the others.                                                      *)
LEMMA SlotIndicesTail ==
    ASSUME NEW s \in Seq(Message), s # <<>>
    PROVE  Cardinality(SlotIndices(Tail(s))) + (IF Head(s).slot THEN 1 ELSE 0) =
               Cardinality(SlotIndices(s))
<1> DEFINE t == Tail(s)
           n == Len(s)
           shifted == SlotIndices(s) \ {1}
           shift == [i \in SlotIndices(t) |-> i + 1]
<1>1. /\ DOMAIN s = 1 .. n /\ n \in Nat /\ n # 0
      /\ t \in Seq(Message) /\ Len(t) = n - 1
      /\ \A i \in 1 .. n - 1 : t[i] = s[i + 1]
      /\ Head(s) = s[1]
  BY EmptySeq, HeadTailProperties, LenProperties
<1>2. DOMAIN t = 1 .. n - 1
  BY <1>1, LenProperties
<1> HIDE DEF t, n
<1>3. SlotIndices(t) = {i \in 1 .. n - 1 : s[i + 1].slot}
  BY <1>1, <1>2 DEF SlotIndices
<1>4. shifted = {j \in 2 .. n : s[j].slot}
  BY <1>1 DEF SlotIndices
<1>5. shift \in Bijection(SlotIndices(t), shifted)
  <2>1. \A i \in SlotIndices(t) : i + 1 \in shifted
    BY <1>1, <1>3, <1>4
  <2>2. \A i, j \in SlotIndices(t) : i + 1 = j + 1 => i = j
    BY <1>3
  <2>3. \A j \in shifted : j - 1 \in SlotIndices(t) /\ (j - 1) + 1 = j
    BY <1>1, <1>3, <1>4
  <2>4. shift \in Injection(SlotIndices(t), shifted)
    BY <2>1, <2>2 DEF Injection, IsInjective
  <2>5. shift \in Surjection(SlotIndices(t), shifted)
    BY <2>1, <2>3 DEF Surjection
  <2> QED BY <2>4, <2>5 DEF Bijection
<1>6. Cardinality(SlotIndices(t)) = Cardinality(shifted)
  <2>1. IsFiniteSet(SlotIndices(t))
    BY <1>1, SlotIndicesFinite
  <2> QED BY <1>5, <2>1, FS_Bijection DEF ExistsBijection
<1>7. IsFiniteSet(SlotIndices(s)) /\ Cardinality(SlotIndices(s)) \in Nat
  BY SlotIndicesFinite
<1>8. CASE s[1].slot
  <2>1. 1 \in SlotIndices(s)
    BY <1>1, <1>8 DEF SlotIndices
  <2>2. Cardinality(shifted) = Cardinality(SlotIndices(s)) - 1
    BY <1>7, <2>1, FS_RemoveElement
  <2> QED BY <1>1, <1>6, <1>7, <1>8, <2>2 DEF t
<1>9. CASE ~s[1].slot
  <2>1. shifted = SlotIndices(s)
    BY <1>9 DEF SlotIndices
  <2>2. Cardinality(SlotIndices(t)) = Cardinality(SlotIndices(s))
    BY <1>6, <2>1
  <2> HIDE DEF shifted
  <2> QED BY <1>1, <1>7, <1>9, <2>2 DEF t
<1> QED BY <1>8, <1>9

-----------------------------------------------------------------------------
(* The inductive invariant.                                                *)

(* What the locals of the two threads hold at each point of their loops.   *)
LocalsOK ==
    /\ up.pc = "get" => ~up.slot
    /\ up.pc = "rotate" => up.slot
    /\ up.pc \in {"acquire", "copy"} => up.buf \in L1Buf
    /\ up.pc \in {"copy", "put"} => up.dst \in L2Buf
    /\ down.pc \in {"acquire", "copy"} => down.buf \in L2Buf
    /\ down.pc \in {"copy", "put"} => down.block \in Block

PendingBound == Pending <= Backlog

BridgeInv ==
    PoolInv /\ BridgeTypeOK /\ LocalsOK /\ PendingBound /\ OneMessagePerBlock /\ AgeBound

(* Pending as a count of indices.                                          *)
LEMMA PendingFacts ==
    ASSUME BridgeTypeOK
    PROVE  /\ Pending \in Nat
           /\ Pending = Cardinality(SlotIndices(fromL1)) + (IF up.slot THEN 1 ELSE 0)
           /\ Cardinality(SlotIndices(fromL1)) \in Nat
<1>1. fromL1 \in Seq(Message) /\ up.slot \in BOOLEAN
  BY DEF BridgeTypeOK
<1>2. Cardinality(SlotIndices(fromL1)) \in Nat
  BY <1>1, SlotIndicesFinite
<1>3. Pending = Cardinality(SlotIndices(fromL1)) + (IF up.slot THEN 1 ELSE 0)
  BY DEF Pending, SlotIndices
<1> QED BY <1>2, <1>3

(* The same in the next state.                                             *)
LEMMA PendingNext ==
    ASSUME BridgeTypeOK'
    PROVE  /\ Pending' \in Nat
           /\ Pending' = Cardinality(SlotIndices(fromL1')) + (IF up'.slot THEN 1 ELSE 0)
           /\ Cardinality(SlotIndices(fromL1')) \in Nat
<1>1. fromL1' \in Seq(Message) /\ up'.slot \in BOOLEAN
  BY DEF BridgeTypeOK
<1>2. Cardinality(SlotIndices(fromL1')) \in Nat
  BY <1>1, SlotIndicesFinite
<1>3. Pending' = Cardinality(SlotIndices(fromL1')) + (IF up'.slot THEN 1 ELSE 0)
  BY DEF Pending, SlotIndices
<1> QED BY <1>2, <1>3

(* The age of a block is a natural number up to Depth, and Depth when it   *)
(* is on the free list.                                                    *)
LEMMA AgeRange ==
    ASSUME PoolInv, NEW b \in Block
    PROVE  /\ AgeIn(slots, b) \in 0 .. Depth
           /\ b \in Range(freeList) => AgeIn(slots, b) = Depth
<1>1. CASE \E k \in Record : b \in Range(slots[k])
  <2> PICK k \in Record : b \in Range(slots[k])
    BY <1>1
  <2>1. AgeIn(slots, b) = Newest - k
    BY AgeFacts DEF PoolInv, NoAlias
  <2>2. b \notin Range(freeList)
    BY DEF PoolInv, NoAlias
  <2> QED BY <2>1, <2>2, PoolAssumption DEF Newest, Record
<1>2. CASE \A k \in Record : b \notin Range(slots[k])
  <2>1. AgeIn(slots, b) = Depth
    BY <1>2, AgeFacts DEF PoolInv, NoAlias
  <2> QED BY <2>1, PoolAssumption
<1> QED BY <1>1, <1>2

(* What is in use are blocks.                                              *)
LEMMA InFlightFacts ==
    ASSUME BridgeTypeOK, LocalsOK
    PROVE  InFlight \subseteq Block /\ WrittenBlock \subseteq Block
<1>1. toL1 \in Seq(Block) /\ l1Reads \subseteq Block
  BY DEF BridgeTypeOK
<1>2. Range(toL1) \subseteq Block
  BY <1>1, LenProperties, ElementOfSeq DEF Range
<1> QED BY <1>1, <1>2 DEF InFlight, WrittenBlock, LocalsOK

(* The heart of the argument: AgeBound and the bounds on what each party   *)
(* falls behind keep the blocks in use below the age of a free block.      *)
LEMMA BoundedAgeIsInUse == BridgeInv => NoRecycleUnderReader
<1> SUFFICES ASSUME BridgeInv, NEW b \in InFlight \cup WrittenBlock, b \in Range(freeList)
             PROVE  FALSE
  BY DEF NoRecycleUnderReader
<1>1. b \in Block /\ AgeIn(slots, b) = Depth
  BY InFlightFacts, AgeRange DEF BridgeInv
<1>2. held <= Hold /\ held \in Nat /\ seen[b] <= Lag /\ seen[b] \in Nat
  BY <1>1, BridgeAssumption DEF BridgeInv, BridgeTypeOK
<1>3. Pending \in Nat
  BY PendingFacts DEF BridgeInv
<1>4. CASE b \in InFlight
  <2>1. Depth + Pending <= Hold + Backlog + seen[b]
    BY <1>1, <1>4 DEF BridgeInv, AgeBound
  <2> QED BY <1>2, <1>3, <2>1, BridgeAssumption, PoolAssumption
<1>5. CASE b \in WrittenBlock
  <2>1. Depth = held
    BY <1>1, <1>5 DEF BridgeInv, AgeBound
  <2> QED BY <1>2, <2>1, BridgeAssumption, PoolAssumption
<1> QED BY <1>4, <1>5

-----------------------------------------------------------------------------
(* The pool's own invariant.                                               *)
LEMMA PoolInvKept == PoolInv /\ [Next]_vars => PoolInv'
<1> SUFFICES ASSUME PoolInv, [Next]_vars PROVE PoolInv'
  OBVIOUS
<1>1. CASE UpRotate
  BY <1>1, RotateKeepsInv DEF UpRotate
<1>2. CASE DownAcquire
  BY <1>2, AcquireKeepsInv DEF DownAcquire
<1>3. CASE UNCHANGED poolVars
  BY <1>3 DEF PoolInv, PoolTypeOK, NoAlias, NoLostBlock, WithinQuota, poolVars
<1>4. CASE Up /\ ~UpRotate
  BY <1>3, <1>4
  DEF Up, UpGet, UpNoAddress, UpAcquire, UpNoBuffer, UpNoTarget, UpCopy, UpPut, UpPutFails
<1>5. CASE Down /\ ~DownAcquire
  BY <1>3, <1>5
  DEF Down, DownGet, DownNoAddress, DownRefused, AcquireFails, DownNoTarget, DownCopy,
      DownPut, DownPutFails
<1>6. CASE Stacks
  BY <1>3, <1>6 DEF Stacks, L1SendData, L1SlotIndication, L1Take, L1Done, L2Send, L2Take, L2Done
<1>7. CASE UNCHANGED vars
  BY <1>3, <1>7 DEF vars
<1> QED BY <1>1, <1>2, <1>4, <1>5, <1>6, <1>7 DEF Next

(* The two forwarder threads drive the pool through its operations only:   *)
(* whatever they, L1 and L2 interleave and whatever fails, the bridge is a *)
(* run of the pool, so that the theorems about PoolSpec hold of it.        *)
THEOREM BridgeDrivesPool == Spec => PoolSpec
<1>1. Init => Create
  BY DEF Init
<1>2. [Next]_vars => [PoolNext]_poolVars
  <2> SUFFICES ASSUME [Next]_vars PROVE PoolNext \/ UNCHANGED poolVars
    OBVIOUS
  <2>1. CASE UpRotate
    BY <2>1 DEF UpRotate, PoolNext
  <2>2. CASE DownAcquire
    BY <2>2 DEF DownAcquire, PoolNext
  <2>3. CASE DownRefused
    BY <2>3 DEF DownRefused, PoolNext
  <2>4. CASE Up /\ ~UpRotate
    BY <2>4
    DEF Up, UpGet, UpNoAddress, UpAcquire, UpNoBuffer, UpNoTarget, UpCopy, UpPut, UpPutFails
  <2>5. CASE Down /\ ~DownAcquire /\ ~DownRefused
    BY <2>5 DEF Down, DownGet, DownNoAddress, DownNoTarget, DownCopy, DownPut, DownPutFails
  <2>6. CASE Stacks
    BY <2>6 DEF Stacks, L1SendData, L1SlotIndication, L1Take, L1Done, L2Send, L2Take, L2Done
  <2>7. CASE UNCHANGED vars
    BY <2>7 DEF vars, poolVars
  <2> QED BY <2>1, <2>2, <2>3, <2>4, <2>5, <2>6, <2>7 DEF Next
<1> QED BY <1>1, <1>2, PTL DEF Spec, PoolSpec

(* No block the downlink thread was given is given to it again before      *)
(* Depth SLOT.indications, on any path of the two threads.                 *)
THEOREM BridgeKeepsPromise == Spec => DeferredFree
BY BridgeDrivesPool, PoolRefinesDeferredPool, PTL

-----------------------------------------------------------------------------
(* The types of the bridge's variables, with what the locals hold.         *)
LEMMA TypeKeptByUp ==
    ASSUME BridgeTypeOK, LocalsOK, PoolTypeOK', Up PROVE BridgeTypeOK' /\ LocalsOK'
<1> USE DEF BridgeTypeOK, LocalsOK, upVars, downVars, l2Vars, l1Vars, UpIdle
<1>1. CASE UpGet
  <2>1. /\ fromL1 \in Seq(Message) /\ fromL1 # <<>>
        /\ Head(fromL1) \in Message /\ Tail(fromL1) \in Seq(Message)
    BY <1>1, HeadTailProperties DEF UpGet
  <2>2. Head(fromL1).buf \in L1Buf /\ Head(fromL1).slot \in BOOLEAN
    BY <2>1 DEF Message
  <2> QED BY <1>1, <2>1, <2>2 DEF UpGet
<1>2. CASE UpAcquire
  BY <1>2 DEF UpAcquire
<1>3. CASE UpNoBuffer
  BY <1>3 DEF UpNoBuffer
<1>4. CASE UpCopy
  BY <1>4 DEF UpCopy
<1>5. CASE UpPut
  <2>1. toL2' \in Seq(L2Buf)
    BY <1>5, AppendProperties DEF UpPut
  <2> QED BY <1>5, <2>1 DEF UpPut
<1>6. CASE UpPutFails
  BY <1>6 DEF UpPutFails
<1>7. CASE UpRotate
  <2>1. held' \in 0 .. Hold
    BY <1>7, BridgeAssumption DEF UpRotate, DownInTime
  <2> QED BY <1>7, <2>1 DEF UpRotate
<1>8. CASE UpNoAddress
  BY <1>8 DEF UpNoAddress
<1>9. CASE UpNoTarget
  BY <1>9 DEF UpNoTarget
<1> QED BY <1>1, <1>2, <1>3, <1>4, <1>5, <1>6, <1>7, <1>8, <1>9 DEF Up

(* The types after a step of the downlink thread.                          *)
LEMMA TypeKeptByDown ==
    ASSUME BridgeTypeOK, LocalsOK, PoolInv, PoolTypeOK', Down PROVE BridgeTypeOK' /\ LocalsOK'
<1> USE DEF BridgeTypeOK, LocalsOK, upVars, downVars, l2Vars, l1Vars, DownIdle
<1>0. 0 \in 0 .. Hold /\ 0 \in 0 .. Lag
  BY BridgeAssumption
<1>1. CASE DownGet
  <2>1. Head(fromL2) \in L2Buf /\ Tail(fromL2) \in Seq(L2Buf)
    BY <1>1, HeadTailProperties DEF DownGet
  <2> QED BY <1>1, <2>1 DEF DownGet
<1>2. CASE DownAcquire
  <2>1. Top \in Block
    <3>1. freeList \in Seq(Block) /\ freeList # <<>>
      BY <1>2 DEF DownAcquire, Acquire, CanAcquire, PoolTypeOK
    <3> QED BY <3>1, PopFacts DEF Top
  <2> QED BY <1>0, <1>2, <2>1 DEF DownAcquire
<1>3. CASE DownRefused
  BY <1>3 DEF DownRefused
<1>4. CASE DownCopy
  BY <1>4 DEF DownCopy
<1>5. CASE DownPut
  <2>1. toL1' \in Seq(Block)
    BY <1>5, AppendProperties DEF DownPut
  <2> QED BY <1>0, <1>5, <2>1 DEF DownPut
<1>6. CASE DownPutFails
  BY <1>0, <1>6 DEF DownPutFails
<1>7. CASE DownNoAddress
  BY <1>7 DEF DownNoAddress
<1>8. CASE DownNoTarget
  BY <1>0, <1>8 DEF DownNoTarget
<1> QED BY <1>1, <1>2, <1>3, <1>4, <1>5, <1>6, <1>7, <1>8 DEF Down

(* The types after a step of OCUDU-L1 or OCUDU-L2.                         *)
LEMMA TypeKeptByStacks ==
    ASSUME BridgeTypeOK, LocalsOK, PoolTypeOK', Stacks PROVE BridgeTypeOK' /\ LocalsOK'
<1> USE DEF BridgeTypeOK, LocalsOK, upVars, downVars, l2Vars, l1Vars
<1>1. CASE L1SendData
  <2> PICK b \in l1Free : fromL1' = Append(fromL1, [buf |-> b, slot |-> FALSE])
    BY <1>1 DEF L1SendData
  <2>1. [buf |-> b, slot |-> FALSE] \in Message
    BY DEF Message
  <2>2. fromL1' \in Seq(Message)
    BY <2>1, AppendProperties
  <2> QED BY <1>1, <2>2 DEF L1SendData
<1>2. CASE L1SlotIndication
  <2> PICK b \in l1Free : fromL1' = Append(fromL1, [buf |-> b, slot |-> TRUE])
    BY <1>2 DEF L1SlotIndication
  <2>1. [buf |-> b, slot |-> TRUE] \in Message
    BY DEF Message
  <2>2. fromL1' \in Seq(Message)
    BY <2>1, AppendProperties
  <2>3. seen' \in [Block -> 0 .. Lag]
    <3>1. \A c \in Block : c \in InFlight => seen[c] + 1 \in 0 .. Lag
      BY <1>2, BridgeAssumption DEF L1SlotIndication
    <3> QED BY <1>2, <3>1 DEF L1SlotIndication
  <2>4. l1Free' \subseteq L1Buf
    BY <1>2 DEF L1SlotIndication
  <2> QED BY <1>2, <2>2, <2>3, <2>4 DEF L1SlotIndication
<1>3. CASE L1Take
  <2>1. Head(toL1) \in Block /\ Tail(toL1) \in Seq(Block)
    BY <1>3, HeadTailProperties DEF L1Take
  <2> QED BY <1>3, <2>1 DEF L1Take
<1>4. CASE L1Done
  <2>1. 0 \in 0 .. Lag
    BY BridgeAssumption
  <2> QED BY <1>4, <2>1 DEF L1Done
<1>5. CASE L2Send
  <2> PICK b \in l2Free : fromL2' = Append(fromL2, b)
    BY <1>5 DEF L2Send
  <2>1. fromL2' \in Seq(L2Buf)
    BY AppendProperties
  <2> QED BY <1>5, <2>1 DEF L2Send
<1>6. CASE L2Take
  <2>1. Head(toL2) \in L2Buf /\ Tail(toL2) \in Seq(L2Buf)
    BY <1>6, HeadTailProperties DEF L2Take
  <2> QED BY <1>6, <2>1 DEF L2Take
<1>7. CASE L2Done
  BY <1>7 DEF L2Done
<1> QED BY <1>1, <1>2, <1>3, <1>4, <1>5, <1>6, <1>7 DEF Stacks

(* The types after any step.                                               *)
LEMMA TypeKept ==
    BridgeTypeOK /\ LocalsOK /\ PoolInv /\ PoolInv' /\ [Next]_vars => BridgeTypeOK' /\ LocalsOK'
<1> SUFFICES ASSUME BridgeTypeOK, LocalsOK, PoolInv, PoolInv', [Next]_vars
             PROVE  BridgeTypeOK' /\ LocalsOK'
  OBVIOUS
<1>1. PoolTypeOK'
  BY DEF PoolInv
<1>2. CASE UNCHANGED vars
  BY <1>1, <1>2 DEF BridgeTypeOK, LocalsOK, vars, upVars, downVars, l2Vars, l1Vars
<1> QED BY <1>1, <1>2, TypeKeptByUp, TypeKeptByDown, TypeKeptByStacks DEF Next

-----------------------------------------------------------------------------
(* The three invariants that relate the blocks in use to the pool and to   *)
(* the SLOT.indications under way.                                         *)
UseInv == PendingBound /\ OneMessagePerBlock /\ AgeBound

(* A step that leaves the blocks alone and puts no SLOT.indication under   *)
(* way, whatever it does to buffers and messages.                          *)
LEMMA QuietStep ==
    ASSUME BridgeInv, BridgeTypeOK', Pending' <= Pending,
           UNCHANGED <<slots, toL1, l1Reads, seen>>,
           WrittenBlock' \subseteq WrittenBlock,
           WrittenBlock' # {} => held' = held
    PROVE  UseInv'
<1>1. Pending \in Nat /\ Pending' \in Nat
  BY PendingFacts, PendingNext DEF BridgeInv
<1>2. PendingBound'
  BY <1>1, BridgeAssumption DEF BridgeInv, PendingBound
<1>3. InFlight' = InFlight
  BY DEF InFlight
<1>4. OneMessagePerBlock'
  BY <1>3 DEF BridgeInv, OneMessagePerBlock
<1>5. AgeBound'
  <2>1. ASSUME NEW b \in InFlight
        PROVE  AgeIn(slots, b) + Pending' <= Hold + Backlog + seen[b]
    <3>1. b \in Block
      BY InFlightFacts DEF BridgeInv
    <3>2. AgeIn(slots, b) \in Nat /\ seen[b] \in Nat
      BY <3>1, AgeRange, PoolAssumption, BridgeAssumption DEF BridgeInv, BridgeTypeOK
    <3>3. AgeIn(slots, b) + Pending <= Hold + Backlog + seen[b]
      BY DEF BridgeInv, AgeBound
    <3> QED BY <1>1, <3>2, <3>3, BridgeAssumption
  <2>2. \A b \in WrittenBlock' : AgeIn(slots', b) = held'
    BY DEF BridgeInv, AgeBound
  <2> QED BY <1>3, <2>1, <2>2 DEF AgeBound
<1> QED BY <1>2, <1>4, <1>5 DEF UseInv

(* The uplink thread before its rotation.                                  *)
LEMMA UseKeptByUplinkMessage ==
    ASSUME BridgeInv, BridgeTypeOK', Up, ~UpRotate PROVE UseInv'
<1> USE DEF BridgeInv
<1>0. fromL1 \in Seq(Message) /\ up.slot \in BOOLEAN
  BY DEF BridgeTypeOK
<1>1. Pending' <= Pending
  <2>1. CASE UpGet
    <3>1. /\ fromL1 # <<>> /\ fromL1' = Tail(fromL1)
          /\ up'.slot = Head(fromL1).slot /\ ~up.slot
      BY <2>1 DEF UpGet, LocalsOK
    <3>2. Cardinality(SlotIndices(fromL1')) + (IF up'.slot THEN 1 ELSE 0) =
              Cardinality(SlotIndices(fromL1))
      BY <1>0, <3>1, SlotIndicesTail
    <3> QED BY <3>1, <3>2, PendingFacts, PendingNext
  <2>2. CASE \/ UpNoAddress \/ UpAcquire \/ UpNoBuffer \/ UpNoTarget
              \/ UpCopy \/ UpPut \/ UpPutFails
    <3>0. fromL1' = fromL1
      BY <2>2 DEF UpNoAddress, UpAcquire, UpNoBuffer, UpNoTarget, UpCopy, UpPut, UpPutFails
    <3>1. up'.slot = up.slot \/ ~up'.slot
      <4>1. CASE UpAcquire
        BY <4>1 DEF BridgeTypeOK, UpAcquire
      <4>2. CASE UpCopy
        BY <4>2 DEF BridgeTypeOK, UpCopy
      <4>3. CASE UpPut
        BY <4>3 DEF BridgeTypeOK, UpPut, UpIdle
      <4>4. CASE UpNoAddress \/ UpNoBuffer \/ UpNoTarget \/ UpPutFails
        BY <4>4 DEF UpNoAddress, UpNoBuffer, UpNoTarget, UpPutFails, UpIdle
      <4> QED BY <2>2, <4>1, <4>2, <4>3, <4>4
    <3> QED BY <1>0, <3>0, <3>1, PendingFacts, PendingNext
  <2> QED BY <2>1, <2>2 DEF Up
<1>2. UNCHANGED <<slots, held, down, toL1, l1Reads, seen>>
  BY DEF Up, UpGet, UpNoAddress, UpAcquire, UpNoBuffer, UpNoTarget, UpCopy, UpPut, UpPutFails,
         poolVars, downVars, l1Vars
<1> QED BY <1>1, <1>2, QuietStep DEF WrittenBlock

(* A step of the downlink thread that neither acquires nor puts a block.   *)
LEMMA UseKeptByDownlinkMessage ==
    ASSUME BridgeInv, BridgeTypeOK',
           \/ DownGet \/ DownNoAddress \/ DownRefused \/ DownNoTarget
           \/ DownCopy \/ DownPutFails
    PROVE  UseInv'
<1>1. Pending' <= Pending
  <2>1. UNCHANGED <<fromL1, up>>
    BY DEF DownGet, DownNoAddress, DownRefused, DownNoTarget, DownCopy, DownPutFails, upVars
  <2> QED BY <2>1, PendingFacts, PendingNext DEF BridgeInv
<1>2. UNCHANGED <<slots, toL1, l1Reads, seen>>
  BY DEF DownGet, DownNoAddress, DownRefused, AcquireFails, DownNoTarget, DownCopy,
         DownPutFails, poolVars, l1Vars
<1>3. WrittenBlock' \subseteq WrittenBlock /\ (WrittenBlock' # {} => held' = held)
  <2>1. CASE DownCopy
    <3>1. down.pc = "copy" /\ down'.pc = "put" /\ down'.block = down.block /\ held' = held
      BY <2>1 DEF BridgeInv, BridgeTypeOK, DownCopy
    <3> QED BY <3>1 DEF WrittenBlock
  <2>2. CASE DownGet \/ DownNoAddress \/ DownRefused \/ DownNoTarget \/ DownPutFails
    <3>1. down'.pc \notin {"copy", "put"}
      BY <2>2 DEF DownGet, DownNoAddress, DownRefused, DownNoTarget, DownPutFails, DownIdle
    <3> QED BY <3>1 DEF WrittenBlock
  <2> QED BY <2>1, <2>2
<1> QED BY <1>1, <1>2, <1>3, QuietStep

(* L2's steps, and L1's sending of anything but a SLOT.indication.         *)
LEMMA UseKeptByMessages ==
    ASSUME BridgeInv, BridgeTypeOK', L1SendData \/ L2Send \/ L2Take \/ L2Done
    PROVE  UseInv'
<1>0. fromL1 \in Seq(Message) /\ up.slot \in BOOLEAN
  BY DEF BridgeInv, BridgeTypeOK
<1>1. Pending' <= Pending
  <2>1. CASE L1SendData
    <3> PICK b \in l1Free : fromL1' = Append(fromL1, [buf |-> b, slot |-> FALSE])
      BY <2>1 DEF L1SendData
    <3> DEFINE msg == [buf |-> b, slot |-> FALSE]
    <3>1. msg \in Message /\ ~msg.slot
      BY DEF BridgeInv, BridgeTypeOK, Message
    <3>2. Cardinality(SlotIndices(Append(fromL1, msg))) =
              Cardinality(SlotIndices(fromL1)) + (IF msg.slot THEN 1 ELSE 0)
      BY <1>0, <3>1, SlotIndicesAppend
    <3>3. up' = up
      BY <2>1 DEF L1SendData
    <3> QED BY <3>1, <3>2, <3>3, PendingFacts, PendingNext DEF BridgeInv
  <2>2. CASE L2Send \/ L2Take \/ L2Done
    <3>1. UNCHANGED <<fromL1, up>>
      BY <2>2 DEF L2Send, L2Take, L2Done, upVars
    <3> QED BY <3>1, PendingFacts, PendingNext DEF BridgeInv
  <2> QED BY <2>1, <2>2
<1>2. UNCHANGED <<slots, held, down, toL1, l1Reads, seen>>
  BY DEF L1SendData, L2Send, L2Take, L2Done, poolVars, downVars, l1Vars
<1> QED BY <1>1, <1>2, QuietStep DEF WrittenBlock

-----------------------------------------------------------------------------
(* The steps that age, hand out or pass on a block.                        *)

(* The facts of BridgeInv about one block in flight.                       *)
LEMMA InFlightNumbers ==
    ASSUME BridgeInv, NEW b \in InFlight
    PROVE  /\ b \in Block
           /\ AgeIn(slots, b) \in Nat /\ AgeIn(slots, b) < Depth
           /\ seen[b] \in Nat /\ seen[b] <= Lag
           /\ AgeIn(slots, b) + Pending <= Hold + Backlog + seen[b]
           /\ Pending \in Nat
<1>1. b \in Block
  BY InFlightFacts DEF BridgeInv
<1>2. seen[b] \in Nat /\ seen[b] <= Lag
  BY <1>1, BridgeAssumption DEF BridgeInv, BridgeTypeOK
<1>3. AgeIn(slots, b) \in Nat
  BY <1>1, AgeRange, PoolAssumption DEF BridgeInv
<1>4. AgeIn(slots, b) + Pending <= Hold + Backlog + seen[b] /\ Pending \in Nat
  BY PendingFacts DEF BridgeInv, AgeBound
<1> QED BY <1>1, <1>2, <1>3, <1>4, BridgeAssumption, PoolAssumption

(* A rotation ages the blocks in use by one and settles one                *)
(* SLOT.indication.                                                        *)
LEMMA UseKeptByRotation ==
    ASSUME BridgeInv, PoolInv', BridgeTypeOK', UpRotate PROVE UseInv'
<1>1. Pending' = Pending - 1 /\ Pending \in Nat /\ Pending' \in Nat
  <2>1. up.slot /\ ~up'.slot /\ fromL1' = fromL1
    BY DEF BridgeInv, LocalsOK, UpRotate, UpIdle
  <2> QED BY <2>1, PendingFacts, PendingNext DEF BridgeInv
<1>2. /\ InFlight' = InFlight /\ seen' = seen
      /\ WrittenBlock' = WrittenBlock
      /\ toL1' = toL1 /\ l1Reads' = l1Reads
  BY DEF UpRotate, InFlight, WrittenBlock, l1Vars
<1>3. \A b \in Block : AgeIn(slots', b) =
          IF AgeIn(slots, b) < Depth THEN AgeIn(slots, b) + 1 ELSE Depth
  <2>1. OnSlotIndication /\ PoolInv
    BY DEF UpRotate, BridgeInv
  <2> QED BY <2>1, RotateIsSlotIndication DEF Promise!SlotIndication
<1>4. ASSUME NEW b \in InFlight
      PROVE  AgeIn(slots', b) + Pending' <= Hold + Backlog + seen[b]
  <2>1. AgeIn(slots', b) = AgeIn(slots, b) + 1
    BY <1>3, InFlightNumbers
  <2> QED BY <1>1, <2>1, InFlightNumbers, BridgeAssumption
<1>5. ASSUME NEW b \in WrittenBlock PROVE AgeIn(slots', b) = held'
  <2>1. down.pc \in {"copy", "put"}
    BY <1>5 DEF WrittenBlock
  <2>2. held \in Nat /\ held < Hold /\ held' = held + 1
    BY <2>1, BridgeAssumption DEF UpRotate, DownInTime, BridgeInv, BridgeTypeOK
  <2>3. b \in Block /\ AgeIn(slots, b) = held
    BY InFlightFacts DEF BridgeInv, AgeBound
  <2>4. held < Depth
    BY <2>2, BridgeAssumption, PoolAssumption
  <2> QED BY <1>3, <2>2, <2>3, <2>4
<1>6. PendingBound'
  BY <1>1, BridgeAssumption DEF BridgeInv, PendingBound
<1>7. OneMessagePerBlock'
  BY <1>2 DEF BridgeInv, OneMessagePerBlock
<1> QED BY <1>2, <1>4, <1>5, <1>6, <1>7 DEF UseInv, AgeBound

(* The block handed out was free, hence not in flight; its age starts at 0. *)
LEMMA UseKeptByAcquire ==
    ASSUME BridgeInv, PoolInv', BridgeTypeOK', DownAcquire PROVE UseInv'
<1>1. Top \in Block /\ Promise!HandOut(Top) /\ Top \in Range(freeList)
  <2>1. Acquire /\ PoolInv
    BY DEF DownAcquire, BridgeInv
  <2>2. freeList \in Seq(Block) /\ freeList # <<>>
    BY <2>1 DEF Acquire, CanAcquire, PoolInv, PoolTypeOK
  <2>3. Top \in Range(freeList)
    BY <2>2, PopFacts DEF Top
  <2> QED BY <2>1, <2>3, AcquireIsHandOut
<1>2. /\ AgeIn(slots', Top) = 0
      /\ \A b \in Block \ {Top} : AgeIn(slots', b) = AgeIn(slots, b)
  BY <1>1 DEF Promise!HandOut
<1>3. Top \notin InFlight
  BY <1>1, BoundedAgeIsInUse DEF NoRecycleUnderReader
<1>4. /\ InFlight' = InFlight /\ seen' = seen /\ held' = 0
      /\ toL1' = toL1 /\ l1Reads' = l1Reads /\ fromL1' = fromL1 /\ up' = up
  BY DEF DownAcquire, InFlight, upVars, l1Vars
<1>5. WrittenBlock' \subseteq {Top}
  BY DEF DownAcquire, WrittenBlock, BridgeInv, BridgeTypeOK
<1>6. Pending' = Pending
  BY <1>4, PendingFacts, PendingNext DEF BridgeInv
<1>7. ASSUME NEW b \in InFlight
      PROVE  AgeIn(slots', b) + Pending' <= Hold + Backlog + seen[b]
  BY <1>2, <1>3, <1>6, InFlightNumbers
<1>8. PendingBound'
  BY <1>6 DEF BridgeInv, PendingBound
<1>9. OneMessagePerBlock'
  BY <1>3, <1>4, <1>5 DEF BridgeInv, OneMessagePerBlock
<1> QED BY <1>2, <1>4, <1>5, <1>7, <1>8, <1>9 DEF UseInv, AgeBound

(* The block put was overtaken by at most Hold rotations, and at most      *)
(* Backlog more are under way.                                             *)
LEMMA UseKeptByPut ==
    ASSUME BridgeInv, BridgeTypeOK', DownPut PROVE UseInv'
<1> DEFINE x == down.block
<1>1. /\ x \in Block /\ x \in WrittenBlock
      /\ toL1 \in Seq(Block) /\ toL1' = Append(toL1, x)
      /\ seen' = [seen EXCEPT ![x] = 0] /\ l1Reads' = l1Reads /\ slots' = slots
      /\ fromL1' = fromL1 /\ up' = up
  BY DEF BridgeInv, BridgeTypeOK, LocalsOK, WrittenBlock, DownPut, upVars, poolVars
<1>2. WrittenBlock' = {}
  BY DEF DownPut, DownIdle, WrittenBlock
<1>3. x \notin InFlight
  BY <1>1 DEF BridgeInv, OneMessagePerBlock
<1>4. held \in Nat /\ held <= Hold /\ AgeIn(slots, x) = held
  BY <1>1, BridgeAssumption DEF BridgeInv, BridgeTypeOK, AgeBound
<1> HIDE DEF x
<1>5. Range(toL1') = Range(toL1) \cup {x} /\ InFlight' = InFlight \cup {x}
  BY <1>1, AppendFacts DEF InFlight
<1>6. IsInjective(toL1')
  BY <1>1, <1>3, AppendFacts DEF InFlight, BridgeInv, OneMessagePerBlock
<1>7. Pending' = Pending /\ Pending \in Nat
  BY <1>1, PendingFacts, PendingNext DEF BridgeInv
<1>8. PendingBound'
  BY <1>7 DEF BridgeInv, PendingBound
<1>9. OneMessagePerBlock'
  BY <1>1, <1>2, <1>3, <1>5, <1>6 DEF InFlight, BridgeInv, OneMessagePerBlock
<1>10. AgeBound'
  <2>1. ASSUME NEW b \in InFlight'
        PROVE  AgeIn(slots, b) + Pending <= Hold + Backlog + seen'[b]
    <3>1. CASE b = x
      <4>1. seen'[b] = 0
        BY <1>1, <3>1 DEF BridgeInv, BridgeTypeOK
      <4> QED BY <1>4, <1>7, <3>1, <4>1, BridgeAssumption DEF BridgeInv, PendingBound
    <3>2. CASE b # x
      <4>1. b \in InFlight
        BY <1>5, <3>2
      <4>2. seen'[b] = seen[b]
        BY <1>1, <3>2, <4>1, InFlightNumbers DEF BridgeInv, BridgeTypeOK
      <4> QED BY <4>1, <4>2, InFlightNumbers
    <3> QED BY <3>1, <3>2
  <2> QED BY <1>1, <1>2, <1>7, <2>1 DEF AgeBound
<1> QED BY <1>8, <1>9, <1>10 DEF UseInv

(* L1's clock: one more SLOT.indication under way, and one more seen for   *)
(* every block in flight.                                                  *)
LEMMA UseKeptBySlotIndication ==
    ASSUME BridgeInv, BridgeTypeOK', L1SlotIndication PROVE UseInv'
<1> PICK buf \in l1Free : fromL1' = Append(fromL1, [buf |-> buf, slot |-> TRUE])
  BY DEF L1SlotIndication
<1> DEFINE msg == [buf |-> buf, slot |-> TRUE]
<1>1. Pending' = Pending + 1 /\ Pending \in Nat
  <2>1. msg \in Message /\ msg.slot /\ fromL1 \in Seq(Message)
    BY DEF BridgeInv, BridgeTypeOK, Message
  <2>2. Cardinality(SlotIndices(fromL1')) =
            Cardinality(SlotIndices(fromL1)) + (IF msg.slot THEN 1 ELSE 0)
    BY <2>1, SlotIndicesAppend
  <2>3. up' = up
    BY DEF L1SlotIndication
  <2> QED BY <2>1, <2>2, <2>3, PendingFacts, PendingNext DEF BridgeInv
<1>2. /\ slots' = slots /\ held' = held /\ down' = down
      /\ toL1' = toL1 /\ l1Reads' = l1Reads
  BY DEF L1SlotIndication, poolVars, downVars
<1>3. InFlight' = InFlight /\ WrittenBlock' = WrittenBlock
  BY <1>2 DEF InFlight, WrittenBlock
<1>4. \A b \in InFlight : seen'[b] = seen[b] + 1
  BY InFlightNumbers DEF L1SlotIndication
<1>5. PendingBound'
  BY <1>1, BridgeAssumption DEF L1SlotIndication, PendingBound
<1>6. ASSUME NEW b \in InFlight
      PROVE  AgeIn(slots, b) + Pending' <= Hold + Backlog + seen'[b]
  <2>1. AgeIn(slots, b) + Pending <= Hold + Backlog + seen[b] /\ AgeIn(slots, b) \in Nat
    BY InFlightNumbers
  <2>2. seen'[b] = seen[b] + 1 /\ seen[b] \in Nat
    BY <1>4, InFlightNumbers
  <2> QED BY <1>1, <2>1, <2>2, BridgeAssumption
<1> QED
  BY <1>2, <1>3, <1>5, <1>6 DEF UseInv, AgeBound, OneMessagePerBlock, BridgeInv

(* L1 takes the oldest block of its ring, and is done with a block.        *)
LEMMA UseKeptByReading ==
    ASSUME BridgeInv, BridgeTypeOK', L1Take \/ L1Done PROVE UseInv'
<1>1. /\ slots' = slots /\ held' = held /\ down' = down
      /\ fromL1' = fromL1 /\ up' = up
  BY DEF L1Take, L1Done, poolVars, upVars, downVars
<1>2. WrittenBlock' = WrittenBlock
  BY <1>1 DEF WrittenBlock
<1>3. Pending' = Pending
  BY <1>1, PendingFacts, PendingNext DEF BridgeInv
<1>4. /\ InFlight' \subseteq InFlight
      /\ IsInjective(toL1') /\ Range(toL1') \cap l1Reads' = {}
      /\ \A b \in InFlight' : seen'[b] = seen[b]
  <2>0. toL1 \in Seq(Block) /\ IsInjective(toL1) /\ Range(toL1) \cap l1Reads = {}
    BY DEF BridgeInv, BridgeTypeOK, OneMessagePerBlock
  <2>1. CASE L1Take
    <3> DEFINE h == Head(toL1)
               r == Tail(toL1)
    <3>1. toL1 # <<>> /\ toL1' = r /\ l1Reads' = l1Reads \cup {h} /\ seen' = seen
      BY <2>1 DEF L1Take
    <3>2. Range(toL1) = Range(r) \cup {h} /\ IsInjective(r) /\ h \notin Range(r)
      BY <2>0, <3>1, TailFacts
    <3> HIDE DEF h, r
    <3> QED BY <2>0, <3>1, <3>2 DEF InFlight
  <2>2. CASE L1Done
    <3> PICK x \in l1Reads : l1Reads' = l1Reads \ {x} /\ seen' = [seen EXCEPT ![x] = 0]
      BY <2>2 DEF L1Done
    <3>1. toL1' = toL1
      BY <2>2 DEF L1Done, downVars
    <3>2. x \notin InFlight' /\ InFlight' \subseteq InFlight
      BY <2>0, <3>1 DEF InFlight
    <3>3. \A b \in InFlight' : seen'[b] = seen[b]
      BY <3>2, InFlightNumbers DEF BridgeInv, BridgeTypeOK
    <3> QED BY <2>0, <3>1, <3>2, <3>3
  <2> QED BY <2>1, <2>2
<1>5. PendingBound'
  BY <1>3 DEF BridgeInv, PendingBound
<1>6. OneMessagePerBlock'
  BY <1>2, <1>4 DEF BridgeInv, OneMessagePerBlock
<1>7. AgeBound'
  BY <1>1, <1>2, <1>3, <1>4 DEF BridgeInv, AgeBound
<1> QED BY <1>5, <1>6, <1>7 DEF UseInv

-----------------------------------------------------------------------------
(* The invariant holds when both forwarders start.                         *)
LEMMA BridgeInit == Init => BridgeInv
<1> SUFFICES ASSUME Init PROVE BridgeInv
  OBVIOUS
<1>1. PoolInv
  BY CreateFacts DEF Init
<1>2. fromL1 \in Seq(Message) /\ toL2 \in Seq(L2Buf) /\ fromL2 \in Seq(L2Buf) /\ toL1 \in Seq(Block)
  BY EmptyFacts DEF Init
<1>3. 0 \in 0 .. Hold /\ 0 \in 0 .. Lag
  BY BridgeAssumption
<1>4. BridgeTypeOK
  BY <1>1, <1>2, <1>3 DEF Init, PoolInv, BridgeTypeOK, UpIdle, DownIdle
<1>5. LocalsOK
  BY DEF Init, LocalsOK, UpIdle, DownIdle
<1>6. InFlight = {} /\ WrittenBlock = {}
  BY EmptyFacts DEF Init, InFlight, WrittenBlock, DownIdle
<1>7. Pending = 0
  <2>1. SlotIndices(fromL1) = {}
    BY EmptyFacts, <1>2, LenProperties DEF Init, SlotIndices
  <2>2. Cardinality(SlotIndices(fromL1)) = 0
    BY <2>1, FS_EmptySet
  <2> QED BY <1>4, <2>2, PendingFacts DEF Init, UpIdle
<1>8. PendingBound
  BY <1>7, BridgeAssumption DEF PendingBound
<1>9. OneMessagePerBlock /\ AgeBound
  BY <1>6, EmptyFacts DEF Init, OneMessagePerBlock, AgeBound
<1> QED BY <1>1, <1>4, <1>5, <1>8, <1>9 DEF BridgeInv

(* Every step keeps the invariant.                                         *)
LEMMA BridgeStep == BridgeInv /\ [Next]_vars => BridgeInv'
<1> SUFFICES ASSUME BridgeInv, [Next]_vars PROVE BridgeInv'
  OBVIOUS
<1>1. PoolInv'
  BY PoolInvKept DEF BridgeInv
<1>2. BridgeTypeOK' /\ LocalsOK'
  BY <1>1, TypeKept DEF BridgeInv
<1>3. UseInv'
  <2>1. CASE Up
    BY <1>1, <1>2, <2>1, UseKeptByUplinkMessage, UseKeptByRotation
  <2>2. CASE Down
    BY <1>1, <1>2, <2>2, UseKeptByDownlinkMessage, UseKeptByAcquire, UseKeptByPut DEF Down
  <2>3. CASE Stacks
    BY <1>2, <2>3, UseKeptByMessages, UseKeptBySlotIndication, UseKeptByReading DEF Stacks
  <2>4. CASE UNCHANGED vars
    <3>1. UNCHANGED <<slots, held, down, fromL1, up, toL1, l1Reads, seen>>
      BY <2>4 DEF vars, poolVars, upVars, downVars, l1Vars
    <3>2. Pending' <= Pending
      BY <1>2, <3>1, PendingFacts, PendingNext DEF BridgeInv
    <3> QED BY <1>2, <3>1, <3>2, QuietStep DEF WrittenBlock
  <2> QED BY <2>1, <2>2, <2>3, <2>4 DEF Next
<1> QED BY <1>1, <1>2, <1>3 DEF BridgeInv, UseInv

(* BridgeInv holds in every reachable state.                               *)
THEOREM BridgeInvariant == Spec => []BridgeInv
  BY BridgeInit, BridgeStep, PTL DEF Spec

(* The types of the bridge's state.                                        *)
THEOREM BridgeTypeCorrect == Spec => []BridgeTypeOK
<1>1. BridgeInv => BridgeTypeOK
  BY DEF BridgeInv
<1> QED BY <1>1, BridgeInvariant, PTL

(* As long as Hold, Backlog and Lag together stay below Depth, no rotation *)
(* frees a block that the downlink thread is writing, that waits in L1's   *)
(* ring or that L1 reads.                                                  *)
THEOREM BridgeNoRecycleUnderReader == Spec => []NoRecycleUnderReader
  BY BridgeInvariant, BoundedAgeIsInUse, PTL

(* No block carries two downlink messages at once.                         *)
THEOREM BridgeOneMessagePerBlock == Spec => []OneMessagePerBlock
<1>1. BridgeInv => OneMessagePerBlock
  BY DEF BridgeInv
<1> QED BY <1>1, BridgeInvariant, PTL

(* The rotations a block in use has seen, with those on their way, never   *)
(* exceed what the parties may fall behind.                                *)
THEOREM BridgeAgeBound == Spec => []AgeBound
<1>1. BridgeInv => AgeBound
  BY DEF BridgeInv
<1> QED BY <1>1, BridgeInvariant, PTL
-----------------------------------------------------------------------------
(* Buffers: what the threads hold when they hold none, and the places of a *)
(* buffer as a partition.                                                  *)

(* Every element of B is in exactly one of the places P[i], i \in I.       *)
Partition(P, I, B) ==
    /\ \A b \in B : \E i \in I : b \in P[i]
    /\ \A i \in I : P[i] \subseteq B
    /\ \A i, j \in I : i # j => P[i] \cap P[j] = {}

(* Moving one element from a place to another keeps a partition.           *)
LEMMA MoveOne ==
    ASSUME NEW P, NEW Q, NEW I, NEW B, NEW i \in I, NEW j \in I, i # j, NEW x \in P[i],
           Partition(P, I, B), Q[i] = P[i] \ {x}, Q[j] = P[j] \cup {x},
           \A k \in I : k # i /\ k # j => Q[k] = P[k]
    PROVE  Partition(Q, I, B)
<1>1. ASSUME NEW b \in B PROVE \E k \in I : b \in Q[k]
  <2> PICK k \in I : b \in P[k]
    BY DEF Partition
  <2>1. CASE b = x BY <2>1
  <2>2. CASE b # x BY <2>2
  <2> QED BY <2>1, <2>2
<1>2. ASSUME NEW k \in I PROVE Q[k] \subseteq B
  BY DEF Partition
<1>3. ASSUME NEW k \in I, NEW l \in I, k # l PROVE Q[k] \cap Q[l] = {}
  <2>1. P[k] \cap P[l] = {} /\ (k # i => x \notin P[k]) /\ (l # i => x \notin P[l])
    BY <1>3 DEF Partition
  <2>2. Q[k] \subseteq P[k] \cup {x} /\ (k # j => Q[k] \subseteq P[k]) /\ (k = i => x \notin Q[k])
    OBVIOUS
  <2>3. Q[l] \subseteq P[l] \cup {x} /\ (l # j => Q[l] \subseteq P[l]) /\ (l = i => x \notin Q[l])
    OBVIOUS
  <2> QED BY <1>3, <2>1, <2>2, <2>3
<1> QED BY <1>1, <1>2, <1>3 DEF Partition

(* A local that holds no buffer is None.                                   *)
EmptyHanded ==
    /\ up.pc \in {"get", "put", "rotate"} => up.buf = None
    /\ up.pc \in {"get", "acquire", "rotate"} => up.dst = None
    /\ down.pc \in {"get", "put"} => down.buf = None

(* A thread that hands its buffer on forgets it.                           *)
LEMMA EmptyHandedNext ==
    ASSUME BridgeTypeOK, EmptyHanded, [Next]_vars PROVE EmptyHanded'
<1>1. /\ up \in [pc : {"get", "acquire", "copy", "put", "rotate"}, buf : L1Buf \cup {None},
                 slot : BOOLEAN, dst : L2Buf \cup {None}]
      /\ down \in [pc : {"get", "acquire", "copy", "put"}, buf : L2Buf \cup {None},
                   block : Block \cup {None}]
  BY DEF BridgeTypeOK
<1>2. CASE Up
  <2>1. CASE UpGet BY <1>1, <2>1 DEF EmptyHanded, UpGet, UpIdle, downVars
  <2>2. CASE UpAcquire BY <1>1, <2>2 DEF EmptyHanded, UpAcquire, UpIdle, downVars
  <2>3. CASE UpNoBuffer BY <1>1, <2>3 DEF EmptyHanded, UpNoBuffer, UpIdle, downVars
  <2>4. CASE UpCopy BY <1>1, <2>4 DEF EmptyHanded, UpCopy, UpIdle, downVars
  <2>5. CASE UpPut BY <1>1, <2>5 DEF EmptyHanded, UpPut, UpIdle, downVars
  <2>6. CASE UpPutFails BY <1>1, <2>6 DEF EmptyHanded, UpPutFails, UpIdle, downVars
  <2>7. CASE UpRotate BY <1>1, <2>7 DEF EmptyHanded, UpRotate, UpIdle, downVars
  <2>8. CASE UpNoAddress BY <1>1, <2>8 DEF EmptyHanded, UpNoAddress, UpIdle, downVars
  <2>9. CASE UpNoTarget BY <1>1, <2>9 DEF EmptyHanded, UpNoTarget, UpIdle, downVars
  <2> QED BY <1>2, <2>1, <2>2, <2>3, <2>4, <2>5, <2>6, <2>7, <2>8, <2>9 DEF Up
<1>3. CASE Down
  <2>1. CASE DownGet BY <1>1, <2>1 DEF EmptyHanded, DownGet, DownIdle, upVars
  <2>2. CASE DownAcquire BY <1>1, <2>2 DEF EmptyHanded, DownAcquire, DownIdle, upVars
  <2>3. CASE DownRefused BY <1>1, <2>3 DEF EmptyHanded, DownRefused, DownIdle, upVars
  <2>4. CASE DownCopy BY <1>1, <2>4 DEF EmptyHanded, DownCopy, DownIdle, upVars
  <2>5. CASE DownPut BY <1>1, <2>5 DEF EmptyHanded, DownPut, DownIdle, upVars
  <2>6. CASE DownPutFails BY <1>1, <2>6 DEF EmptyHanded, DownPutFails, DownIdle, upVars
  <2>7. CASE DownNoAddress BY <1>1, <2>7 DEF EmptyHanded, DownNoAddress, DownIdle, upVars
  <2>8. CASE DownNoTarget BY <1>1, <2>8 DEF EmptyHanded, DownNoTarget, DownIdle, upVars
  <2> QED BY <1>3, <2>1, <2>2, <2>3, <2>4, <2>5, <2>6, <2>7, <2>8 DEF Down
<1>4. CASE UNCHANGED <<up, down>>
  BY <1>4 DEF EmptyHanded
<1> QED BY <1>2, <1>3, <1>4 DEF Next, vars, Stacks, L1SendData, L1SlotIndication, L1Take, L1Done,
                                 L2Send, L2Take, L2Done, upVars, downVars

(* The buffers of the messages in a sequence.                              *)
BufsOf(s) == {s[i].buf : i \in DOMAIN s}
DistinctBufs(s) == \A i, j \in DOMAIN s : s[i].buf = s[j].buf => i = j

(* The buffers of a sequence after a message joined it.                    *)
LEMMA BufsAppend ==
    ASSUME NEW s \in Seq(Message), NEW m \in Message, DistinctBufs(s), m.buf \notin BufsOf(s)
    PROVE  BufsOf(Append(s, m)) = BufsOf(s) \cup {m.buf} /\ DistinctBufs(Append(s, m))
<1> DEFINE t == Append(s, m)
<1>1. /\ DOMAIN s = 1 .. Len(s) /\ Len(s) \in Nat
      /\ DOMAIN t = 1 .. Len(s) + 1
      /\ t[Len(s) + 1] = m
      /\ \A i \in 1 .. Len(s) : t[i] = s[i] /\ i \in 1 .. Len(s) + 1
      /\ \A i \in 1 .. Len(s) + 1 : i \in 1 .. Len(s) \/ i = Len(s) + 1
  BY AppendAt
<1>2. Len(s) + 1 \in DOMAIN t
  BY <1>1
<1> HIDE DEF t
<1>3. BufsOf(t) = BufsOf(s) \cup {m.buf}
  BY <1>1, <1>2 DEF BufsOf
<1>4. DistinctBufs(t)
  BY <1>1, <1>2 DEF DistinctBufs, BufsOf
<1> QED BY <1>3, <1>4 DEF t

(* The buffers of a sequence after its first message left it.              *)
LEMMA BufsTail ==
    ASSUME NEW s \in Seq(Message), s # <<>>, DistinctBufs(s)
    PROVE  /\ Head(s).buf \in BufsOf(s) /\ BufsOf(Tail(s)) = BufsOf(s) \ {Head(s).buf}
           /\ DistinctBufs(Tail(s))
<1> DEFINE t == Tail(s)
           n == Len(s)
<1>1. /\ DOMAIN s = 1 .. n /\ n \in Nat \ {0}
      /\ DOMAIN t = 1 .. n - 1
      /\ \A i \in 1 .. n - 1 : t[i] = s[i + 1] /\ i + 1 \in 1 .. n
      /\ 1 \in DOMAIN s /\ Head(s) = s[1]
  BY TailAt
<1> HIDE DEF t, n
<1>2. \A i \in 1 .. n : i = 1 \/ i - 1 \in 1 .. n - 1
  BY <1>1
<1>3. \A i \in 1 .. n - 1 : i + 1 # 1
  BY <1>1
<1>4. BufsOf(t) \subseteq BufsOf(s) \ {s[1].buf}
  BY <1>1, <1>3 DEF BufsOf, DistinctBufs
<1>5. ASSUME NEW i \in 1 .. n, i # 1 PROVE s[i].buf \in BufsOf(t)
  <2>1. i - 1 \in 1 .. n - 1 /\ (i - 1) + 1 = i
    BY <1>2, <1>5
  <2>2. t[i - 1] = s[i]
    BY <1>1, <2>1
  <2> QED BY <1>1, <2>1, <2>2 DEF BufsOf
<1>6. BufsOf(s) \ {s[1].buf} \subseteq BufsOf(t)
  <2>1. ASSUME NEW i \in 1 .. n, s[i].buf # s[1].buf PROVE s[i].buf \in BufsOf(t)
    BY <1>5, <2>1
  <2> QED BY <1>1, <2>1 DEF BufsOf
<1>7. DistinctBufs(t)
  <2>1. ASSUME NEW i \in 1 .. n - 1, NEW j \in 1 .. n - 1, t[i].buf = t[j].buf PROVE i = j
    <3>1. i + 1 \in DOMAIN s /\ j + 1 \in DOMAIN s /\ s[i + 1].buf = s[j + 1].buf
      BY <1>1, <2>1
    <3>2. i + 1 = j + 1
      BY <3>1 DEF DistinctBufs
    <3> QED BY <3>2
  <2> QED BY <1>1, <2>1 DEF DistinctBufs
<1> QED BY <1>1, <1>4, <1>6, <1>7 DEF BufsOf, t
-----------------------------------------------------------------------------
(* Where a buffer of L1's region can be. *)
L1Places == <<l1Free, BufsOf(fromL1), {up.buf} \ {None}, l1Lost>>

BuffersOK ==
    /\ EmptyHanded
    /\ Partition(L1Places, 1 .. 4, L1Buf) /\ DistinctBufs(fromL1)
    /\ Partition(L2Places, 1 .. 7, L2Buf) /\ IsInjective(toL2) /\ IsInjective(fromL2)

(* L1's buffers: one moves, or none.                                       *)
LEMMA L1BuffersNext ==
    ASSUME BridgeTypeOK, LocalsOK, BuffersOK, [Next]_vars
    PROVE  (Partition(L1Places, 1 .. 4, L1Buf) /\ DistinctBufs(fromL1))'
<1> DEFINE P == L1Places
           Q == L1Places'
<1>1. /\ P[1] = l1Free /\ P[2] = BufsOf(fromL1) /\ P[3] = {up.buf} \ {None}
      /\ Q[1] = l1Free' /\ Q[2] = BufsOf(fromL1') /\ Q[3] = {up'.buf} \ {None}
      /\ P[4] = l1Lost /\ Q[4] = l1Lost'
      /\ \A k \in 1 .. 4 : k = 1 \/ k = 2 \/ k = 3 \/ k = 4
      /\ 1 \in 1 .. 4 /\ 2 \in 1 .. 4 /\ 3 \in 1 .. 4 /\ 4 \in 1 .. 4
  BY DEF L1Places, BufsOf
<1>2. /\ Partition(P, 1 .. 4, L1Buf) /\ DistinctBufs(fromL1) /\ fromL1 \in Seq(Message)
      /\ up \in [pc : {"get", "acquire", "copy", "put", "rotate"}, buf : L1Buf \cup {None},
                 slot : BOOLEAN, dst : L2Buf \cup {None}]
      /\ None \notin L1Buf
  BY BridgeAssumption DEF BuffersOK, BridgeTypeOK
<1> HIDE DEF P, Q
<1>3. P[1] \subseteq L1Buf /\ P[2] \subseteq L1Buf /\ P[1] \cap P[2] = {}
  BY <1>1, <1>2 DEF Partition
<1>4. CASE UNCHANGED <<l1Free, fromL1, l1Lost>> /\ up'.buf = up.buf
  <2>1. Q[1] = P[1] /\ Q[2] = P[2] /\ Q[3] = P[3] /\ Q[4] = P[4]
    BY <1>1, <1>4
  <2>2. Partition(Q, 1 .. 4, L1Buf)
    BY <1>1, <1>2, <2>1 DEF Partition
  <2> QED BY <1>2, <1>4, <2>2 DEF Q
<1>5. CASE UpGet
  <2> PICK b : b = Head(fromL1).buf
    OBVIOUS
  <2>1. /\ fromL1 # <<>> /\ fromL1' = Tail(fromL1) /\ up'.buf = b
        /\ l1Free' = l1Free /\ up.buf = None /\ l1Lost' = l1Lost
    BY <1>5 DEF UpGet, BuffersOK, EmptyHanded, l1Vars
  <2>2. /\ b \in BufsOf(fromL1) /\ BufsOf(Tail(fromL1)) = BufsOf(fromL1) \ {b}
        /\ DistinctBufs(Tail(fromL1))
    BY <1>2, <2>1, BufsTail
  <2>3. b # None
    BY <1>1, <1>2, <1>3, <2>2
  <2>4. /\ Q[2] = P[2] \ {b} /\ Q[3] = P[3] \cup {b} /\ b \in P[2]
        /\ \A k \in 1 .. 4 : k # 2 /\ k # 3 => Q[k] = P[k]
    BY <1>1, <2>1, <2>2, <2>3
  <2>5. Partition(Q, 1 .. 4, L1Buf)
    <3>1. 2 \in 1 .. 4 /\ 3 \in 1 .. 4 /\ 2 # 3 /\ Partition(P, 1 .. 4, L1Buf)
      BY <1>2
    <3> QED BY <2>4, <3>1, MoveOne
  <2> QED BY <2>1, <2>2, <2>5 DEF Q
<1>6. CASE UpNoBuffer \/ UpCopy \/ UpNoTarget
  <2> PICK b : b = up.buf
    OBVIOUS
  <2>1. /\ l1Free' = l1Free \cup {b} /\ fromL1' = fromL1 /\ b \in L1Buf
        /\ l1Lost' = l1Lost
    BY <1>6 DEF UpNoBuffer, UpCopy, UpNoTarget, LocalsOK, l1Vars
  <2>2. up'.buf = None
    <3>1. ASSUME UpNoBuffer PROVE up'.buf = None BY <3>1 DEF UpNoBuffer, UpIdle
    <3>2. ASSUME UpCopy PROVE up'.buf = None BY <1>2, <3>2 DEF UpCopy
    <3>3. ASSUME UpNoTarget PROVE up'.buf = None BY <3>3 DEF UpNoTarget, UpIdle
    <3> QED BY <1>6, <3>1, <3>2, <3>3
  <2>3. /\ Q[3] = P[3] \ {b} /\ Q[1] = P[1] \cup {b} /\ b \in P[3]
        /\ \A k \in 1 .. 4 : k # 3 /\ k # 1 => Q[k] = P[k]
    BY <1>1, <1>2, <2>1, <2>2
  <2>4. Partition(Q, 1 .. 4, L1Buf)
    <3>1. 1 \in 1 .. 4 /\ 3 \in 1 .. 4 /\ 3 # 1 /\ Partition(P, 1 .. 4, L1Buf)
      BY <1>2
    <3> QED BY <2>3, <3>1, MoveOne
  <2> QED BY <1>2, <2>1, <2>4 DEF Q
<1>7. CASE L1SendData \/ L1SlotIndication
  <2> PICK b \in l1Free, f \in BOOLEAN : /\ l1Free' = l1Free \ {b} /\ up' = up
                                         /\ l1Lost' = l1Lost
                                         /\ fromL1' = Append(fromL1, [buf |-> b, slot |-> f])
    BY <1>7 DEF L1SendData, L1SlotIndication, l1Vars
  <2>1. [buf |-> b, slot |-> f] \in Message /\ b \notin BufsOf(fromL1)
    BY <1>1, <1>3 DEF Message
  <2>2. BufsOf(fromL1') = BufsOf(fromL1) \cup {b} /\ DistinctBufs(fromL1')
    BY <1>2, <2>1, BufsAppend
  <2>3. /\ Q[1] = P[1] \ {b} /\ Q[2] = P[2] \cup {b} /\ b \in P[1]
        /\ \A k \in 1 .. 4 : k # 1 /\ k # 2 => Q[k] = P[k]
    BY <1>1, <2>2
  <2>4. Partition(Q, 1 .. 4, L1Buf)
    <3>1. 1 \in 1 .. 4 /\ 2 \in 1 .. 4 /\ 1 # 2 /\ Partition(P, 1 .. 4, L1Buf)
      BY <1>2
    <3> QED BY <2>3, <3>1, MoveOne
  <2> QED BY <2>2, <2>4 DEF Q
<1>8. CASE UpAcquire \/ UpPut \/ UpPutFails \/ UpRotate
  <2>1. UNCHANGED <<l1Free, fromL1, l1Lost>>
    BY <1>8 DEF UpAcquire, UpPut, UpPutFails, UpRotate, l1Vars
  <2>2. ASSUME UpAcquire PROVE up'.buf = up.buf
    BY <1>2, <2>2 DEF UpAcquire
  <2>3. ASSUME UpPut PROVE up'.buf = up.buf
    BY <1>2, <2>3 DEF UpPut, UpIdle, BuffersOK, EmptyHanded
  <2>4. ASSUME UpPutFails PROVE up'.buf = up.buf
    BY <1>2, <2>4 DEF UpPutFails, UpIdle, BuffersOK, EmptyHanded
  <2>5. ASSUME UpRotate PROVE up'.buf = up.buf
    BY <1>2, <2>5 DEF UpRotate, UpIdle, BuffersOK, EmptyHanded
  <2>6. up'.buf = up.buf
    BY <1>8, <2>2, <2>3, <2>4, <2>5
  <2> QED BY <1>4, <2>1, <2>6
<1>9. CASE Down \/ L1Take \/ L1Done \/ L2Send \/ L2Take \/ L2Done \/ UNCHANGED vars
  <2>1. UNCHANGED <<l1Free, fromL1, up, l1Lost>>
    BY <1>9 DEF Down, DownGet, DownNoAddress, DownAcquire, DownRefused, DownNoTarget, DownCopy,
                DownPut, DownPutFails, L1Take, L1Done, L2Send, L2Take, L2Done, upVars, l1Vars, vars
  <2> QED BY <1>4, <2>1
<1>10. CASE UpNoAddress
  <2> PICK b : b = up.buf
    OBVIOUS
  <2>1. /\ l1Lost' = l1Lost \cup {b} /\ l1Free' = l1Free /\ fromL1' = fromL1 /\ b \in L1Buf
        /\ up'.buf = None
    BY <1>10 DEF UpNoAddress, UpIdle, LocalsOK
  <2>2. /\ Q[3] = P[3] \ {b} /\ Q[4] = P[4] \cup {b} /\ b \in P[3]
        /\ \A k \in 1 .. 4 : k # 3 /\ k # 4 => Q[k] = P[k]
    BY <1>1, <1>2, <2>1
  <2>3. Partition(Q, 1 .. 4, L1Buf)
    <3>1. 3 \in 1 .. 4 /\ 4 \in 1 .. 4 /\ 3 # 4 /\ Partition(P, 1 .. 4, L1Buf)
      BY <1>2
    <3> QED BY <2>2, <3>1, MoveOne
  <2> QED BY <1>2, <2>1, <2>3 DEF Q
<1> QED BY <1>5, <1>6, <1>7, <1>8, <1>9, <1>10 DEF Next, Up, Stacks

(* The buffers shared with L2: one moves, or none.                         *)
LEMMA L2BuffersNext ==
    ASSUME BridgeTypeOK, LocalsOK, BuffersOK, [Next]_vars
    PROVE  (Partition(L2Places, 1 .. 7, L2Buf) /\ IsInjective(toL2) /\ IsInjective(fromL2))'
<1> DEFINE P == L2Places
           Q == L2Places'
<1>1. /\ P[1] = l2Free /\ P[2] = Range(toL2) /\ P[3] = l2Reads /\ P[4] = lost
      /\ P[5] = Range(fromL2) /\ P[6] = {up.dst} \ {None} /\ P[7] = {down.buf} \ {None}
  BY DEF L2Places
<1>2. /\ Q[1] = l2Free' /\ Q[2] = Range(toL2') /\ Q[3] = l2Reads' /\ Q[4] = lost'
      /\ Q[5] = Range(fromL2') /\ Q[6] = {up'.dst} \ {None} /\ Q[7] = {down'.buf} \ {None}
  BY DEF L2Places, Range
<1>3. \A k \in 1 .. 7 : k = 1 \/ k = 2 \/ k = 3 \/ k = 4 \/ k = 5 \/ k = 6 \/ k = 7
  OBVIOUS
<1>4. {1, 2, 3, 4, 5, 6, 7} \subseteq 1 .. 7
  OBVIOUS
<1>5. /\ Partition(P, 1 .. 7, L2Buf) /\ IsInjective(toL2) /\ IsInjective(fromL2)
      /\ toL2 \in Seq(L2Buf) /\ fromL2 \in Seq(L2Buf) /\ None \notin L2Buf
      /\ up \in [pc : {"get", "acquire", "copy", "put", "rotate"}, buf : L1Buf \cup {None},
                 slot : BOOLEAN, dst : L2Buf \cup {None}]
      /\ down \in [pc : {"get", "acquire", "copy", "put"}, buf : L2Buf \cup {None},
                   block : Block \cup {None}]
      /\ l2Free \subseteq L2Buf /\ l2Reads \subseteq L2Buf
  BY BridgeAssumption DEF BuffersOK, BridgeTypeOK
<1> HIDE DEF P, Q
<1>6. P[1] \cap P[5] = {} /\ P[2] \cap P[6] = {}
  BY <1>4, <1>5 DEF Partition
<1>7. ASSUME /\ Q[1] = P[1] /\ Q[2] = P[2] /\ Q[3] = P[3] /\ Q[4] = P[4]
             /\ Q[5] = P[5] /\ Q[6] = P[6] /\ Q[7] = P[7]
      PROVE  Partition(Q, 1 .. 7, L2Buf)
  <2>1. \A k \in 1 .. 7 : Q[k] = P[k]
    BY <1>3, <1>7
  <2> QED BY <1>5, <2>1 DEF Partition
<1>8. CASE UpAcquire
  <2> PICK b \in l2Free : l2Free' = l2Free \ {b} /\ up' = [up EXCEPT !.pc = "copy", !.dst = b]
    BY <1>8 DEF UpAcquire
  <2>1. /\ l2Free' = l2Free \ {b} /\ UNCHANGED <<toL2, l2Reads, lost, fromL2, down>>
        /\ up.dst = None /\ up'.dst = b
    BY <1>5, <1>8 DEF UpAcquire, BuffersOK, EmptyHanded, downVars
  <2>7. Q[1] = P[1] \ {b} /\ Q[6] = P[6] \cup {b} /\ b \in P[1]
    BY <1>1, <1>2, <1>5, <2>1
  <2>8. \A k \in 1 .. 7 : k # 1 /\ k # 6 => Q[k] = P[k]
    <3>1. Q[2] = P[2] /\ Q[3] = P[3] /\ Q[4] = P[4] /\ Q[5] = P[5] /\ Q[7] = P[7]
      BY <1>1, <1>2, <2>1
    <3> QED BY <1>3, <3>1
  <2>9. Partition(Q, 1 .. 7, L2Buf)
    <3>1. 1 \in 1 .. 7 /\ 6 \in 1 .. 7 /\ 1 # 6 /\ Partition(P, 1 .. 7, L2Buf)
      BY <1>5
    <3> QED BY <2>7, <2>8, <3>1, MoveOne
  <2>10. IsInjective(toL2') /\ IsInjective(fromL2')
    BY <1>5, <2>1
  <2> QED BY <2>9, <2>10 DEF Q
<1>9. CASE UpPut
  <2> PICK b : b = up.dst
    OBVIOUS
  <2>1. /\ toL2' = Append(toL2, b) /\ b \in L2Buf /\ up.dst = b
        /\ UNCHANGED <<l2Free, l2Reads, lost, fromL2, down>>
    BY <1>9 DEF UpPut, LocalsOK, downVars, l2Vars
  <2>2. up'.dst = None
    BY <1>5, <1>9 DEF UpPut, UpIdle
  <2>3. b \in P[6] /\ b \notin Range(toL2)
    BY <1>1, <1>5, <1>6, <2>1
  <2>4. Range(toL2') = Range(toL2) \cup {b} /\ IsInjective(toL2')
    BY <1>5, <2>1, <2>3, AppendFacts
  <2>7. Q[6] = P[6] \ {b} /\ Q[2] = P[2] \cup {b} /\ b \in P[6]
    BY <1>1, <1>2, <1>5, <2>1, <2>2, <2>3, <2>4
  <2>8. \A k \in 1 .. 7 : k # 6 /\ k # 2 => Q[k] = P[k]
    <3>1. Q[1] = P[1] /\ Q[3] = P[3] /\ Q[4] = P[4] /\ Q[5] = P[5] /\ Q[7] = P[7]
      BY <1>1, <1>2, <2>1
    <3> QED BY <1>3, <3>1
  <2>9. Partition(Q, 1 .. 7, L2Buf)
    <3>1. 6 \in 1 .. 7 /\ 2 \in 1 .. 7 /\ 6 # 2 /\ Partition(P, 1 .. 7, L2Buf)
      BY <1>5
    <3> QED BY <2>7, <2>8, <3>1, MoveOne
  <2>10. IsInjective(toL2') /\ IsInjective(fromL2')
    BY <1>5, <2>1, <2>4
  <2> QED BY <2>9, <2>10 DEF Q
<1>10. CASE UpPutFails \/ UpNoTarget
  <2> PICK b : b = up.dst
    OBVIOUS
  <2>1. /\ lost' = lost \cup {b} /\ b \in L2Buf /\ up.dst = b /\ up'.dst = None
        /\ UNCHANGED <<l2Free, toL2, l2Reads, fromL2, down>>
    BY <1>10 DEF UpPutFails, UpNoTarget, UpIdle, LocalsOK, downVars
  <2>7. Q[6] = P[6] \ {b} /\ Q[4] = P[4] \cup {b} /\ b \in P[6]
    BY <1>1, <1>2, <1>5, <2>1
  <2>8. \A k \in 1 .. 7 : k # 6 /\ k # 4 => Q[k] = P[k]
    <3>1. Q[1] = P[1] /\ Q[2] = P[2] /\ Q[3] = P[3] /\ Q[5] = P[5] /\ Q[7] = P[7]
      BY <1>1, <1>2, <2>1
    <3> QED BY <1>3, <3>1
  <2>9. Partition(Q, 1 .. 7, L2Buf)
    <3>1. 6 \in 1 .. 7 /\ 4 \in 1 .. 7 /\ 6 # 4 /\ Partition(P, 1 .. 7, L2Buf)
      BY <1>5
    <3> QED BY <2>7, <2>8, <3>1, MoveOne
  <2>10. IsInjective(toL2') /\ IsInjective(fromL2')
    BY <1>5, <2>1
  <2> QED BY <2>9, <2>10 DEF Q
<1>11. CASE DownGet
  <2> PICK b : b = Head(fromL2)
    OBVIOUS
  <2>1. /\ fromL2 # <<>> /\ fromL2' = Tail(fromL2) /\ down'.buf = b /\ down.buf = None
        /\ UNCHANGED <<l2Free, toL2, l2Reads, lost, up>>
    BY <1>11 DEF DownGet, BuffersOK, EmptyHanded, upVars, l2Vars
  <2>2. /\ Range(fromL2) = Range(fromL2') \cup {b} /\ IsInjective(fromL2') /\ b \notin Range(fromL2')
        /\ b \in L2Buf
    BY <1>5, <2>1, TailFacts, TailAt
  <2>7. Q[5] = P[5] \ {b} /\ Q[7] = P[7] \cup {b} /\ b \in P[5]
    BY <1>1, <1>2, <1>5, <2>1, <2>2
  <2>8. \A k \in 1 .. 7 : k # 5 /\ k # 7 => Q[k] = P[k]
    <3>1. Q[1] = P[1] /\ Q[2] = P[2] /\ Q[3] = P[3] /\ Q[4] = P[4] /\ Q[6] = P[6]
      BY <1>1, <1>2, <2>1
    <3> QED BY <1>3, <3>1
  <2>9. Partition(Q, 1 .. 7, L2Buf)
    <3>1. 5 \in 1 .. 7 /\ 7 \in 1 .. 7 /\ 5 # 7 /\ Partition(P, 1 .. 7, L2Buf)
      BY <1>5
    <3> QED BY <2>7, <2>8, <3>1, MoveOne
  <2>10. IsInjective(toL2') /\ IsInjective(fromL2')
    BY <1>5, <2>1, <2>2
  <2> QED BY <2>9, <2>10 DEF Q
<1>12. CASE DownRefused \/ DownCopy \/ DownNoTarget
  <2> PICK b : b = down.buf
    OBVIOUS
  <2>1. /\ l2Free' = l2Free \cup {b} /\ b \in L2Buf /\ down.buf = b
        /\ UNCHANGED <<toL2, l2Reads, lost, fromL2, up>>
    BY <1>12 DEF DownRefused, DownCopy, DownNoTarget, LocalsOK, upVars
  <2>2. down'.buf = None
    <3>1. ASSUME DownRefused PROVE down'.buf = None BY <3>1 DEF DownRefused, DownIdle
    <3>2. ASSUME DownCopy PROVE down'.buf = None BY <1>5, <3>2 DEF DownCopy
    <3>3. ASSUME DownNoTarget PROVE down'.buf = None BY <3>3 DEF DownNoTarget, DownIdle
    <3> QED BY <1>12, <3>1, <3>2, <3>3
  <2>7. Q[7] = P[7] \ {b} /\ Q[1] = P[1] \cup {b} /\ b \in P[7]
    BY <1>1, <1>2, <1>5, <2>1, <2>2
  <2>8. \A k \in 1 .. 7 : k # 7 /\ k # 1 => Q[k] = P[k]
    <3>1. Q[2] = P[2] /\ Q[3] = P[3] /\ Q[4] = P[4] /\ Q[5] = P[5] /\ Q[6] = P[6]
      BY <1>1, <1>2, <2>1
    <3> QED BY <1>3, <3>1
  <2>9. Partition(Q, 1 .. 7, L2Buf)
    <3>1. 7 \in 1 .. 7 /\ 1 \in 1 .. 7 /\ 7 # 1 /\ Partition(P, 1 .. 7, L2Buf)
      BY <1>5
    <3> QED BY <2>7, <2>8, <3>1, MoveOne
  <2>10. IsInjective(toL2') /\ IsInjective(fromL2')
    BY <1>5, <2>1
  <2> QED BY <2>9, <2>10 DEF Q
<1>13. CASE L2Send
  <2> PICK b \in l2Free : l2Free' = l2Free \ {b} /\ fromL2' = Append(fromL2, b)
    BY <1>13 DEF L2Send
  <2>1. UNCHANGED <<toL2, l2Reads, lost, up, down>>
    BY <1>13 DEF L2Send, upVars
  <2>2. Range(fromL2') = Range(fromL2) \cup {b} /\ IsInjective(fromL2')
    BY <1>1, <1>5, <1>6, AppendFacts
  <2>7. Q[1] = P[1] \ {b} /\ Q[5] = P[5] \cup {b} /\ b \in P[1]
    BY <1>1, <1>2, <2>2
  <2>8. \A k \in 1 .. 7 : k # 1 /\ k # 5 => Q[k] = P[k]
    <3>1. Q[2] = P[2] /\ Q[3] = P[3] /\ Q[4] = P[4] /\ Q[6] = P[6] /\ Q[7] = P[7]
      BY <1>1, <1>2, <2>1
    <3> QED BY <1>3, <3>1
  <2>9. Partition(Q, 1 .. 7, L2Buf)
    <3>1. 1 \in 1 .. 7 /\ 5 \in 1 .. 7 /\ 1 # 5 /\ Partition(P, 1 .. 7, L2Buf)
      BY <1>5
    <3> QED BY <2>7, <2>8, <3>1, MoveOne
  <2>10. IsInjective(toL2') /\ IsInjective(fromL2')
    BY <1>5, <2>1, <2>2
  <2> QED BY <2>9, <2>10 DEF Q
<1>14. CASE L2Take
  <2> PICK b : b = Head(toL2)
    OBVIOUS
  <2>1. /\ toL2 # <<>> /\ toL2' = Tail(toL2) /\ l2Reads' = l2Reads \cup {b}
        /\ UNCHANGED <<l2Free, lost, fromL2, up, down>>
    BY <1>14 DEF L2Take, downVars
  <2>2. Range(toL2) = Range(toL2') \cup {b} /\ IsInjective(toL2') /\ b \notin Range(toL2')
    BY <1>5, <2>1, TailFacts
  <2>7. Q[2] = P[2] \ {b} /\ Q[3] = P[3] \cup {b} /\ b \in P[2]
    BY <1>1, <1>2, <2>1, <2>2
  <2>8. \A k \in 1 .. 7 : k # 2 /\ k # 3 => Q[k] = P[k]
    <3>1. Q[1] = P[1] /\ Q[4] = P[4] /\ Q[5] = P[5] /\ Q[6] = P[6] /\ Q[7] = P[7]
      BY <1>1, <1>2, <2>1
    <3> QED BY <1>3, <3>1
  <2>9. Partition(Q, 1 .. 7, L2Buf)
    <3>1. 2 \in 1 .. 7 /\ 3 \in 1 .. 7 /\ 2 # 3 /\ Partition(P, 1 .. 7, L2Buf)
      BY <1>5
    <3> QED BY <2>7, <2>8, <3>1, MoveOne
  <2>10. IsInjective(toL2') /\ IsInjective(fromL2')
    BY <1>5, <2>1, <2>2
  <2> QED BY <2>9, <2>10 DEF Q
<1>15. CASE L2Done
  <2> PICK b \in l2Reads : l2Reads' = l2Reads \ {b} /\ l2Free' = l2Free \cup {b}
    BY <1>15 DEF L2Done
  <2>1. UNCHANGED <<toL2, fromL2, lost, up, down>>
    BY <1>15 DEF L2Done, upVars, downVars
  <2>7. Q[3] = P[3] \ {b} /\ Q[1] = P[1] \cup {b} /\ b \in P[3]
    BY <1>1, <1>2
  <2>8. \A k \in 1 .. 7 : k # 3 /\ k # 1 => Q[k] = P[k]
    <3>1. Q[2] = P[2] /\ Q[4] = P[4] /\ Q[5] = P[5] /\ Q[6] = P[6] /\ Q[7] = P[7]
      BY <1>1, <1>2, <2>1
    <3> QED BY <1>3, <3>1
  <2>9. Partition(Q, 1 .. 7, L2Buf)
    <3>1. 3 \in 1 .. 7 /\ 1 \in 1 .. 7 /\ 3 # 1 /\ Partition(P, 1 .. 7, L2Buf)
      BY <1>5
    <3> QED BY <2>7, <2>8, <3>1, MoveOne
  <2>10. IsInjective(toL2') /\ IsInjective(fromL2')
    BY <1>5, <2>1
  <2> QED BY <2>9, <2>10 DEF Q
<1>16. ASSUME UNCHANGED <<l2Free, toL2, l2Reads, lost, fromL2>>,
              up'.dst = up.dst, down'.buf = down.buf
       PROVE  Partition(Q, 1 .. 7, L2Buf) /\ IsInjective(toL2') /\ IsInjective(fromL2')
  BY <1>1, <1>2, <1>5, <1>7, <1>16
<1>17. CASE UpGet \/ UpNoAddress \/ UpNoBuffer \/ UpCopy \/ UpRotate
  <2>1. UNCHANGED <<l2Free, toL2, l2Reads, lost, fromL2, down>>
    BY <1>17 DEF UpGet, UpNoAddress, UpNoBuffer, UpCopy, UpRotate, l2Vars, downVars
  <2>2. ASSUME UpGet PROVE up'.dst = up.dst
    BY <2>2 DEF UpGet, BuffersOK, EmptyHanded
  <2>3. ASSUME UpNoBuffer PROVE up'.dst = up.dst
    BY <2>3 DEF UpNoBuffer, UpIdle, BuffersOK, EmptyHanded
  <2>4. ASSUME UpCopy PROVE up'.dst = up.dst
    BY <1>5, <2>4 DEF UpCopy
  <2>5. ASSUME UpRotate PROVE up'.dst = up.dst
    BY <2>5 DEF UpRotate, UpIdle, BuffersOK, EmptyHanded
  <2>6. ASSUME UpNoAddress PROVE up'.dst = up.dst
    BY <2>6 DEF UpNoAddress, UpIdle, BuffersOK, EmptyHanded
  <2> QED BY <1>16, <1>17, <2>1, <2>2, <2>3, <2>4, <2>5, <2>6 DEF Q
<1>18. CASE DownAcquire \/ DownPut \/ DownPutFails
  <2>1. UNCHANGED <<l2Free, toL2, l2Reads, lost, fromL2, up>>
    BY <1>18 DEF DownAcquire, DownPut, DownPutFails, l2Vars, upVars
  <2>2. ASSUME DownAcquire PROVE down'.buf = down.buf
    BY <1>5, <2>2 DEF DownAcquire
  <2>3. ASSUME DownPut \/ DownPutFails PROVE down'.buf = down.buf
    BY <2>3 DEF DownPut, DownPutFails, DownIdle, BuffersOK, EmptyHanded
  <2> QED BY <1>16, <1>18, <2>1, <2>2, <2>3 DEF Q
<1>19. CASE L1SendData \/ L1SlotIndication \/ L1Take \/ L1Done \/ UNCHANGED vars
  <2>1. UNCHANGED <<l2Free, toL2, l2Reads, lost, fromL2, up, down>>
    BY <1>19 DEF L1SendData, L1SlotIndication, L1Take, L1Done, l2Vars, upVars, downVars, vars
  <2> QED BY <1>16, <2>1 DEF Q
<1>20. CASE DownNoAddress
  <2> PICK b : b = down.buf
    OBVIOUS
  <2>1. /\ lost' = lost \cup {b} /\ b \in L2Buf /\ down.buf = b /\ down'.buf = None
        /\ UNCHANGED <<l2Free, toL2, l2Reads, fromL2, up>>
    BY <1>20 DEF DownNoAddress, DownIdle, LocalsOK, upVars
  <2>7. Q[7] = P[7] \ {b} /\ Q[4] = P[4] \cup {b} /\ b \in P[7]
    BY <1>1, <1>2, <1>5, <2>1
  <2>8. \A k \in 1 .. 7 : k # 7 /\ k # 4 => Q[k] = P[k]
    <3>1. Q[1] = P[1] /\ Q[2] = P[2] /\ Q[3] = P[3] /\ Q[5] = P[5] /\ Q[6] = P[6]
      BY <1>1, <1>2, <2>1
    <3> QED BY <1>3, <3>1
  <2>9. Partition(Q, 1 .. 7, L2Buf)
    <3>1. 7 \in 1 .. 7 /\ 4 \in 1 .. 7 /\ 7 # 4 /\ Partition(P, 1 .. 7, L2Buf)
      BY <1>5
    <3> QED BY <2>7, <2>8, <3>1, MoveOne
  <2>10. IsInjective(toL2') /\ IsInjective(fromL2')
    BY <1>5, <2>1
  <2> QED BY <2>9, <2>10 DEF Q
<1> QED
  BY <1>8, <1>9, <1>10, <1>11, <1>12, <1>13, <1>14, <1>15, <1>17, <1>18, <1>19, <1>20
  DEF Next, Up, Down, Stacks

(* At the start every buffer is free.                                      *)
LEMMA BuffersInit == Init => BuffersOK
<1> SUFFICES ASSUME Init PROVE BuffersOK
  OBVIOUS
<1>1. EmptyHanded
  BY DEF Init, UpIdle, DownIdle, EmptyHanded
<1>2. /\ fromL1 = <<>> /\ toL2 = <<>> /\ fromL2 = <<>> /\ l1Free = L1Buf /\ l2Free = L2Buf
      /\ l1Lost = {}
      /\ l2Reads = {} /\ lost = {} /\ up.buf = None /\ up.dst = None /\ down.buf = None
  BY DEF Init, UpIdle, DownIdle
<1>3. BufsOf(fromL1) = {} /\ DistinctBufs(fromL1)
  <2>1. DOMAIN fromL1 = {}
    BY <1>2
  <2> QED BY <2>1 DEF BufsOf, DistinctBufs
<1>4. Range(toL2) = {} /\ Range(fromL2) = {} /\ IsInjective(toL2) /\ IsInjective(fromL2)
  BY <1>2, EmptyFacts
<1>5. Partition(L1Places, 1 .. 4, L1Buf)
  <2>1. L1Places[1] = L1Buf /\ L1Places[2] = {} /\ L1Places[3] = {} /\ L1Places[4] = {}
    BY <1>2, <1>3 DEF L1Places
  <2>2. \A k \in 1 .. 4 : k # 1 => L1Places[k] = {}
    BY <2>1
  <2>3. 1 \in 1 .. 4
    OBVIOUS
  <2> QED BY <2>1, <2>2, <2>3 DEF Partition
<1>6. Partition(L2Places, 1 .. 7, L2Buf)
  <2>1. /\ L2Places[1] = L2Buf /\ L2Places[2] = {} /\ L2Places[3] = {} /\ L2Places[4] = {}
        /\ L2Places[5] = {} /\ L2Places[6] = {} /\ L2Places[7] = {}
    BY <1>2, <1>4 DEF L2Places
  <2>2. \A k \in 1 .. 7 : k # 1 => L2Places[k] = {}
    BY <2>1
  <2>3. 1 \in 1 .. 7
    OBVIOUS
  <2> QED BY <2>1, <2>2, <2>3 DEF Partition
<1> QED BY <1>1, <1>3, <1>4, <1>5, <1>6 DEF BuffersOK

(* Every buffer is in one place in every reachable state.                  *)
THEOREM BuffersInvariant == Spec => []BuffersOK
<1>1. BuffersOK /\ BridgeInv /\ [Next]_vars => BuffersOK'
  BY EmptyHandedNext, L1BuffersNext, L2BuffersNext DEF BuffersOK, BridgeInv
<1> QED BY <1>1, BuffersInit, BridgeInvariant, PTL DEF Spec

(* Every buffer L1 sends in is free, under way or lost, in one place only, *)
(* on each path of the uplink thread; the lost ones are those whose own    *)
(* address did not translate.                                              *)
THEOREM L1BuffersComeBack == Spec => []L1BufferAccounting
<1>1. BuffersOK => L1BufferAccounting
  <2> SUFFICES ASSUME BuffersOK PROVE L1BufferAccounting
    OBVIOUS
  <2>1. /\ L1Places[1] = l1Free /\ L1Places[2] = BufsOf(fromL1) /\ L1Places[3] = {up.buf} \ {None}
        /\ L1Places[4] = l1Lost
        /\ \A k \in 1 .. 4 : k = 1 \/ k = 2 \/ k = 3 \/ k = 4
        /\ 1 \in 1 .. 4 /\ 2 \in 1 .. 4 /\ 3 \in 1 .. 4 /\ 4 \in 1 .. 4
    BY DEF L1Places
  <2>2. /\ l1Free \cup BufsOf(fromL1) \cup ({up.buf} \ {None}) \cup l1Lost = L1Buf
        /\ l1Lost \cap l1Free = {} /\ l1Lost \cap BufsOf(fromL1) = {}
        /\ l1Lost \cap ({up.buf} \ {None}) = {}
        /\ l1Free \cap BufsOf(fromL1) = {} /\ l1Free \cap ({up.buf} \ {None}) = {}
        /\ BufsOf(fromL1) \cap ({up.buf} \ {None}) = {}
    BY <2>1 DEF BuffersOK, Partition
  <2> QED BY <2>2 DEF L1BufferAccounting, BufsOf
<1> QED BY <1>1, BuffersInvariant, PTL

(* Every buffer of L2's region is in one place, whichever way it is used;  *)
(* the lost ones are those of a failed XSM_Put to L2 or of an address that *)
(* did not translate.                                                      *)
THEOREM L2BuffersAccounted == Spec => []L2BufferAccounting
<1>1. BuffersOK => L2BufferAccounting
  <2> SUFFICES ASSUME BuffersOK PROVE L2BufferAccounting
    OBVIOUS
  <2>1. DOMAIN L2Places = 1 .. 7
    BY DEF L2Places
  <2>2. UNION Range(L2Places) = L2Buf
    BY <2>1 DEF BuffersOK, Partition, Range
  <2> QED BY <2>1, <2>2 DEF BuffersOK, Partition, L2BufferAccounting
<1> QED BY <1>1, BuffersInvariant, PTL
=============================================================================
