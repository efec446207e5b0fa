----------------------------- MODULE MasterPool -----------------------------
(***************************************************************************)
(* The pair-0 master pool (core/OCUDU_OCUDU/pair0_master_pool.c): fixed    *)
(* blocks of the memzone xFAPI shares with OCUDU-L1.  The L2->L1 forwarder *)
(* acquires a block for each downlink message; nobody ever returns one.    *)
(* Instead each acquired block is recorded in the newest of Depth slot     *)
(* records, and every SLOT.indication recycles the oldest record and       *)
(* shifts the others down ("slot-rotation deferred free").                 *)
(*                                                                         *)
(* Both operations run under pool->mutex, so each is one action.           *)
(***************************************************************************)
EXTENDS Integers, Sequences, Functions

CONSTANTS BlockCount,   \* POOL_BLOCK_COUNT
          Depth,        \* DL_SLOT_DEPTH
          MaxPerSlot    \* DL_MAX_PER_SLOT

ASSUME PoolAssumption ==
    /\ BlockCount \in Nat \ {0}
    /\ Depth \in Nat \ {0}
    /\ MaxPerSlot \in Nat \ {0}

VARIABLES freeList,   \* free_list[0 .. free_top - 1]: a stack, its top last
          slots       \* slots[k]: the buffers recorded in slot record k, oldest record 0

poolVars == <<freeList, slots>>

Block  == 0 .. BlockCount - 1
Record == 0 .. Depth - 1
Newest == Depth - 1

-----------------------------------------------------------------------------
(* A changed form of Create: a free list filled from POOL_BLOCK_COUNT, not  *)
(* from POOL_BLOCK_COUNT - 1; no specification uses it.                     *)
CreateOffByOne ==
    /\ freeList = [i \in 1 .. BlockCount |-> BlockCount - i + 1]
    /\ slots = [k \in Record |-> <<>>]

(* pair0_master_pool_create: the free list holds every block, block 0 on   *)
(* top; the slot records are empty.                                        *)
Create ==
    /\ freeList = [i \in 1 .. BlockCount |-> BlockCount - i]
    /\ slots = [k \in Record |-> <<>>]

Top == freeList[Len(freeList)]

(* Changed forms of the operations below, the way a slip in the C code     *)
(* would change them; no specification uses them.                          *)
CanAcquireIgnoringQuota == freeList # <<>>

CanAcquire ==
    /\ freeList # <<>>
    /\ Len(slots[Newest]) < MaxPerSlot

AcquireWithoutPop ==
    /\ CanAcquire
    /\ slots' = [slots EXCEPT ![Newest] = Append(@, Top)]
    /\ UNCHANGED freeList

(* pair0_master_pool_acquire, success: pop the free list, record the block *)
(* in the newest slot record.                                              *)
Acquire ==
    /\ CanAcquire
    /\ freeList' = SubSeq(freeList, 1, Len(freeList) - 1)
    /\ slots' = [slots EXCEPT ![Newest] = Append(@, Top)]

(* pair0_master_pool_acquire, failure: the free list is empty, or the      *)
(* popped block is pushed back because the newest record is full.          *)
AcquireFails ==
    /\ ~CanAcquire
    /\ UNCHANGED poolVars

RecycleSecondOldest ==
    /\ freeList' = freeList \o slots[IF Depth > 1 THEN 1 ELSE 0]
    /\ slots' = [k \in Record |-> IF k < Newest THEN slots[k + 1] ELSE <<>>]

ShiftWithoutRecycle ==
    /\ slots' = [k \in Record |-> IF k < Newest THEN slots[k + 1] ELSE <<>>]
    /\ UNCHANGED freeList

(* pair0_master_pool_on_slot_indication: push the oldest record's blocks   *)
(* on the free list, shift the records down, empty the newest.             *)
OnSlotIndication ==
    /\ freeList' = freeList \o slots[0]
    /\ slots' = [k \in Record |-> IF k < Newest THEN slots[k + 1] ELSE <<>>]

PoolNext == Acquire \/ AcquireFails \/ OnSlotIndication

PoolSpec == Create /\ [][PoolNext]_poolVars

-----------------------------------------------------------------------------
PoolTypeOK ==
    /\ freeList \in Seq(Block)
    /\ slots \in [Record -> Seq(Block)]

(* No block is in two places: not twice on the free list, not twice in one *)
(* record, not in two records, not both recorded and free.  Two downlink   *)
(* messages would share a block if it were.                                *)
NoAlias ==
    /\ IsInjective(freeList)
    /\ \A k \in Record :
          /\ IsInjective(slots[k])
          /\ Range(slots[k]) \cap Range(freeList) = {}
          /\ \A l \in Record \ {k} : Range(slots[k]) \cap Range(slots[l]) = {}

(* No block is lost: however acquisitions, refusals and SLOT.indications   *)
(* interleave, each block is free or recorded in a slot that will expire.  *)
NoLostBlock ==
    \A b \in Block : b \in Range(freeList) \/ \E k \in Record : b \in Range(slots[k])

(* The fixed arrays are never overrun: free_list[POOL_BLOCK_COUNT] by the  *)
(* recycling loop, buffers[DL_MAX_PER_SLOT] by acquire.                    *)
NoOverrun ==
    /\ Len(freeList) <= BlockCount
    /\ \A k \in Record : Len(slots[k]) <= MaxPerSlot

(* The age of a block as the deferred-free promise counts it: a block in   *)
(* record k has seen Newest - k SLOT.indications since it was acquired.    *)
AgeIn(recs, b) ==
    IF \E k \in Record : b \in Range(recs[k])
    THEN Newest - (CHOOSE k \in Record : b \in Range(recs[k]))
    ELSE Depth

Promise == INSTANCE DeferredPool WITH age <- [b \in Block |-> AgeIn(slots, b)]

(* The pool keeps that promise: every operation is a step of DeferredPool, *)
(* so no block is handed out again before Depth SLOT.indications.          *)
DeferredFree == Promise!Spec
=============================================================================
