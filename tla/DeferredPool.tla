---------------------------- MODULE DeferredPool ----------------------------
(***************************************************************************)
(* What the pair-0 master pool promises to the two forwarder threads and,  *)
(* through them, to L1: a block that was handed out stays untouched for    *)
(* Depth SLOT.indications, and only then may it be handed out again.       *)
(*                                                                         *)
(* The abstraction forgets the free list, its order and the slot records:  *)
(* each block only has an age, the SLOT.indications seen since it was last *)
(* handed out.  A block of age Depth is free.                              *)
(***************************************************************************)
EXTENDS Integers

CONSTANTS Block,   \* the blocks of the region
          Depth    \* SLOT.indications a block is kept for

VARIABLE age

Init == age = [b \in Block |-> Depth]

HandOut(b) ==
    /\ age[b] = Depth
    /\ age' = [age EXCEPT ![b] = 0]

SlotIndication ==
    age' = [b \in Block |-> IF age[b] < Depth THEN age[b] + 1 ELSE Depth]

Next == (\E b \in Block : HandOut(b)) \/ SlotIndication

Spec == Init /\ [][Next]_age
=============================================================================
