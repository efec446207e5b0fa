---------------------------- MODULE OcuduBridge ----------------------------
(***************************************************************************)
(* The OCUDU_OCUDU bridge: the two forwarder threads of                    *)
(* core/OCUDU_OCUDU/forwarder_l1_to_l2.c and forwarder_l2_to_l1.c, the     *)
(* master pool they share, and the OCUDU-L1 and OCUDU-L2 processes at the  *)
(* other ends of the two xSM handles h_l1 and h_l2.                        *)
(*                                                                         *)
(* The uplink thread copies each message of L1 into a buffer of L2's       *)
(* region and, after a SLOT.indication, rotates the pool.  The downlink    *)
(* thread copies each message of L2 into a block of the pool.  Nothing     *)
(* synchronises a rotation with L1's reading of the blocks: that no block  *)
(* is recycled under L1 rests on how far each party can fall behind, which *)
(* Hold, Backlog and Lag name.                                             *)
(*                                                                         *)
(* Each thread translates the addresses of the two buffers it works on,    *)
(* and libxsm may fail to: any translation of the model may.               *)
(*                                                                         *)
(* A definition that no action of Next uses (UpNoBufferWithoutReturn, ...) *)
(* is a changed form of the one that follows it, the way a slip in the C   *)
(* code would change it; each property is checked to notice one of them.   *)
(*                                                                         *)
(* libxsm and the two stacks are not part of the repository; their actions *)
(* are modelled from the XSM_ calls the forwarders make.                   *)
(***************************************************************************)
EXTENDS MasterPool, FiniteSets

CONSTANTS L1Buf,      \* buffers of L1's region that L1 sends messages in
          L2Buf,      \* buffers of the region shared with L2, used in both directions
          RingToL1,   \* queue_capacity of h_l1
          RingToL2,   \* queue_capacity of h_l2
          Hold,       \* rotations that can overtake one L2->L1 forwarding step sequence
          Backlog,    \* SLOT.indications that can be waiting to be forwarded
          Lag,        \* SLOT.indications L1 can send while it still reads a block
          None        \* no buffer, no block: the value of an unused local

ASSUME BridgeAssumption ==
    /\ RingToL1 \in Nat /\ RingToL2 \in Nat
    /\ Hold \in Nat /\ Backlog \in Nat /\ Lag \in Nat
    /\ Hold + Backlog + Lag < Depth
    /\ None \notin Block \cup L1Buf \cup L2Buf

VARIABLES l1Free,   \* buffers L1 may send in
          fromL1,   \* ring of h_l1 towards xFAPI: records [buf, slot]
          up,       \* locals of fwd_l1_to_l2_thread_main: [pc, buf, slot, dst]
          l2Free,   \* buffers XSM_AcquireBuffer(h_l2) can give
          toL2,     \* ring of h_l2 towards L2
          l2Reads,  \* buffers L2 is reading
          lost,     \* buffers of that region no party holds any more (history)
          fromL2,   \* ring of h_l2 towards xFAPI
          down,     \* locals of fwd_l2_to_l1_thread_main: [pc, buf, block]
          held,     \* rotations since the downlink thread acquired its block
          toL1,     \* ring of h_l1 towards L1: blocks
          l1Lost,   \* buffers of L1 no party holds any more (history)
          l1Reads,  \* blocks L1 has taken from its ring and still reads
          seen      \* seen[b]: SLOT.indications L1 has sent since b was put on its ring

upVars   == <<l1Free, fromL1, up, toL2>>
downVars == <<fromL2, down, held, toL1>>
l2Vars   == <<l2Free, l2Reads, lost>>
l1Vars   == <<l1Lost, l1Reads, seen>>
vars     == <<poolVars, upVars, downVars, l2Vars, l1Vars>>

Message == [buf : L1Buf, slot : BOOLEAN]

UpIdle   == [pc |-> "get", buf |-> None, slot |-> FALSE, dst |-> None]
DownIdle == [pc |-> "get", buf |-> None, block |-> None]

(* SLOT.indications L1 has sent and the uplink thread has not yet turned   *)
(* into a rotation.                                                        *)
Pending ==
    Cardinality({i \in DOMAIN fromL1 : fromL1[i].slot}) + (IF up.slot THEN 1 ELSE 0)

InFlight == Range(toL1) \cup l1Reads

-----------------------------------------------------------------------------
Init ==
    /\ Create
    /\ l1Free = L1Buf /\ fromL1 = <<>> /\ up = UpIdle
    /\ l2Free = L2Buf /\ toL2 = <<>> /\ l2Reads = {} /\ lost = {}
    /\ fromL2 = <<>> /\ down = DownIdle /\ held = 0
    /\ toL1 = <<>> /\ l1Lost = {} /\ l1Reads = {} /\ seen = [b \in Block |-> 0]

-----------------------------------------------------------------------------
(* fwd_l1_to_l2_thread_main *)

(* XSM_Get(h_l1) *)
UpGet ==
    /\ up.pc = "get" /\ fromL1 # <<>>
    /\ up' = [pc |-> "acquire", buf |-> Head(fromL1).buf,
              slot |-> Head(fromL1).slot, dst |-> None]
    /\ fromL1' = Tail(fromL1)
    /\ UNCHANGED <<poolVars, l1Free, toL2, downVars, l2Vars, l1Vars>>

(* XSM_PhysToVirt finds no address for L1's buffer: the loop goes on to    *)
(* the next message, and nobody returns the buffer.                        *)
UpNoAddress ==
    /\ up.pc = "acquire"
    /\ l1Lost' = l1Lost \cup {up.buf}
    /\ up' = UpIdle
    /\ UNCHANGED <<poolVars, l1Free, fromL1, toL2, downVars, l2Vars, l1Reads, seen>>

(* XSM_AcquireBuffer(h_l2) succeeds *)
UpAcquire ==
    /\ up.pc = "acquire"
    /\ \E dst \in l2Free :
          /\ l2Free' = l2Free \ {dst}
          /\ up' = [up EXCEPT !.pc = "copy", !.dst = dst]
    /\ UNCHANGED <<poolVars, l1Free, fromL1, toL2, downVars, l2Reads, lost, l1Vars>>

UpNoBufferWithoutReturn ==
    /\ up.pc = "acquire" /\ l2Free = {}
    /\ up' = UpIdle
    /\ UNCHANGED <<poolVars, l1Free, fromL1, toL2, downVars, l2Vars, l1Vars>>

(* XSM_AcquireBuffer(h_l2) fails: the message is dropped, its L1 buffer    *)
(* returned; a SLOT.indication dropped here rotates nothing.               *)
UpNoBuffer ==
    /\ up.pc = "acquire" /\ l2Free = {}
    /\ l1Free' = l1Free \cup {up.buf}
    /\ up' = UpIdle
    /\ UNCHANGED <<poolVars, fromL1, toL2, downVars, l2Vars, l1Vars>>

(* XSM_PhysToVirt finds no address for the acquired buffer: L1 gets its    *)
(* own back, the acquired one is never given back.                         *)
UpNoTarget ==
    /\ up.pc = "copy"
    /\ l1Free' = l1Free \cup {up.buf}
    /\ lost' = lost \cup {up.dst}
    /\ up' = UpIdle
    /\ UNCHANGED <<poolVars, fromL1, toL2, downVars, l2Free, l2Reads, l1Vars>>

(* memcpy, XSM_ReturnBuffer(h_l1) *)
UpCopy ==
    /\ up.pc = "copy"
    /\ l1Free' = l1Free \cup {up.buf}
    /\ up' = [up EXCEPT !.pc = "put", !.buf = None]
    /\ UNCHANGED <<poolVars, fromL1, toL2, downVars, l2Vars, l1Vars>>

RotateOnAnyMessage ==
    /\ up.pc = "put" /\ Len(toL2) < RingToL2
    /\ toL2' = Append(toL2, up.dst)
    /\ up' = [up EXCEPT !.pc = "rotate", !.dst = None]
    /\ UNCHANGED <<poolVars, l1Free, fromL1, downVars, l2Vars, l1Vars>>

(* XSM_Put(h_l2) succeeds; only a SLOT.indication goes on to the rotation. *)
UpPut ==
    /\ up.pc = "put" /\ Len(toL2) < RingToL2
    /\ toL2' = Append(toL2, up.dst)
    /\ up' = IF up.slot THEN [up EXCEPT !.pc = "rotate", !.dst = None] ELSE UpIdle
    /\ UNCHANGED <<poolVars, l1Free, fromL1, downVars, l2Vars, l1Vars>>

(* XSM_Put(h_l2) fails: nobody returns the acquired buffer, and the        *)
(* rotation is skipped.                                                    *)
UpPutFails ==
    /\ up.pc = "put" /\ Len(toL2) >= RingToL2
    /\ lost' = lost \cup {up.dst}
    /\ up' = UpIdle
    /\ UNCHANGED <<poolVars, l1Free, fromL1, toL2, downVars, l2Free, l2Reads, l1Vars>>

(* Scheduling assumption: between its acquire and its XSM_Put the downlink *)
(* thread is overtaken by at most Hold rotations.                          *)
DownInTime == down.pc \in {"copy", "put"} => held < Hold

(* pair0_master_pool_on_slot_indication *)
UpRotate ==
    /\ up.pc = "rotate" /\ DownInTime
    /\ OnSlotIndication
    /\ held' = IF down.pc \in {"copy", "put"} THEN held + 1 ELSE held
    /\ up' = UpIdle
    /\ UNCHANGED <<l1Free, fromL1, toL2, fromL2, down, toL1, l2Vars, l1Vars>>

Up ==
    \/ UpGet \/ UpNoAddress \/ UpAcquire \/ UpNoBuffer \/ UpNoTarget
    \/ UpCopy \/ UpPut \/ UpPutFails \/ UpRotate

-----------------------------------------------------------------------------
(* fwd_l2_to_l1_thread_main *)

(* XSM_Get(h_l2) *)
DownGet ==
    /\ down.pc = "get" /\ fromL2 # <<>>
    /\ down' = [pc |-> "acquire", buf |-> Head(fromL2), block |-> None]
    /\ fromL2' = Tail(fromL2)
    /\ UNCHANGED <<poolVars, upVars, held, toL1, l2Vars, l1Vars>>

(* XSM_PhysToVirt finds no address for L2's buffer: the loop goes on to    *)
(* the next message, and nobody returns the buffer.                        *)
DownNoAddress ==
    /\ down.pc = "acquire"
    /\ lost' = lost \cup {down.buf}
    /\ down' = DownIdle
    /\ UNCHANGED <<poolVars, upVars, fromL2, held, toL1, l2Free, l2Reads, l1Vars>>

(* pair0_master_pool_acquire succeeds *)
DownAcquire ==
    /\ down.pc = "acquire"
    /\ Acquire
    /\ down' = [down EXCEPT !.pc = "copy", !.block = Top]
    /\ held' = 0
    /\ UNCHANGED <<upVars, fromL2, toL1, l2Vars, l1Vars>>

DownRefusedWithoutReturn ==
    /\ down.pc = "acquire"
    /\ AcquireFails
    /\ down' = DownIdle
    /\ UNCHANGED <<upVars, fromL2, held, toL1, l2Vars, l1Vars>>

(* pair0_master_pool_acquire fails: return the L2 buffer, drop the message. *)
DownRefused ==
    /\ down.pc = "acquire"
    /\ AcquireFails
    /\ l2Free' = l2Free \cup {down.buf}
    /\ down' = DownIdle
    /\ UNCHANGED <<upVars, fromL2, held, toL1, l2Reads, lost, l1Vars>>

(* pair0_master_pool_va_to_pa finds no address for the block: the L2       *)
(* buffer returns, and the block expires from its slot record unused.      *)
DownNoTarget ==
    /\ down.pc = "copy"
    /\ l2Free' = l2Free \cup {down.buf}
    /\ down' = DownIdle /\ held' = 0
    /\ UNCHANGED <<poolVars, upVars, fromL2, toL1, l2Reads, lost, l1Vars>>

(* memcpy, XSM_ReturnBuffer(h_l2) *)
DownCopy ==
    /\ down.pc = "copy"
    /\ l2Free' = l2Free \cup {down.buf}
    /\ down' = [down EXCEPT !.pc = "put", !.buf = None]
    /\ UNCHANGED <<poolVars, upVars, fromL2, held, toL1, l2Reads, lost, l1Vars>>

(* XSM_Put(h_l1) succeeds *)
DownPut ==
    /\ down.pc = "put" /\ Len(toL1) < RingToL1
    /\ toL1' = Append(toL1, down.block)
    /\ seen' = [seen EXCEPT ![down.block] = 0]
    /\ down' = DownIdle /\ held' = 0
    /\ UNCHANGED <<poolVars, upVars, fromL2, l2Vars, l1Lost, l1Reads>>

(* XSM_Put(h_l1) fails: the block stays in its slot record. *)
DownPutFails ==
    /\ down.pc = "put" /\ Len(toL1) >= RingToL1
    /\ down' = DownIdle /\ held' = 0
    /\ UNCHANGED <<poolVars, upVars, fromL2, toL1, l2Vars, l1Vars>>

Down ==
    \/ DownGet \/ DownNoAddress \/ DownAcquire \/ DownRefused \/ DownNoTarget
    \/ DownCopy \/ DownPut \/ DownPutFails

-----------------------------------------------------------------------------
(* OCUDU-L1 *)

L1SendData ==
    \E b \in l1Free :
        /\ l1Free' = l1Free \ {b}
        /\ fromL1' = Append(fromL1, [buf |-> b, slot |-> FALSE])
        /\ UNCHANGED <<poolVars, up, toL2, downVars, l2Vars, l1Vars>>

(* L1's slot clock.  Assumed of L1 and of the platform: L1 is done with a  *)
(* block at most Lag SLOT.indications after the block was put on its ring, *)
(* and xFAPI has at most Backlog SLOT.indications still to forward.        *)
L1SlotIndication ==
    /\ Pending < Backlog
    /\ \A b \in InFlight : seen[b] < Lag
    /\ \E b \in l1Free :
          /\ l1Free' = l1Free \ {b}
          /\ fromL1' = Append(fromL1, [buf |-> b, slot |-> TRUE])
    /\ seen' = [b \in Block |-> IF b \in InFlight THEN seen[b] + 1 ELSE seen[b]]
    /\ UNCHANGED <<poolVars, up, toL2, downVars, l2Vars, l1Lost, l1Reads>>

L1Take ==
    /\ toL1 # <<>>
    /\ toL1' = Tail(toL1)
    /\ l1Reads' = l1Reads \cup {Head(toL1)}
    /\ UNCHANGED <<poolVars, upVars, fromL2, down, held, l2Vars, l1Lost, seen>>

L1Done ==
    \E b \in l1Reads :
        /\ l1Reads' = l1Reads \ {b}
        /\ seen' = [seen EXCEPT ![b] = 0]
        /\ UNCHANGED <<poolVars, upVars, downVars, l2Vars, l1Lost>>

(* OCUDU-L2 *)

L2Send ==
    \E b \in l2Free :
        /\ l2Free' = l2Free \ {b}
        /\ fromL2' = Append(fromL2, b)
        /\ UNCHANGED <<poolVars, upVars, down, held, toL1, l2Reads, lost, l1Vars>>

L2Take ==
    /\ toL2 # <<>>
    /\ toL2' = Tail(toL2)
    /\ l2Reads' = l2Reads \cup {Head(toL2)}
    /\ UNCHANGED <<poolVars, l1Free, fromL1, up, downVars, l2Free, lost, l1Vars>>

L2Done ==
    \E b \in l2Reads :
        /\ l2Reads' = l2Reads \ {b}
        /\ l2Free' = l2Free \cup {b}
        /\ UNCHANGED <<poolVars, upVars, downVars, lost, l1Vars>>

Stacks == L1SendData \/ L1SlotIndication \/ L1Take \/ L1Done \/ L2Send \/ L2Take \/ L2Done

Next == Up \/ Down \/ Stacks

Spec == Init /\ [][Next]_vars

-----------------------------------------------------------------------------
BridgeTypeOK ==
    /\ PoolTypeOK
    /\ l1Free \subseteq L1Buf /\ l1Lost \subseteq L1Buf /\ fromL1 \in Seq(Message)
    /\ up \in [pc : {"get", "acquire", "copy", "put", "rotate"}, buf : L1Buf \cup {None},
               slot : BOOLEAN, dst : L2Buf \cup {None}]
    /\ l2Free \subseteq L2Buf /\ l2Reads \subseteq L2Buf /\ lost \subseteq L2Buf
    /\ toL2 \in Seq(L2Buf) /\ fromL2 \in Seq(L2Buf)
    /\ down \in [pc : {"get", "acquire", "copy", "put"}, buf : L2Buf \cup {None},
                 block : Block \cup {None}]
    /\ held \in 0 .. Hold
    /\ toL1 \in Seq(Block) /\ l1Reads \subseteq Block
    /\ seen \in [Block -> 0 .. Lag]

(* No block is recycled under a reader: a block the downlink thread is     *)
(* writing, one waiting in L1's ring and one L1 reads are not on the free  *)
(* list.  Downlink PDUs of a later slot would overwrite it if it were.     *)
WrittenBlock == IF down.pc \in {"copy", "put"} THEN {down.block} ELSE {}

NoRecycleUnderReader == (InFlight \cup WrittenBlock) \cap Range(freeList) = {}

(* No block carries two messages at once: the block being written is not   *)
(* in flight to L1, and none is in flight twice.                           *)
OneMessagePerBlock ==
    /\ InFlight \cap WrittenBlock = {}
    /\ IsInjective(toL1)
    /\ Range(toL1) \cap l1Reads = {}

(* Every buffer of the region shared with L2 is in exactly one place, in   *)
(* both directions together.  Those that are lost are the ones of a failed *)
(* XSM_Put to L2 or of an address that did not translate: every other path *)
(* of the two threads gives its buffer back or on.                         *)
L2Places ==
    <<l2Free, Range(toL2), l2Reads, lost, Range(fromL2),
      {up.dst} \ {None}, {down.buf} \ {None}>>

L2BufferAccounting ==
    /\ UNION Range(L2Places) = L2Buf
    /\ \A i, j \in DOMAIN L2Places : i # j => L2Places[i] \cap L2Places[j] = {}
    /\ IsInjective(toL2) /\ IsInjective(fromL2)

(* Every buffer L1 sends in is in exactly one place, whichever path its    *)
(* message takes: free, in the ring, held by the uplink thread, or lost    *)
(* because its own address did not translate.                              *)
L1BufferAccounting ==
    LET ringed == {fromL1[i].buf : i \in DOMAIN fromL1}
        owned  == {up.buf} \ {None}
    IN  /\ l1Free \cup ringed \cup owned \cup l1Lost = L1Buf
        /\ l1Free \cap ringed = {} /\ l1Free \cap owned = {} /\ ringed \cap owned = {}
        /\ l1Lost \cap (l1Free \cup ringed \cup owned) = {}

(* Why no block is recycled under L1: the rotations a block has seen never *)
(* exceed those that overtook the thread, those that were waiting when the *)
(* block was put, and those L1 has caused since.                           *)
AgeBound ==
    /\ \A b \in InFlight : AgeIn(slots, b) + Pending <= Hold + Backlog + seen[b]
    /\ \A b \in WrittenBlock : AgeIn(slots, b) = held
=============================================================================
