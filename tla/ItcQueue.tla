------------------------------ MODULE ItcQueue ------------------------------
(***************************************************************************)
(* The inter-thread queue of utils/task_mngr/itc_queue.c: a ring under a   *)
(* mutex with two condition variables.  The P7 receive paths of the        *)
(* OAI_OCUDU and AERIAL_OAI bridges hand datagrams over with it.           *)
(*                                                                         *)
(* A critical section is one action.  pthread_cond_wait releases the mutex *)
(* and sleeps ("waiting"); a signal, a broadcast or a spurious wakeup      *)
(* makes a sleeper "woken", and it tests its loop condition again when it  *)
(* has the mutex back.  itc_queue_destroy also destroys the mutex and the  *)
(* condition variables; a caller that comes later finds an inactive queue  *)
(* (locking a destroyed mutex is undefined, glibc returns EINVAL and the   *)
(* code goes on), which is what the actions after it show.                 *)
(*                                                                         *)
(* A definition that no action of Next uses is a changed form of the one   *)
(* that follows it, the way a slip in the C code would change it.          *)
(***************************************************************************)
EXTENDS Integers, Sequences, FiniteSets, Functions

CONSTANTS Producer, Consumer,
          Capacity,   \* ITC_QUEUE_CAPACITY
          MaxItems,   \* items each producer pushes (bound)
          None        \* an unused cell

ASSUME QueueAssumption ==
    /\ Capacity \in Nat \ {0} /\ MaxItems \in Nat
    /\ IsFiniteSet(Producer) /\ IsFiniteSet(Consumer) /\ Producer \cap Consumer = {}

VARIABLES head, tail, count, isActive,   \* the fields of ITC_Queue_t
          buffer,
          pc,      \* pc[t]: "ready", "waiting", "woken", or "done" after a NULL
          next,    \* next[p]: the number of the item p pushes next
          taken    \* items popped so far (history)

ring == <<head, tail, count, isActive, buffer>>
vars == <<ring, pc, next, taken>>

Cell   == 0 .. Capacity - 1
Thread == Producer \cup Consumer
Item   == Producer \X (1 .. MaxItems)

Init ==
    /\ head = 0 /\ tail = 0 /\ count = 0 /\ isActive = TRUE
    /\ buffer = [i \in Cell |-> None]
    /\ pc = [t \in Thread |-> "ready"]
    /\ next = [p \in Producer |-> 1]
    /\ taken = <<>>

InPc(threads, state) == {t \in threads : pc[t] = state}

(* pthread_cond_signal to the waiters among others, after which t is in    *)
(* state: one waiter is woken, if there is one.                            *)
Signal(others, t, state) ==
    IF InPc(others, "waiting") = {}
    THEN pc' = [pc EXCEPT ![t] = state]
    ELSE \E u \in InPc(others, "waiting") : pc' = [pc EXCEPT ![t] = state, ![u] = "woken"]

-----------------------------------------------------------------------------
(* itc_queue_push *)

Pushing(p) == pc[p] \in {"ready", "woken"} /\ next[p] <= MaxItems

PushWaits(p) ==
    /\ Pushing(p) /\ count = Capacity /\ isActive
    /\ pc' = [pc EXCEPT ![p] = "waiting"]
    /\ UNCHANGED <<ring, next, taken>>

PushDropped(p) ==
    /\ Pushing(p) /\ ~isActive
    /\ pc' = [pc EXCEPT ![p] = "ready"]
    /\ next' = [next EXCEPT ![p] = @ + 1]
    /\ UNCHANGED <<ring, taken>>

PushWithoutSignal(p) ==
    /\ Pushing(p) /\ isActive /\ count < Capacity
    /\ buffer' = [buffer EXCEPT ![tail] = <<p, next[p]>>]
    /\ tail' = (tail + 1) % Capacity /\ count' = count + 1
    /\ next' = [next EXCEPT ![p] = @ + 1]
    /\ pc' = [pc EXCEPT ![p] = "ready"]
    /\ UNCHANGED <<head, isActive, taken>>

PushStores(p) ==
    /\ Pushing(p) /\ isActive /\ count < Capacity
    /\ buffer' = [buffer EXCEPT ![tail] = <<p, next[p]>>]
    /\ tail' = (tail + 1) % Capacity /\ count' = count + 1
    /\ next' = [next EXCEPT ![p] = @ + 1]
    /\ Signal(Consumer, p, "ready")
    /\ UNCHANGED <<head, isActive, taken>>

Push(p) == PushWaits(p) \/ PushDropped(p) \/ PushStores(p)

-----------------------------------------------------------------------------
(* itc_queue_pop *)

Popping(c) == pc[c] \in {"ready", "woken"}

PopWaits(c) ==
    /\ Popping(c) /\ count = 0 /\ isActive
    /\ pc' = [pc EXCEPT ![c] = "waiting"]
    /\ UNCHANGED <<ring, next, taken>>

PopNullWhenInactive(c) ==
    /\ Popping(c) /\ ~isActive
    /\ pc' = [pc EXCEPT ![c] = "done"]
    /\ UNCHANGED <<ring, next, taken>>

(* NULL: the callers leave their loop. *)
PopNull(c) ==
    /\ Popping(c) /\ count = 0 /\ ~isActive
    /\ pc' = [pc EXCEPT ![c] = "done"]
    /\ UNCHANGED <<ring, next, taken>>

PopWithoutWrap(c) ==
    /\ Popping(c) /\ count > 0
    /\ taken' = Append(taken, buffer[head])
    /\ head' = (IF head + 1 < Capacity THEN head + 1 ELSE head) /\ count' = count - 1
    /\ Signal(Producer, c, "ready")
    /\ UNCHANGED <<tail, isActive, buffer, next>>

PopTakes(c) ==
    /\ Popping(c) /\ count > 0
    /\ taken' = Append(taken, buffer[head])
    /\ head' = (head + 1) % Capacity /\ count' = count - 1
    /\ Signal(Producer, c, "ready")
    /\ UNCHANGED <<tail, isActive, buffer, next>>

Pop(c) == PopWaits(c) \/ PopNull(c) \/ PopTakes(c)

-----------------------------------------------------------------------------
DestroyWithoutBroadcast ==
    /\ isActive
    /\ isActive' = FALSE
    /\ UNCHANGED <<head, tail, count, buffer, pc, next, taken>>

(* itc_queue_destroy: deactivate and broadcast to both conditions *)
Destroy ==
    /\ isActive
    /\ isActive' = FALSE
    /\ pc' = [t \in Thread |-> IF pc[t] = "waiting" THEN "woken" ELSE pc[t]]
    /\ UNCHANGED <<head, tail, count, buffer, next, taken>>

(* POSIX lets pthread_cond_wait return without a signal. *)
SpuriousWakeup ==
    \E t \in InPc(Thread, "waiting") :
        pc' = [pc EXCEPT ![t] = "woken"] /\ UNCHANGED <<ring, next, taken>>

Next ==
    \/ \E p \in Producer : Push(p)
    \/ \E c \in Consumer : Pop(c)
    \/ Destroy \/ SpuriousWakeup

(* Every thread that is not asleep runs; nobody has to destroy the queue.  *)
Fairness ==
    /\ \A p \in Producer : WF_vars(Push(p))
    /\ \A c \in Consumer : WF_vars(Pop(c))

Spec == Init /\ [][Next]_vars /\ Fairness

-----------------------------------------------------------------------------
(* No wakeup is lost although every push and pop signals one thread only:  *)
(* while a consumer sleeps there are as many consumers on their way as     *)
(* items to take, and while a producer sleeps as many as free cells.       *)
NoLostWakeup ==
    /\ InPc(Consumer, "waiting") # {} => Cardinality(InPc(Consumer, "woken")) >= count
    /\ InPc(Producer, "waiting") # {} => Cardinality(InPc(Producer, "woken")) >= Capacity - count

Contents == [i \in 1 .. count |-> buffer[(head + i - 1) % Capacity]]

Fifo == INSTANCE BoundedFifo WITH contents <- Contents, open <- isActive

(* The ring is the bounded first-in first-out queue of BoundedFifo.        *)
ImplementsFifo == Fifo!Spec

(* An item that was stored is taken, also when the queue is destroyed      *)
(* with items in it.                                                       *)
EveryItemTaken ==
    \A x \in Item : x \in Range(Contents) ~> x \in Range(taken)

(* itc_queue_destroy frees everybody: no thread stays asleep and every     *)
(* consumer is told that the queue has ended.                              *)
DestroyFreesThreads ==
    ~isActive ~> /\ InPc(Thread, "waiting") = {}
                 /\ \A c \in Consumer : pc[c] = "done"
=============================================================================
