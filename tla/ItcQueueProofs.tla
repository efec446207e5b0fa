--------------------------- MODULE ItcQueueProofs ---------------------------
(***************************************************************************)
(* Proofs about the inter-thread queue, ItcQueue: the ring is the bounded  *)
(* queue of BoundedFifo (a refinement, step by step), and no wakeup is     *)
(* lost although every push and pop signals one thread only.               *)
(***************************************************************************)
EXTENDS ItcQueue, SequenceFacts

(* Indices of the ring, without the modulus.                               *)
LEMMA Wrap ==
    \A x \in Nat : x < Capacity + Capacity =>
        /\ x % Capacity = IF x < Capacity THEN x ELSE x - Capacity
        /\ x % Capacity \in 0 .. Capacity - 1
<1> SUFFICES ASSUME NEW x \in Nat, x < Capacity + Capacity
             PROVE  /\ x % Capacity = IF x < Capacity THEN x ELSE x - Capacity
                    /\ x % Capacity \in 0 .. Capacity - 1
  OBVIOUS
<1>1. Capacity \in Nat \ {0}
  BY QueueAssumption
<1>2. CASE x < Capacity BY <1>1, <1>2
<1>3. CASE x >= Capacity BY <1>1, <1>3
<1> QED BY <1>1, <1>2, <1>3

(* The cell i places behind the head.                                      *)
Place(h, i) == (h + i - 1) % Capacity

(* How places move with the head.                                          *)
LEMMA Places ==
    ASSUME NEW h \in Cell
    PROVE  /\ Capacity \in Nat \ {0} /\ h \in Nat /\ h < Capacity
           /\ \A i \in 1 .. Capacity + 1 : Place(h, i) \in Cell
           /\ Place(h, 1) = h
           /\ \A i, j \in 1 .. Capacity : Place(h, i) = Place(h, j) => i = j
           /\ \A i \in 0 .. Capacity : (h + i) % Capacity = Place(h, i + 1)
           /\ \A i \in 1 .. Capacity : (Place(h, i) + 1) % Capacity = Place(h, i + 1)
           /\ (h + 1) % Capacity \in Cell
           /\ \A i \in 1 .. Capacity : Place((h + 1) % Capacity, i) = Place(h, i + 1)
<1> DEFINE C == Capacity
<1>1. C \in Nat \ {0}
  BY QueueAssumption
<1>2. h \in Nat /\ h < C
  BY <1>1 DEF Cell
<1>3. \A i \in 1 .. C + 1 : /\ Place(h, i) = IF h + i - 1 < C THEN h + i - 1 ELSE h + i - 1 - C
                            /\ Place(h, i) \in 0 .. C - 1
  <2> SUFFICES ASSUME NEW i \in 1 .. C + 1
               PROVE  /\ Place(h, i) = IF h + i - 1 < C THEN h + i - 1 ELSE h + i - 1 - C
                      /\ Place(h, i) \in 0 .. C - 1
    OBVIOUS
  <2> PICK x \in Nat : x = h + i - 1
    BY <1>1, <1>2
  <2>1. x % C = (IF x < C THEN x ELSE x - C) /\ x % C \in 0 .. C - 1
    BY <1>1, <1>2, Wrap
  <2> QED BY <1>1, <1>2, <2>1 DEF Place
<1>4. (h + 1) % C = (IF h + 1 < C THEN h + 1 ELSE h + 1 - C) /\ (h + 1) % C \in 0 .. C - 1
  <2> PICK x \in Nat : x = h + 1
    BY <1>2
  <2>1. x % C = (IF x < C THEN x ELSE x - C) /\ x % C \in 0 .. C - 1
    BY <1>1, <1>2, Wrap
  <2> QED BY <1>1, <1>2, <2>1
<1>5. \A i \in 1 .. C + 1 : Place(h, i) \in Cell
  BY <1>3 DEF Cell
<1>6. Place(h, 1) = h /\ \A i, j \in 1 .. C : Place(h, i) = Place(h, j) => i = j
  BY <1>1, <1>2, <1>3
<1>7. \A i \in 0 .. C : (h + i) % C = Place(h, i + 1)
  <2> SUFFICES ASSUME NEW i \in 0 .. C PROVE (h + i) % C = Place(h, i + 1)
    OBVIOUS
  <2>1. h + i = h + (i + 1) - 1
    BY <1>1, <1>2
  <2> QED BY <1>1, <1>2, <2>1 DEF Place
<1>8. \A i \in 1 .. C : (Place(h, i) + 1) % C = Place(h, i + 1)
  <2> SUFFICES ASSUME NEW i \in 1 .. C PROVE (Place(h, i) + 1) % C = Place(h, i + 1)
    OBVIOUS
  <2>1. /\ Place(h, i) \in 0 .. C - 1 /\ i + 1 \in 1 .. C + 1
        /\ Place(h, i) = IF h + i - 1 < C THEN h + i - 1 ELSE h + i - 1 - C
        /\ Place(h, i + 1) = IF h + i < C THEN h + i ELSE h + i - C
    BY <1>1, <1>2, <1>3
  <2> PICK x \in Nat : x = Place(h, i) + 1
    BY <2>1
  <2>2. x % C = IF x < C THEN x ELSE x - C
    BY <1>1, <2>1, Wrap
  <2>3. (Place(h, i) + 1) % C = IF Place(h, i) + 1 < C THEN Place(h, i) + 1 ELSE Place(h, i) + 1 - C
    BY <1>1, <2>1, <2>2
  <2> QED BY <1>1, <1>2, <2>1, <2>3
<1>9. \A i \in 1 .. C : Place((h + 1) % C, i) = Place(h, i + 1)
  <2> SUFFICES ASSUME NEW i \in 1 .. C PROVE Place((h + 1) % C, i) = Place(h, i + 1)
    OBVIOUS
  <2> PICK g \in Nat : g = (h + 1) % C
    BY <1>4
  <2>1. g < C /\ g = IF h + 1 < C THEN h + 1 ELSE h + 1 - C
    BY <1>1, <1>4
  <2> PICK x \in Nat : x = g + i - 1
    BY <1>1
  <2>2. x % C = IF x < C THEN x ELSE x - C
    BY <1>1, <2>1, Wrap
  <2>3. Place(g, i) = IF g + i - 1 < C THEN g + i - 1 ELSE g + i - 1 - C
    BY <1>1, <2>2 DEF Place
  <2>4. Place(h, i + 1) = IF h + i < C THEN h + i ELSE h + i - C
    <3>1. i + 1 \in 1 .. C + 1 /\ h + (i + 1) - 1 = h + i
      BY <1>1, <1>2
    <3> QED BY <1>3, <3>1
  <2>5. CASE h + 1 < C BY <1>1, <1>2, <2>1, <2>3, <2>4, <2>5
  <2>6. CASE h + 1 = C BY <1>1, <1>2, <2>1, <2>3, <2>4, <2>6
  <2>7. h + 1 < C \/ h + 1 = C
    BY <1>1, <1>2
  <2> QED BY <2>5, <2>6, <2>7
<1> QED BY <1>1, <1>2, <1>4, <1>5, <1>6, <1>7, <1>8, <1>9 DEF Cell

-----------------------------------------------------------------------------
(* The fields of the queue agree, and the cells between head and tail hold *)
(* items.                                                                  *)
RingOK ==
    /\ head \in Cell /\ tail \in Cell /\ count \in 0 .. Capacity /\ isActive \in BOOLEAN
    /\ tail = (head + count) % Capacity
    /\ buffer \in [Cell -> Item \cup {None}]
    /\ \A i \in 1 .. count : buffer[Place(head, i)] \in Item
    /\ taken \in Seq(Item)

(* Types of the threads' states.                                           *)
ThreadsOK ==
    /\ pc \in [Thread -> {"ready", "waiting", "woken", "done"}]
    /\ next \in [Producer -> 1 .. MaxItems + 1]

(* The contents as the sequence that the proofs reason with.               *)
Ring(h, n, b) == [i \in 1 .. n |-> b[Place(h, i)]]

(* A ring whose cells hold items is a sequence of them.                    *)
LEMMA RingFacts ==
    ASSUME NEW n \in Nat, NEW h, NEW b, \A i \in 1 .. n : b[Place(h, i)] \in Item
    PROVE  /\ Ring(h, n, b) \in Seq(Item) /\ Len(Ring(h, n, b)) = n
           /\ \A i \in 1 .. n : Ring(h, n, b)[i] = b[Place(h, i)]
<1>1. Ring(h, n, b) \in [1 .. n -> Item]
  BY DEF Ring
<1>2. Ring(h, n, b) \in Seq(Item)
  BY <1>1, SeqDef
<1>3. Len(Ring(h, n, b)) = n
  BY <1>1, <1>2, LenProperties
<1> QED BY <1>2, <1>3 DEF Ring

(* The contents, before and after a step.                                  *)
LEMMA ContentsRing ==
    /\ Contents = Ring(head, count, buffer)
    /\ Contents' = Ring(head', count', buffer')
BY DEF Contents, Ring, Place

(* While the fields agree, the contents are a sequence of count items ...  *)
LEMMA ContentsFacts ==
    ASSUME RingOK
    PROVE  /\ Contents \in Seq(Item) /\ Len(Contents) = count /\ count \in Nat
           /\ \A i \in 1 .. count : Contents[i] = buffer[Place(head, i)]
BY RingFacts, ContentsRing, QueueAssumption DEF RingOK

(* ... also after a step.                                                  *)
LEMMA ContentsFactsNext ==
    ASSUME RingOK'
    PROVE  /\ Contents' \in Seq(Item) /\ Len(Contents') = count' /\ count' \in Nat
           /\ \A i \in 1 .. count' : Contents'[i] = buffer'[Place(head', i)]
BY RingFacts, ContentsRing, QueueAssumption DEF RingOK

(* A push of x stores it behind the contents.                              *)
LEMMA StoreFacts ==
    ASSUME RingOK, NEW x \in Item, count < Capacity,
           buffer' = [buffer EXCEPT ![tail] = x], tail' = (tail + 1) % Capacity,
           count' = count + 1, UNCHANGED <<head, isActive, taken>>
    PROVE  RingOK' /\ Contents' = Append(Contents, x)
<1> USE DEF RingOK
<1>1. Capacity \in Nat \ {0} /\ count \in Nat /\ count + 1 \in 1 .. Capacity
  BY QueueAssumption
<1>2. tail = Place(head, count + 1) /\ tail' = Place(head, count + 2) /\ tail' \in Cell
  <2>1. (head + count) % Capacity = Place(head, count + 1)
    BY Places
  <2>2. (Place(head, count + 1) + 1) % Capacity = Place(head, count + 1 + 1)
    BY <1>1, Places
  <2>3. Place(head, count + 1 + 1) \in Cell
    BY <1>1, Places
  <2> QED BY <1>1, <2>1, <2>2, <2>3
<1>3. \A i \in 1 .. count : Place(head, i) \in Cell /\ Place(head, i) # tail
  <2> SUFFICES ASSUME NEW i \in 1 .. count PROVE Place(head, i) \in Cell /\ Place(head, i) # tail
    OBVIOUS
  <2>1. i \in 1 .. Capacity + 1 /\ i \in 1 .. Capacity /\ i # count + 1
    BY <1>1
  <2>2. Place(head, i) \in Cell
    BY <2>1, Places
  <2>3. Place(head, i) # Place(head, count + 1)
    BY <1>1, <2>1, Places
  <2> QED BY <1>2, <2>2, <2>3
<1>4. buffer' \in [Cell -> Item \cup {None}]
  OBVIOUS
<1>5. \A i \in 1 .. count' : buffer'[Place(head, i)] =
                             IF i = count + 1 THEN x ELSE buffer[Place(head, i)]
  BY <1>1, <1>2, <1>3
<1>6. \A i \in 1 .. count' : buffer'[Place(head', i)] \in Item
  BY <1>1, <1>5
<1>7. tail' = (head' + count') % Capacity
  <2>1. (head + (count + 1)) % Capacity = Place(head, count + 1 + 1)
    <3>1. count + 1 \in 0 .. Capacity
      BY <1>1
    <3> QED BY <3>1, Places
  <2>2. count + 1 + 1 = count + 2
    BY <1>1
  <2> QED BY <1>1, <1>2, <2>1, <2>2
<1>8. RingOK'
  BY <1>1, <1>2, <1>4, <1>6, <1>7
<1>9. /\ Contents' \in Seq(Item) /\ Len(Contents') = count + 1
      /\ \A i \in 1 .. count + 1 : Contents'[i] = buffer'[Place(head, i)]
  BY <1>8, ContentsFactsNext
<1>10. /\ Append(Contents, x) \in Seq(Item) /\ Len(Append(Contents, x)) = count + 1
       /\ Append(Contents, x)[count + 1] = x
       /\ \A i \in 1 .. count : Append(Contents, x)[i] = Contents[i]
  BY ContentsFacts, AppendProperties
<1>11. \A i \in 1 .. count + 1 : Contents'[i] = Append(Contents, x)[i]
  <2> SUFFICES ASSUME NEW i \in 1 .. count + 1 PROVE Contents'[i] = Append(Contents, x)[i]
    OBVIOUS
  <2>1. CASE i = count + 1 BY <1>5, <1>9, <1>10, <2>1
  <2>2. CASE i \in 1 .. count
    <3>1. i \in 1 .. count + 1 /\ i # count + 1 /\ Contents[i] = buffer[Place(head, i)]
      BY <1>1, <2>2, ContentsFacts
    <3> QED BY <1>5, <1>9, <1>10, <2>2, <3>1
  <2>3. i = count + 1 \/ i \in 1 .. count
    BY <1>1
  <2> QED BY <2>1, <2>2, <2>3
<1> QED BY <1>8, <1>9, <1>10, <1>11, SeqEqual

(* A pop takes the first of the contents.                                  *)
LEMMA TakeFacts ==
    ASSUME RingOK, count > 0, taken' = Append(taken, buffer[head]),
           head' = (head + 1) % Capacity, count' = count - 1,
           UNCHANGED <<tail, isActive, buffer>>
    PROVE  /\ RingOK' /\ Contents # <<>> /\ buffer[head] = Head(Contents)
           /\ Contents' = Tail(Contents)
<1> USE DEF RingOK
<1>1. Capacity \in Nat \ {0} /\ count \in Nat /\ 1 \in 1 .. count
  BY QueueAssumption
<1>2. Place(head, 1) = head /\ head' \in Cell
  BY Places
<1>3. \A i \in 1 .. Capacity : Place(head', i) = Place(head, i + 1)
  BY Places
<1>4. \A i \in 1 .. count' : i \in 1 .. Capacity /\ i + 1 \in 1 .. count
  BY <1>1
<1>5. \A i \in 1 .. count' : buffer'[Place(head', i)] = buffer[Place(head, i + 1)]
  BY <1>3, <1>4
<1>6. \A i \in 1 .. count' : buffer'[Place(head', i)] \in Item
  BY <1>4, <1>5
<1>7. tail' = (head' + count') % Capacity
  <2>1. (head + count) % Capacity = Place(head, count + 1)
    BY <1>1, Places
  <2>2. Place(head', count) = Place(head, count + 1)
    BY <1>1, <1>3
  <2>3. (head' + count') % Capacity = Place(head', count' + 1)
    <3>1. count' \in 0 .. Capacity
      BY <1>1
    <3> QED BY <1>2, <3>1, Places
  <2>4. count' + 1 = count
    BY <1>1
  <2> QED BY <2>1, <2>2, <2>3, <2>4
<1>8. buffer[head] \in Item
  BY <1>1, <1>2
<1>9. RingOK'
  <2>1. taken' \in Seq(Item)
    BY <1>8, AppendProperties
  <2>2. count' \in 0 .. Capacity
    BY <1>1
  <2> QED BY <1>2, <1>6, <1>7, <2>1, <2>2
<1>10. /\ Contents # <<>> /\ buffer[head] = Head(Contents)
       /\ Tail(Contents) \in Seq(Item) /\ Len(Tail(Contents)) = count - 1
       /\ \A i \in 1 .. count - 1 : Tail(Contents)[i] = Contents[i + 1]
  <2>1. Contents \in Seq(Item) /\ Len(Contents) = count /\ Contents # <<>>
    BY <1>1, ContentsFacts, EmptySeq
  <2>2. Contents[1] = buffer[head]
    BY <1>1, <1>2, ContentsFacts
  <2> QED BY <2>1, <2>2, TailAt
<1>11. /\ Contents' \in Seq(Item) /\ Len(Contents') = count'
       /\ \A i \in 1 .. count' : Contents'[i] = buffer'[Place(head', i)]
  BY <1>9, ContentsFactsNext
<1>12. \A i \in 1 .. count' : Contents'[i] = Tail(Contents)[i]
  BY <1>4, <1>5, <1>10, <1>11, ContentsFacts
<1> QED BY <1>9, <1>10, <1>11, <1>12, SeqEqual

-----------------------------------------------------------------------------
(* The inductive invariant behind both results.                            *)
QueueInv == RingOK /\ ThreadsOK

(* An empty queue satisfies the invariant.                                 *)
LEMMA QueueInvInit == Init => QueueInv
<1> SUFFICES ASSUME Init PROVE QueueInv
  OBVIOUS
<1>1. Capacity \in Nat \ {0} /\ MaxItems \in Nat /\ 0 \in Cell
  BY QueueAssumption DEF Cell
<1>2. (0 + 0) % Capacity = 0
  BY <1>1
<1>3. <<>> \in Seq(Item)
  BY EmptySeq
<1>4. RingOK
  BY <1>1, <1>2, <1>3 DEF Init, RingOK
<1>5. ThreadsOK
  BY <1>1 DEF Init, ThreadsOK
<1> QED BY <1>4, <1>5 DEF QueueInv

(* The two operations that change the ring, as they do it.                 *)
LEMMA StepFacts ==
    ASSUME QueueInv
    PROVE  /\ \A p \in Producer : PushStores(p) =>
                  /\ <<p, next[p]>> \in Item
                  /\ RingOK' /\ Contents' = Append(Contents, <<p, next[p]>>)
           /\ \A c \in Consumer : PopTakes(c) =>
                  /\ RingOK' /\ Contents # <<>> /\ buffer[head] = Head(Contents)
                  /\ Contents' = Tail(Contents)
<1>1. ASSUME NEW p \in Producer, PushStores(p)
      PROVE  /\ <<p, next[p]>> \in Item
             /\ RingOK' /\ Contents' = Append(Contents, <<p, next[p]>>)
  <2>1. <<p, next[p]>> \in Item
    BY <1>1, QueueAssumption DEF PushStores, Pushing, QueueInv, ThreadsOK, Item
  <2>2. /\ count < Capacity /\ buffer' = [buffer EXCEPT ![tail] = <<p, next[p]>>]
        /\ tail' = (tail + 1) % Capacity /\ count' = count + 1
        /\ UNCHANGED <<head, isActive, taken>>
    BY <1>1 DEF PushStores
  <2> QED BY <2>1, <2>2, StoreFacts DEF QueueInv
<1>2. ASSUME NEW c \in Consumer, PopTakes(c)
      PROVE  /\ RingOK' /\ Contents # <<>> /\ buffer[head] = Head(Contents)
             /\ Contents' = Tail(Contents)
  <2>1. /\ count > 0 /\ taken' = Append(taken, buffer[head])
        /\ head' = (head + 1) % Capacity /\ count' = count - 1
        /\ UNCHANGED <<tail, isActive, buffer>>
    BY <1>2 DEF PopTakes
  <2> QED BY <2>1, TakeFacts DEF QueueInv
<1> QED BY <1>1, <1>2

(* Every step keeps the fields in agreement.                               *)
LEMMA RingNext ==
    ASSUME QueueInv, [Next]_vars
    PROVE  RingOK'
<1>1. CASE UNCHANGED <<ring, taken>>
  BY <1>1 DEF QueueInv, RingOK, ring
<1>2. CASE Destroy
  BY <1>2 DEF QueueInv, RingOK, Destroy
<1> QED
  BY <1>1, <1>2, StepFacts
     DEF Next, vars, Push, PushWaits, PushDropped, Pop, PopWaits, PopNull, SpuriousWakeup

(* Every step keeps the types of the threads' states.                      *)
LEMMA ThreadsNext ==
    ASSUME ThreadsOK, [Next]_vars
    PROVE  ThreadsOK'
<1> USE DEF ThreadsOK, InPc, Signal
<1>1. ASSUME NEW p \in Producer, Push(p) PROVE ThreadsOK'
  <2>1. pc' \in [Thread -> {"ready", "waiting", "woken", "done"}]
    BY <1>1 DEF Push, PushWaits, PushDropped, PushStores
  <2>2. next' \in [Producer -> 1 .. MaxItems + 1]
    <3>1. next' = next \/ (next[p] <= MaxItems /\ next' = [next EXCEPT ![p] = @ + 1])
      BY <1>1 DEF Push, PushWaits, PushDropped, PushStores, Pushing
    <3> QED BY <3>1, QueueAssumption
  <2> QED BY <2>1, <2>2
<1>2. ASSUME NEW c \in Consumer, Pop(c) PROVE ThreadsOK'
  BY <1>2 DEF Pop, PopWaits, PopNull, PopTakes
<1>3. CASE Destroy BY <1>3 DEF Destroy
<1>4. CASE SpuriousWakeup BY <1>4 DEF SpuriousWakeup
<1>5. CASE UNCHANGED vars BY <1>5 DEF vars
<1> QED BY <1>1, <1>2, <1>3, <1>4, <1>5 DEF Next

(* The fields of the queue agree in every reachable state.                 *)
THEOREM QueueInvariant == Spec => []QueueInv
<1>1. QueueInv /\ [Next]_vars => QueueInv'
  BY RingNext, ThreadsNext DEF QueueInv
<1> QED BY <1>1, QueueInvInit, PTL DEF Spec

-----------------------------------------------------------------------------
(* The refinement: the initial states ...                                  *)
LEMMA FifoInit == Init => Fifo!Init
<1> SUFFICES ASSUME Init PROVE Contents = <<>> /\ taken = <<>> /\ isActive = TRUE
  BY DEF Fifo!Init
<1>1. Contents \in Seq(Item) /\ Len(Contents) = 0
  BY QueueInvInit, ContentsFacts DEF Init, QueueInv
<1> QED BY <1>1, EmptySeq DEF Init

(* ... and the steps: a push that stores is a Put, a pop that takes is a   *)
(* Take, itc_queue_destroy is Close, and the rest leaves the queue alone.  *)
LEMMA FifoStep ==
    ASSUME QueueInv, [Next]_vars
    PROVE  [Fifo!Next]_<<Contents, taken, isActive>>
<1>1. ASSUME UNCHANGED <<head, count, buffer>> PROVE Contents' = Contents
  BY <1>1, ContentsRing
<1>2. CASE UNCHANGED <<ring, taken>>
  BY <1>1, <1>2 DEF ring
<1>3. ASSUME NEW p \in Producer, PushStores(p)
      PROVE  Fifo!Put(<<p, next[p]>>) /\ <<p, next[p]>> \in Item
  BY <1>3, StepFacts, ContentsFacts DEF PushStores, Fifo!Put, QueueInv
<1>4. ASSUME NEW c \in Consumer, PopTakes(c) PROVE Fifo!Take
  BY <1>4, StepFacts DEF PopTakes, Fifo!Take
<1>5. ASSUME Destroy PROVE Fifo!Close
  BY <1>1, <1>5 DEF Destroy, Fifo!Close
<1> QED
  BY <1>2, <1>3, <1>4, <1>5
     DEF Next, vars, Push, PushWaits, PushDropped, Pop, PopWaits, PopNull, SpuriousWakeup, Fifo!Next

(* The ring implements the bounded first-in first-out queue: what is taken *)
(* is what was put, in that order, nothing twice and nothing else, and     *)
(* destroying the queue keeps what is in it.                               *)
THEOREM RingImplementsFifo == Spec => ImplementsFifo
BY FifoInit, FifoStep, QueueInvariant, PTL DEF Spec, ImplementsFifo, Fifo!Spec

-----------------------------------------------------------------------------
(* The inductive form of NoLostWakeup: nobody sleeps on an inactive queue, *)
(* so a push that is dropped wakes nobody and need not.                    *)
Wakeups == NoLostWakeup /\ (~isActive => InPc(Thread, "waiting") = {})

(* Counting with one element more or less.                                 *)
LEMMA OneMoreOrLess ==
    ASSUME NEW S, IsFiniteSet(S), NEW x
    PROVE  /\ Cardinality(S) \in Nat
           /\ x \notin S => Cardinality(S \cup {x}) = Cardinality(S) + 1
           /\ Cardinality(S \cup {x}) >= Cardinality(S)
           /\ Cardinality(S \ {x}) >= Cardinality(S) - 1
<1>1. Cardinality(S) \in Nat
  BY FS_CardinalityType
<1>2. Cardinality(S \cup {x}) = IF x \in S THEN Cardinality(S) ELSE Cardinality(S) + 1
  BY FS_AddElement
<1>3. Cardinality(S \ {x}) = IF x \in S THEN Cardinality(S) - 1 ELSE Cardinality(S)
  BY FS_RemoveElement
<1> QED BY <1>1, <1>2, <1>3

(* There are finitely many threads.                                        *)
LEMMA WokenFinite ==
    /\ IsFiniteSet(InPc(Consumer, "woken")) /\ IsFiniteSet(InPc(Producer, "woken"))
    /\ Cardinality(InPc(Consumer, "woken")) \in Nat /\ Cardinality(InPc(Producer, "woken")) \in Nat
BY QueueAssumption, FS_Subset, FS_CardinalityType DEF InPc

(* One thread t of U goes on to be ready and signals to the threads T:     *)
(* where T has sleepers one more of it is awake, and of U at most one less.*)
LEMMA Signalling ==
    ASSUME ThreadsOK, NEW T, NEW U, T \subseteq Thread, U \subseteq Thread, T \cap U = {},
           IsFiniteSet(InPc(T, "woken")), IsFiniteSet(InPc(U, "woken")),
           NEW t \in U, pc[t] \in {"ready", "woken"}, Signal(T, t, "ready")
    PROVE  /\ InPc(T, "waiting")' # {} =>
                 /\ InPc(T, "waiting") # {}
                 /\ Cardinality(InPc(T, "woken")') = Cardinality(InPc(T, "woken")) + 1
           /\ InPc(U, "waiting")' = InPc(U, "waiting")
           /\ Cardinality(InPc(U, "woken")') >= Cardinality(InPc(U, "woken")) - 1
<1> USE DEF ThreadsOK
<1>1. CASE InPc(T, "waiting") = {}
  <2>1. pc' = [pc EXCEPT ![t] = "ready"]
    BY <1>1 DEF Signal
  <2>2. /\ InPc(T, "waiting")' = {} /\ InPc(U, "waiting")' = InPc(U, "waiting")
        /\ InPc(U, "woken")' = InPc(U, "woken") \ {t}
    BY <1>1, <2>1 DEF InPc
  <2> QED BY <2>2, OneMoreOrLess
<1>2. CASE InPc(T, "waiting") # {}
  <2> PICK u \in InPc(T, "waiting") : pc' = [pc EXCEPT ![t] = "ready", ![u] = "woken"]
    BY <1>2 DEF Signal
  <2>1. /\ InPc(T, "woken")' = InPc(T, "woken") \cup {u} /\ u \notin InPc(T, "woken")
        /\ InPc(U, "waiting")' = InPc(U, "waiting")
        /\ InPc(U, "woken")' = InPc(U, "woken") \ {t}
    BY DEF InPc
  <2> QED BY <1>2, <2>1, OneMoreOrLess
<1> QED BY <1>1, <1>2

(* Every step keeps it: who takes an item or a cell was awake, and who     *)
(* adds one wakes a sleeper.                                               *)
LEMMA WakeupsNext ==
    ASSUME QueueInv, Wakeups, [Next]_vars
    PROVE  Wakeups'
<1> DEFINE CW == InPc(Consumer, "waiting")
           CK == Cardinality(InPc(Consumer, "woken"))
           PW == InPc(Producer, "waiting")
           PK == Cardinality(InPc(Producer, "woken"))
<1>1. /\ Producer \subseteq Thread /\ Consumer \subseteq Thread /\ Producer \cap Consumer = {}
      /\ count \in Nat /\ Capacity \in Nat /\ CK \in Nat /\ PK \in Nat /\ CK' \in Nat /\ PK' \in Nat
      /\ ThreadsOK
      /\ Consumer \cap Producer = {}
  <2>1. CK' \in Nat /\ PK' \in Nat
    BY QueueAssumption, FS_Subset, FS_CardinalityType DEF InPc
  <2> QED BY <2>1, QueueAssumption, WokenFinite DEF Thread, QueueInv, RingOK
<1>2. /\ CW # {} => CK >= count
      /\ PW # {} => PK >= Capacity - count
      /\ ~isActive => CW = {} /\ PW = {}
  BY <1>1 DEF Wakeups, NoLostWakeup, InPc
<1>3. SUFFICES /\ CW' # {} => CK' >= count'
               /\ PW' # {} => PK' >= Capacity - count'
               /\ ~isActive' => CW' = {} /\ PW' = {}
  BY <1>1 DEF Wakeups, NoLostWakeup, InPc, Thread
<1> USE DEF ThreadsOK
<1>4. ASSUME NEW p \in Producer, PushWaits(p) \/ PushDropped(p)
      PROVE  /\ CW' # {} => CK' >= count'
             /\ PW' # {} => PK' >= Capacity - count'
             /\ ~isActive' => CW' = {} /\ PW' = {}
  <2>1. InPc(Consumer, "waiting")' = InPc(Consumer, "waiting")
        /\ InPc(Consumer, "woken")' = InPc(Consumer, "woken")
    BY <1>1, <1>4 DEF PushWaits, PushDropped, InPc
  <2>2. CASE PushWaits(p)
    BY <1>1, <1>2, <2>1, <2>2 DEF PushWaits, ring
  <2>3. CASE PushDropped(p)
    <3>1. PW' = {} /\ CW' = {}
      BY <1>1, <1>2, <2>1, <2>3 DEF PushDropped, InPc
    <3> QED BY <3>1
  <2> QED BY <1>4, <2>2, <2>3
<1>5. ASSUME NEW p \in Producer, PushStores(p)
      PROVE  /\ CW' # {} => CK' >= count'
             /\ PW' # {} => PK' >= Capacity - count'
             /\ ~isActive' => CW' = {} /\ PW' = {}
  <2>1. /\ pc[p] \in {"ready", "woken"} /\ Signal(Consumer, p, "ready")
        /\ count' = count + 1 /\ isActive /\ isActive' = isActive
    BY <1>5 DEF PushStores, Pushing
  <2>2. /\ CW' # {} => CW # {} /\ CK' = CK + 1
        /\ PW' = PW /\ PK' >= PK - 1
    BY <1>1, <2>1, Signalling, WokenFinite
  <2> QED BY <1>1, <1>2, <2>1, <2>2
<1>6. ASSUME NEW c \in Consumer, PopWaits(c) \/ PopNull(c)
      PROVE  /\ CW' # {} => CK' >= count'
             /\ PW' # {} => PK' >= Capacity - count'
             /\ ~isActive' => CW' = {} /\ PW' = {}
  <2>1. InPc(Producer, "waiting")' = InPc(Producer, "waiting")
        /\ InPc(Producer, "woken")' = InPc(Producer, "woken")
    BY <1>1, <1>6 DEF PopWaits, PopNull, InPc
  <2>2. CASE PopWaits(c)
    BY <1>1, <1>2, <2>1, <2>2 DEF PopWaits, ring
  <2>3. CASE PopNull(c)
    <3>1. PW' = {} /\ CW' = {}
      BY <1>1, <1>2, <2>1, <2>3 DEF PopNull, InPc
    <3> QED BY <3>1
  <2> QED BY <1>6, <2>2, <2>3
<1>7. ASSUME NEW c \in Consumer, PopTakes(c)
      PROVE  /\ CW' # {} => CK' >= count'
             /\ PW' # {} => PK' >= Capacity - count'
             /\ ~isActive' => CW' = {} /\ PW' = {}
  <2>1. /\ pc[c] \in {"ready", "woken"} /\ Signal(Producer, c, "ready")
        /\ count' = count - 1 /\ isActive' = isActive
    BY <1>7 DEF PopTakes, Popping
  <2>2. /\ PW' # {} => PW # {} /\ PK' = PK + 1
        /\ CW' = CW /\ CK' >= CK - 1
    BY <1>1, <2>1, Signalling, WokenFinite
  <2> QED BY <1>1, <1>2, <2>1, <2>2
<1>8. CASE Destroy
  <2>1. CW' = {} /\ PW' = {}
    BY <1>1, <1>8 DEF Destroy, InPc
  <2> QED BY <2>1
<1>9. CASE SpuriousWakeup
  <2> PICK t \in InPc(Thread, "waiting") : pc' = [pc EXCEPT ![t] = "woken"]
    BY <1>9 DEF SpuriousWakeup
  <2>1. CW' \subseteq CW /\ PW' \subseteq PW /\ UNCHANGED <<count, isActive>>
    BY <1>1, <1>9 DEF SpuriousWakeup, InPc, ring
  <2>2. CK' >= CK /\ PK' >= PK
    <3>1. \/ InPc(Consumer, "woken")' = InPc(Consumer, "woken")
          \/ InPc(Consumer, "woken")' = InPc(Consumer, "woken") \cup {t}
      BY <1>1 DEF InPc
    <3>2. \/ InPc(Producer, "woken")' = InPc(Producer, "woken")
          \/ InPc(Producer, "woken")' = InPc(Producer, "woken") \cup {t}
      BY <1>1 DEF InPc
    <3>3. /\ Cardinality(InPc(Consumer, "woken") \cup {t}) >= CK
          /\ Cardinality(InPc(Producer, "woken") \cup {t}) >= PK
      BY WokenFinite, OneMoreOrLess
    <3>4. CK \in Nat /\ PK \in Nat
      BY <1>1
    <3>5. CK' >= CK
      BY <3>1, <3>3, <3>4
    <3>6. PK' >= PK
      BY <3>2, <3>3, <3>4
    <3> QED BY <3>5, <3>6
  <2> QED BY <1>1, <1>2, <2>1, <2>2
<1>10. CASE UNCHANGED vars
  <2>1. CW' = CW /\ CK' = CK /\ PW' = PW /\ PK' = PK /\ UNCHANGED <<count, isActive>>
    BY <1>10 DEF vars, ring, InPc
  <2> QED BY <1>2, <2>1
<1> QED
  BY <1>4, <1>5, <1>6, <1>7, <1>8, <1>9, <1>10 DEF Next, Push, Pop

(* A sleeper is never left behind: while a consumer sleeps there are as    *)
(* many on their way as items, and while a producer sleeps as many as free *)
(* cells, for any number of threads and any capacity.                      *)
THEOREM NoWakeupLost == Spec => []NoLostWakeup
<1>1. Init => Wakeups
  <2> SUFFICES ASSUME Init PROVE Wakeups
    OBVIOUS
  <2>1. InPc(Thread, "waiting") = {} /\ InPc(Producer, "waiting") = {} /\ InPc(Consumer, "waiting") = {}
    BY DEF Init, InPc, Thread
  <2> QED BY <2>1 DEF Wakeups, NoLostWakeup
<1>2. QueueInv /\ Wakeups /\ [Next]_vars => Wakeups'
  BY WakeupsNext
<1>3. Wakeups => NoLostWakeup
  BY DEF Wakeups
<1> QED BY <1>1, <1>2, <1>3, QueueInvariant, PTL DEF Spec
=============================================================================
