---------------------------- MODULE BoundedFifo ----------------------------
(***************************************************************************)
(* What the inter-thread queue promises to the threads that share it: a    *)
(* first-in first-out queue of bounded length that can be closed once.  A  *)
(* closed queue takes no more items and still gives those it has.          *)
(***************************************************************************)
EXTENDS Integers, Sequences

CONSTANTS Item, Capacity

VARIABLES contents,   \* the items in the queue, the oldest first
          taken,      \* the items taken so far, in that order
          open

Init == contents = <<>> /\ taken = <<>> /\ open = TRUE

Put(x) ==
    /\ open /\ Len(contents) < Capacity
    /\ contents' = Append(contents, x)
    /\ UNCHANGED <<taken, open>>

Take ==
    /\ contents # <<>>
    /\ contents' = Tail(contents) /\ taken' = Append(taken, Head(contents))
    /\ UNCHANGED open

Close == open' = FALSE /\ UNCHANGED <<contents, taken>>

Next == (\E x \in Item : Put(x)) \/ Take \/ Close

Spec == Init /\ [][Next]_<<contents, taken, open>>
=============================================================================
