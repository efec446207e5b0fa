----------------------------- MODULE MCItcQueue -----------------------------
(* Instance of ItcQueue for TLC: the constants come from MCItcQueue.cfg. *)
EXTENDS ItcQueue
=============================================================================
