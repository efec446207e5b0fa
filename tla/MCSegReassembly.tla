-------------------------- MODULE MCSegReassembly --------------------------
(* Instance of SegReassembly for TLC: the constants come from the .cfg files. *)
EXTENDS SegReassembly
=============================================================================
