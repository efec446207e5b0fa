---------------------------- MODULE MCAerialOai ----------------------------
(* Instance of AerialOai for TLC: the constants come from the .cfg files. *)
EXTENDS AerialOai
=============================================================================
