------------------------------ MODULE MCOaiVnf ------------------------------
(* Instance of OaiVnf for TLC: the constants come from the .cfg files. *)
EXTENDS OaiVnf
=============================================================================
