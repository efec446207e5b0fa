--------------------------- MODULE MCOcuduBridge ---------------------------
(* Instance of OcuduBridge for TLC: model values for the buffers of the two *)
(* regions, which no action tells apart, hence the symmetry.                *)
EXTENDS OcuduBridge, TLC

BufferSymmetry == Permutations(L1Buf) \cup Permutations(L2Buf)
=============================================================================
