--------------------------- MODULE MCCellBringup ---------------------------
(* Instance of CellBringup for TLC: the configurations OCUDU-L2 asks for.  *)
(* A pattern has at most one slot of both directions, as the translation   *)
(* expects, and its period divides the frame.                              *)
EXTENDS CellBringup

Tdd(period, dl, dlSym, ul, ulSym) ==
    {[period |-> period, dl |-> dl, dlSym |-> dlSym, ul |-> ul, ulSym |-> ulSym]}

(* 30 kHz, a pattern of 5 ms *)
Midband ==
    [mu |-> 1, tdd |-> Tdd(10, 7, 6, 2, 4), ssb |-> {0, 3}, ssbPeriod |-> 20, arfcn |-> 627340,
     grid |-> 51, longPrach |-> TRUE, zcc |-> 12]

(* 120 kHz, a pattern of 0.625 ms and beams in both masks *)
Mmwave ==
    [mu |-> 3, tdd |-> Tdd(5, 3, 10, 1, 2), ssb |-> {0, 31, 32, 63}, ssbPeriod |-> 5,
     arfcn |-> 2070833, grid |-> 66, longPrach |-> FALSE, zcc |-> 8]

(* 15 kHz, FDD *)
Lowband ==
    [mu |-> 0, tdd |-> {}, ssb |-> {0}, ssbPeriod |-> 160, arfcn |-> 158000, grid |-> 25,
     longPrach |-> TRUE, zcc |-> 1]

MCConfigs == {Midband, Mmwave, Lowband}

(* These are configurations that config_request.c keeps.                   *)
ASSUME MCConfigsKept == \A c \in MCConfigs : WellFormed(c)
=============================================================================
