----------------------------- MODULE CellConfig -----------------------------
(***************************************************************************)
(* What CONFIG.request makes of a cell: the translation of OCUDU-L2's      *)
(* cell_configuration into the request for L1                              *)
(* (translation/.../L2_to_L1/P5/config_request.c, the same for Aerial and    *)
(* OAI but for the P7 address OAI is also told), and what OCUDU-L2 means   *)
(* by that configuration.                                                  *)
(*                                                                         *)
(* A configuration keeps the fields that are converted: [mu, tdd, ssb,     *)
(* ssbPeriod, arfcn, grid, longPrach, zcc], where tdd is {} (FDD) or       *)
(* {[period, dl, dlSym, ul, ulSym]}.                                       *)
(*                                                                         *)
(* A definition no other one uses is a changed form of the one that        *)
(* follows it, the way a slip in the C code would change it.               *)
(***************************************************************************)
EXTENDS Integers

SLOTS_PER_FRAME == [mu \in 0 .. 4 |-> 10 * 2 ^ mu]
NR_SYMBOLS_PER_SLOT == 14
Symbol == 0 .. NR_SYMBOLS_PER_SLOT - 1

(* slot_config *)
DL    == 0
UL    == 1
Guard == 2

(* arfcn_to_khz, TS 38.104 5.4.2.1 *)
ArfcnToKhz(arfcn) ==
    IF arfcn < 600000 THEN 5 * arfcn
    ELSE IF arfcn < 2016667 THEN 3000000 + 15 * (arfcn - 600000)
    ELSE 24250080 + 60 * (arfcn - 2016667)

HalfCarrier(c) == c.grid * 6 * (15 * 2 ^ c.mu)

(* ocudu_ssb_period_ms_to_nfapi: 10 ms for what the enumeration lacks      *)
SsbPeriodIndex(ms) ==
    IF \E i \in 0 .. 5 : 5 * 2 ^ i = ms THEN CHOOSE i \in 0 .. 5 : 5 * 2 ^ i = ms ELSE 1

(* nFAPI tdd_period, in microseconds *)
TddPeriod == [i \in 0 .. 8 |-> <<500, 625, 1000, 1250, 2000, 2500, 5000, 10000, 20000>>[i + 1]]

(* tdd_period_to_enum: 5 ms for what the enumeration lacks *)
TddPeriodIndex(slots, mu) ==
    LET us == (slots * 1000) \div 2 ^ mu
    IN  IF \E i \in 0 .. 8 : TddPeriod[i] = us THEN CHOOSE i \in 0 .. 8 : TddPeriod[i] = us ELSE 6

(* The two 32-bit masks, as the sets of their bits: SSB 0 is bit 31 of the *)
(* first.                                                                  *)
SsbMask(ssb) == <<{31 - i : i \in ssb \cap (0 .. 31)}, {63 - i : i \in ssb \cap (32 .. 63)}>>

(* N_CS of the zeroCorrelationZoneConfig, TS 38.211 tables 6.3.3.1-5, -7   *)
Ncs(c) ==
    (IF c.longPrach
     THEN <<0, 13, 15, 18, 22, 26, 32, 38, 46, 59, 76, 93, 119, 167, 279, 419>>
     ELSE <<0, 2, 4, 6, 8, 10, 12, 13, 15, 17, 19, 23, 27, 34, 46, 69>>)
        [IF c.zcc < 16 THEN c.zcc + 1 ELSE 1]

PrachLength(c) == IF c.longPrach THEN 839 ELSE 139

(* prach_num_root_sequences *)
NumRootSequences(c) ==
    LET perSeq == IF Ncs(c) = 0 THEN PrachLength(c) ELSE PrachLength(c) \div Ncs(c)
    IN  (64 + perSeq - 1) \div perSeq

SlotConfigLateUplink(p, s, k) ==
    LET ps == s % p.period
    IN  IF ps < p.dl THEN DL
        ELSE IF ps > p.period - p.ul THEN UL
        ELSE IF ps # p.dl THEN Guard
        ELSE IF k < p.dlSym THEN DL
        ELSE IF k >= NR_SYMBOLS_PER_SLOT - p.ulSym THEN UL
        ELSE Guard

(* The pattern of one period, tiled over the frame *)
SlotConfig(p, s, k) ==
    LET ps == s % p.period
    IN  IF ps < p.dl THEN DL
        ELSE IF ps >= p.period - p.ul THEN UL
        ELSE IF ps # p.dl THEN Guard
        ELSE IF k < p.dlSym THEN DL
        ELSE IF k >= NR_SYMBOLS_PER_SLOT - p.ulSym THEN UL
        ELSE Guard

TddTable(c) ==
    {[period |-> TddPeriodIndex(p.period, c.mu),
      slots  |-> [s \in 0 .. SLOTS_PER_FRAME[c.mu] - 1 |-> [k \in Symbol |-> SlotConfig(p, s, k)]]] :
     p \in c.tdd}

ConfigRequest(c) ==
    [scs |-> c.mu, pointA |-> ArfcnToKhz(c.arfcn) - HalfCarrier(c), grid |-> c.grid,
     ssbPeriod |-> SsbPeriodIndex(c.ssbPeriod), ssbMask |-> SsbMask(c.ssb),
     roots |-> NumRootSequences(c), tdd |-> TddTable(c)]

-----------------------------------------------------------------------------
(* The meaning of a configuration.                                         *)

(* TS 38.213 11.1: downlink from the start of a period, uplink up to its   *)
(* end, for ever.                                                          *)
Direction(p, slot, k) ==
    LET ps == slot % p.period
    IN  IF ps < p.dl \/ (ps = p.dl /\ k < p.dlSym) THEN DL
        ELSE IF ps >= p.period - p.ul
                \/ (ps = p.period - p.ul - 1 /\ k >= NR_SYMBOLS_PER_SLOT - p.ulSym) THEN UL
        ELSE Guard

(* L1 configured with r takes each symbol of every slot for what OCUDU-L2  *)
(* takes it for, over frames that follow one another.                      *)
SameDirections(c, r) ==
    \A p \in c.tdd : \E t \in r.tdd :
        /\ TddPeriod[t.period] * 2 ^ c.mu = p.period * 1000
        /\ \A slot \in 0 .. 2 * SLOTS_PER_FRAME[c.mu] - 1, k \in Symbol :
              t.slots[slot % SLOTS_PER_FRAME[r.scs]][k] = Direction(p, slot, k)

(* TS 38.211 6.3.3.1: a root sequence has one preamble without cyclic      *)
(* shifts, when N_CS is 0.                                                 *)
PreamblesPerRoot(c) == IF Ncs(c) = 0 THEN 1 ELSE PrachLength(c) \div Ncs(c)

(* "Number of PRACH root sequences needed to cover 64 preambles"           *)
PreamblesCovered(c, r) == r.roots * PreamblesPerRoot(c) >= 64

SameCell(c, r) ==
    /\ r.scs = c.mu /\ (r.tdd = {} <=> c.tdd = {})
    /\ SameDirections(c, r)
    /\ c.ssb = {31 - b : b \in r.ssbMask[1]} \cup {63 - b : b \in r.ssbMask[2]}
    /\ 5 * 2 ^ r.ssbPeriod = c.ssbPeriod
    /\ r.pointA + r.grid * 6 * (15 * 2 ^ r.scs) = ArfcnToKhz(c.arfcn)
    /\ PreamblesCovered(c, r)

(* The configurations config_request.c keeps.  It looks for a slot of both *)
(* directions right after the downlink slots only, starts a pattern again  *)
(* with each frame, has numbers for some periods only, and counts as many  *)
(* preambles without cyclic shifts (zcc 0) as the sequence is long.        *)
WellFormedPattern(p, mu) ==
    /\ {p.dl, p.dlSym, p.ul, p.ulSym} \subseteq Nat /\ p.dl + p.ul <= p.period
    /\ p.dlSym > 0 => p.dl + p.ul < p.period
    /\ p.ulSym > 0 => p.dl + p.ul + 1 = p.period
    /\ SLOTS_PER_FRAME[mu] % p.period = 0
    /\ \E i \in 0 .. 8 : TddPeriod[i] * 2 ^ mu = p.period * 1000

WellFormed(c) ==
    /\ c.mu \in 0 .. 4 /\ {c.arfcn, c.grid} \subseteq Nat
    /\ \A p \in c.tdd : p.period \in Nat \ {0} /\ WellFormedPattern(p, c.mu)
    /\ c.ssb \subseteq 0 .. 63 /\ \E i \in 0 .. 5 : 5 * 2 ^ i = c.ssbPeriod
    /\ c.zcc \in 1 .. 15
=============================================================================
