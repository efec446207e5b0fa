----------------------------- MODULE P7Requests -----------------------------
(***************************************************************************)
(* Slot requests of OCUDU-L2 as they are translated for L1:                *)
(* translation/*/L2_to_L1/P7 and the dispatchers *_l2_to_l1_p7.c.          *)
(*                                                                         *)
(* A translator gives the messages it sends: none, or one.  Of the many    *)
(* fields copied one by one a PDU keeps those whose meaning changes on the *)
(* way; c is what OCUDU-L2 means, Map...(c) what L1 reads.                 *)
(***************************************************************************)
EXTENDS FapiWire, FiniteSets

CONSTANTS Frames,        \* 1024 radio frames
          Subframes,     \* 10 subframes of a frame
          MaxDlPdus,     \* NFAPI_NR_MAX_DL_TTI_PDUS
          MaxUlPdus,     \* NFAPI_MAX_NUM_UL_PDU
          MaxCoresets,   \* NFAPI_NR_MAX_NB_CORESETS
          MaxTxPdus,     \* NFAPI_NR_MAX_TX_REQUEST_PDUS
          MaxTb,         \* OCUDU_TXDATA_MAX_TB_BYTES
          DciBits,       \* bits of nFAPI's DCI payload: 64
          Carrier,       \* cell_dl_grid: PRBs of the downlink carrier
          Content        \* Content[id]: what OCUDU-L2 means by PDU id

ASSUME SlotsAssumption == Frames \in Nat \ {0} /\ Subframes \in Nat \ {0}
ASSUME LimitsAssumption ==
    /\ {MaxDlPdus, MaxUlPdus, MaxCoresets, MaxTxPdus, MaxTb, DciBits} \subseteq Nat
    /\ Carrier \in Nat \ {0}
ASSUME ContentAssumption ==
    /\ DOMAIN Content \subseteq Nat
    /\ \A id \in DOMAIN Content : LET c == Content[id] IN
           /\ c.mib \in [1 .. 3 -> Nat] /\ c.dci \in Seq({0, 1})
           /\ c.rb \in [1 .. 2 -> Nat] /\ c.crb \in [1 .. 2 -> Nat]
           /\ {c.codewords, c.layers, c.bg, c.rate, c.tb} \subseteq Nat /\ c.dfts \in BOOLEAN

SlotsPerFrame(mu) == Subframes * 2 ^ mu
Count(time, mu)   == time.sfn * SlotsPerFrame(mu) + time.slot
TimeWithoutWrap(count, mu) == [sfn  |-> count \div SlotsPerFrame(mu),
                               slot |-> count % SlotsPerFrame(mu)]
Time(count, mu)   == [sfn  |-> (count \div SlotsPerFrame(mu)) % Frames,
                      slot |-> count % SlotsPerFrame(mu)]

-----------------------------------------------------------------------------
(* Mappers.  Half-open ranges become a start and a length.                 *)

Length(range)  == range[2] - range[1]
Positive(n)    == IF n = 0 THEN 1 ELSE n
AtMost(n, m)   == IF n <= m THEN n ELSE m

(* TS 38.212: code rate in 1/10240, 0 meaning one half; tb in bytes. *)
BaseGraphAsGiven(c) == c.bg
BaseGraph(c) ==
    LET rate == IF c.rate > 0 THEN c.rate ELSE 5120
        bits == 8 * c.tb
    IN  IF c.bg \in {1, 2} THEN c.bg
        ELSE IF \/ bits <= 292
                \/ 100 * rate <= 67 * 10240 /\ bits <= 3824
                \/ 4 * rate <= 10240
             THEN 2 ELSE 1

(* The MIB, most significant byte first; L1 reads the lowest byte first.   *)
MapSsb(c) == [kind |-> "SSB", bchPayload |-> Reverse(c.mib)]

(* Transmitted bit k of the DCI is bit nbits - 1 - k of L1's word.  Only   *)
(* what fits into the word is passed on, but the size stays the DCI's.     *)
FillPdcch(c) ==
    LET nbits == AtMost(Len(c.dci), DciBits)
    IN
    [kind |-> "PDCCH", rbs |-> Length(c.rb), bits |-> Len(c.dci),
     word |-> {nbits - k : k \in {i \in 1 .. nbits : c.dci[i] = 1}},
     cceRegMappingType |-> IF c.mapping = 2 THEN 0 ELSE 1,
     coreSetType |-> IF c.mapping = 0 THEN 0 ELSE 1,
     aggregationLevel |-> 2 ^ c.agg]

MapPdsch(c) ==
    [kind |-> "PDSCH", rbStart |-> c.rb[1], rbSize |-> Length(c.rb),
     nrOfCodewords |-> Positive(AtMost(c.codewords, 2)),
     nrOfLayers |-> Positive(c.layers), ldpcBaseGraph |-> BaseGraph(c)]

(* csi_rs_clamp_nr_of_rbs *)
ClampRbs(start, rbs) ==
    IF Carrier <= 0 THEN rbs
    ELSE IF start >= Carrier THEN 0
    ELSE (AtMost(rbs, Carrier - start) \div 4) * 4

MapCsiRs(c)       == [kind |-> "CSI_RS", startRb |-> c.crb[1], nrOfRbs |-> Length(c.crb)]
AerialMapCsiRs(c) == [MapCsiRs(c) EXCEPT !.nrOfRbs = ClampRbs(c.crb[1], Length(c.crb))]

MapPrach(c) == [kind |-> "PRACH", physCellId |-> c.pci]

MapPusch(c) ==
    [kind |-> "PUSCH", rbStart |-> c.rb[1], rbSize |-> Length(c.rb),
     transformPrecoding |-> IF c.dfts THEN 0 ELSE 1,
     nrOfLayers |-> Positive(c.layers), ldpcBaseGraph |-> BaseGraph(c)]

MapPucch(c) ==
    [kind |-> "PUCCH", prbSize |-> Length(c.rb),
     groupHop |-> IF c.hopping = 1 THEN 1 ELSE 0,
     sequenceHop |-> IF c.hopping = 2 THEN 1 ELSE 0]

MapSrs(c) == [kind |-> "SRS", numSymbols |-> Length(c.symbols)]

(* The mapper of each structure of a DL_TTI and of a UL_TTI PDU. *)
MapDl(k, c) == CASE k = 1 -> FillPdcch(c)
                 [] k = 2 -> MapPdsch(c)
                 [] k = 3 -> MapCsiRs(c)
                 [] k = 4 -> MapSsb(c)
MapUl(k, c) == CASE k = 1 -> MapPrach(c)
                 [] k = 2 -> MapPusch(c)
                 [] k = 3 -> MapPucch(c)
                 [] k = 4 -> MapSrs(c)
AerialMapDl(k, c) == IF k = 3 THEN AerialMapCsiRs(c) ELSE MapDl(k, c)
AerialMapUl(k, c) == MapUl(k, c)

-----------------------------------------------------------------------------
(* What the translators do with the PDUs they captured.  A PDU is known    *)
(* by the marks its structure was read with; fields is a singleton unless  *)
(* the structure was read out of step.                                     *)

(* The elements of s at the positions in I, in their order. *)
Those(s, I) ==
    LET those[i \in 0 .. Len(s)] ==
            IF i = 0 THEN <<>>
            ELSE IF i \in I THEN Append(those[i - 1], s[i]) ELSE those[i - 1]
    IN  those[Len(s)]

Captured(pdus, types, k, cap) ==
    LET those == Those(pdus, {i \in DOMAIN pdus : pdus[i].type \subseteq types})
    IN  [i \in 1 .. AtMost(Len(those), cap) |->
            {id \in DOMAIN Content : those[i].got[k] = {Mark(id, k)}}]

Mapped(Map(_, _), k, captured) ==
    [i \in DOMAIN captured |->
        [id |-> captured[i], fields |-> {Map(k, Content[id]) : id \in captured[i]}]]

(* req: [valid, mu, count, total, wire] *)
Message(msg, req, pdus) == <<[msg |-> msg, time |-> Time(req.count, req.mu), pdus |-> pdus]>>
Nothing == <<>>

FirstPdus(list, cap) == SubSeq(list, 1, AtMost(Len(list), cap))

DlList(Map(_, _), pdus) ==
    LET of(k) == Mapped(Map, k, Captured(pdus, DlTypes[k], k, MaxDlPdus))
    IN  FirstPdus(of(4) \o of(1) \o of(2) \o of(3), MaxDlPdus)

(* A walk out of step leaves an empty DL_TTI, sent all the same. *)
KeptAsRead(req, s) == s.pdus
Kept(req, s)       == IF req.total > 0 /\ ~WalkOk(s, req.wire) THEN <<>> ELSE s.pdus

DlTtiOf(req, pdu, Map(_, _)) ==
    IF ~req.valid THEN Nothing
    ELSE Message("DL_TTI", req,
                 DlList(Map, Kept(req, ReadPdus(pdu, req.total, req.wire))))
DlTti(req)       == DlTtiOf(req, DlPdu, MapDl)
AerialDlTti(req) == DlTtiOf(req, AerialDlPdu, AerialMapDl)

(* A walk out of step, or no PDU to send, drops the others. *)
UlTtiOf(req, pdu, Map(_, _)) ==
    LET s     == ReadPdus(pdu, req.total, req.wire)
        of(k) == Mapped(Map, k, Captured(s.pdus, UlTypes[k], k, MaxUlPdus))
        list  == of(1) \o of(2) \o of(3) \o of(4)
    IN  IF ~req.valid \/ (req.total > 0 /\ ~WalkOk(s, req.wire)) \/ list = <<>> THEN Nothing
        ELSE Message("UL_TTI", req, FirstPdus(list, MaxUlPdus))
UlTti(req)       == UlTtiOf(req, UlPdu, MapUl)
AerialUlTti(req) == UlTtiOf(req, AerialUlPdu, AerialMapUl)

UlDci(req) ==
    LET s    == ReadPdus(UlDciPdu, req.total, req.wire)
        list == Mapped(MapDl, 1, Captured(s.pdus, {}, 1, MaxDlPdus))
    IN  IF ~req.valid \/ (req.total > 0 /\ ~WalkOk(s, req.wire)) \/ list = <<>> THEN Nothing
        ELSE Message("UL_DCI", req, FirstPdus(list, MaxCoresets))
AerialUlDci(req) == UlDci(req)

(* A transport block too large for the nFAPI message is left out. *)
TxData(req) ==
    LET s    == ReadPdus(TxDataPdu, req.total, req.wire)
        list == Mapped(LAMBDA k, c : [kind |-> "TB"], 1, Captured(s.pdus, {}, 1, req.total))
        fits == {i \in DOMAIN list : \A id \in list[i].id : Content[id].tb <= MaxTb}
    IN  IF ~req.valid \/ ~WalkOk(s, req.wire) THEN Nothing
        ELSE Message("TX_DATA", req, FirstPdus(Those(list, fits), MaxTxPdus))
AerialTxData(req) == TxData(req)

(* ocudu_p7_translate_and_send, aerial_p7_translate_and_send: a short      *)
(* header is refused, and a message that is not translated dropped,        *)
(* Aerial's end-of-slot marker among them.                                 *)
OaiTranslate(msg, req) ==
    CASE msg = "DL_TTI"  -> DlTti(req)
      [] msg = "UL_TTI"  -> UlTti(req)
      [] msg = "UL_DCI"  -> UlDci(req)
      [] msg = "TX_DATA" -> TxData(req)
      [] OTHER           -> Nothing

AerialTranslate(msg, req) ==
    CASE msg = "DL_TTI"  -> AerialDlTti(req)
      [] msg = "UL_TTI"  -> AerialUlTti(req)
      [] msg = "UL_DCI"  -> AerialUlDci(req)
      [] msg = "TX_DATA" -> AerialTxData(req)
      [] OTHER           -> Nothing
=============================================================================
