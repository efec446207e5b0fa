--------------------------- MODULE P7Indications ---------------------------
(***************************************************************************)
(* Indications of L1 as they are translated for OCUDU-L2:                  *)
(* translation/*/L1_to_L2/P7 and the dispatchers *_l1_to_l2_p7.c.          *)
(*                                                                         *)
(* ind: [msg, time, reports, cut]; a report is of the PDU handle, of UCI   *)
(* kind uci, and has what L1 measured: crc, harq, cqi, ta and the size tb  *)
(* of the transport block.  cut: the message ends before its last report.  *)
(* A translator gives what it puts on the ring of OCUDU-L2: nothing, or    *)
(* one message.                                                            *)
(***************************************************************************)
EXTENDS P7Requests

CONSTANTS BodyReports,     \* CRC, RACH and SRS reports that fit body[4096]
          OaiBodyUcis,     \* UCI reports that fit body[4096]
          AerialBodyUcis,  \* and body[8192]
          OaiMaxRxTb,      \* OCUDU_RXDATA_MAX_TB_BYTES
          AerialMaxRxTb,   \* AERIAL_RXDATA_MAX_TB_BYTES
          InvalidTa        \* timing_advance 0xffff

(* cell_numerology, as latched from CONFIG.request, when it is one. *)
Numerology(latched)       == IF latched \in 0 .. 4 THEN latched ELSE 1
AerialNumerology(latched) == Numerology(latched)

(* ul_cqi is 128 + 2 * SNR; OCUDU-L2 counts in 0.002 dB. *)
SinrMetric(cqi) ==
    LET m == (cqi - 128) * 250
    IN  IF m > 32767 THEN 32767 ELSE IF m < -32767 THEN -32767 ELSE m
AerialSinrMetric(cqi) == SinrMetric(cqi)

(* Tc from ta * 16 * 64 / 2^mu *)
TimingAdvance(ta, mu) == IF ta = InvalidTa THEN 0 ELSE (ta * 1024) \div 2 ^ mu

(* {pass, fail, not present} -> {nack, ack, dtx} *)
HarqAsGiven(v)  == IF v < 3 THEN v ELSE 2
HarqVal(v)      == IF v < 3 THEN <<1, 0, 2>>[v + 1] ELSE 2
Detection(crc)  == IF crc = 0 THEN 1 ELSE 2

-----------------------------------------------------------------------------
(* The writer drops what does not fit and remembers that it did. *)

Fits(ind, cap) == Len(ind.reports) <= cap

Put(ind, mu, Report(_)) ==
    <<[msg |-> ind.msg, count |-> Count(ind.time, mu),
       reports |-> [i \in DOMAIN ind.reports |-> Report(ind.reports[i])]]>>

Unless(broken, message) == IF broken THEN Nothing ELSE message

SlotIndication(time, mu) == <<[msg |-> "SLOT", count |-> Count(time, mu), reports |-> <<>>]>>
AerialSlotIndication(time, mu) == SlotIndication(time, mu)

CrcReport(r) == [handle |-> r.handle, ok |-> r.crc = 0, sinr |-> SinrMetric(r.cqi)]
CrcIndication(ind, mu) ==
    Unless(ind.cut \/ ~Fits(ind, BodyReports), Put(ind, mu, CrcReport))
AerialCrcIndication(ind, mu) == CrcIndication(ind, mu)

(* One block too large, or beyond the end, drops those of the others too. *)
RxReport(r) == [handle |-> r.handle, length |-> r.tb]
RxDataOf(ind, mu, maxTb) ==
    Unless(ind.cut \/ \E i \in DOMAIN ind.reports : ind.reports[i].tb > maxTb,
           Put(ind, mu, RxReport))
RxDataIndication(ind, mu)       == RxDataOf(ind, mu, OaiMaxRxTb)
AerialRxDataIndication(ind, mu) == RxDataOf(ind, mu, AerialMaxRxTb)

(* PUCCH formats 0 and 1 report at most two HARQ values, the others one    *)
(* detection status.                                                       *)
UciReport(r) ==
    [handle |-> r.handle, uci |-> r.uci, sinr |-> SinrMetric(r.cqi),
     harq |-> IF r.uci = "F01"
              THEN [i \in 1 .. AtMost(Len(r.harq), 2) |-> HarqVal(r.harq[i])]
              ELSE <<Detection(r.crc)>>]
UciOf(ind, mu, known, cap) ==
    Unless(\/ ind.cut \/ ~Fits(ind, cap)
           \/ \E i \in DOMAIN ind.reports : ind.reports[i].uci \notin known,
           Put(ind, mu, UciReport))
UciIndication(ind, mu)       == UciOf(ind, mu, {"F01", "F234"}, OaiBodyUcis)
AerialUciIndication(ind, mu) == UciOf(ind, mu, {"F01", "F234", "PUSCH"}, AerialBodyUcis)

RachIndication(ind, mu) ==
    LET Report(r) == [ta |-> TimingAdvance(r.ta, mu)]
    IN  Unless(ind.cut \/ ~Fits(ind, BodyReports), Put(ind, mu, Report))
AerialRachIndication(ind, mu) == RachIndication(ind, mu)

(* An invalid timing advance is absent here. *)
AerialSrsIndication(ind, mu) ==
    LET Report(r) == [handle |-> r.handle,
                      ta |-> IF r.ta = InvalidTa THEN <<>> ELSE <<TimingAdvance(r.ta, mu)>>]
    IN  Unless(ind.cut \/ ~Fits(ind, BodyReports), Put(ind, mu, Report))

(* ocudu_p7_translate_to_l2, aerial_p7_translate_to_l2 *)
OaiTranslateToL2(ind, mu) ==
    CASE ind.msg = "CRC"     -> CrcIndication(ind, mu)
      [] ind.msg = "RX_DATA" -> RxDataIndication(ind, mu)
      [] ind.msg = "UCI"     -> UciIndication(ind, mu)
      [] ind.msg = "RACH"    -> RachIndication(ind, mu)
      [] OTHER               -> Nothing

AerialTranslateToL2(ind, mu) ==
    CASE ind.msg = "CRC"     -> AerialCrcIndication(ind, mu)
      [] ind.msg = "RX_DATA" -> AerialRxDataIndication(ind, mu)
      [] ind.msg = "UCI"     -> AerialUciIndication(ind, mu)
      [] ind.msg = "RACH"    -> AerialRachIndication(ind, mu)
      [] ind.msg = "SRS"     -> AerialSrsIndication(ind, mu)
      [] OTHER               -> Nothing
=============================================================================
