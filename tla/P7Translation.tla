--------------------------- MODULE P7Translation ---------------------------
(***************************************************************************)
(* Slot processing across the translation: OCUDU-L2 is driven by           *)
(* SLOT.indications, asks for a slot ahead of the last it heard of, and    *)
(* learns from the indications of L1 what became of its uplink grants.     *)
(* pair is the build: OAI-L1 behind UDP, or Aerial-L1 behind nvIPC.        *)
(***************************************************************************)
EXTENDS P7Indications

CONSTANTS Numerologies,  \* numerologies of the cell
          MaxSlot,       \* bound: slots of L1's clock in a behaviour
          Ahead,         \* slots OCUDU-L2 works ahead
          Lists,         \* Lists[msg]: sequences of PDUs [type, id, n] asked for
          Outcomes       \* what L1 may measure: [crc, harq, cqi, ta, tb, uci]

Requests == {"DL_TTI", "UL_TTI", "UL_DCI", "TX_DATA"}

(* A request holds no more PDUs than the nFAPI message has room for. *)
Room(msg) == CASE msg = "UL_TTI"  -> MaxUlPdus
               [] msg = "TX_DATA" -> MaxTxPdus
               [] OTHER           -> MaxDlPdus

ASSUME TimeAssumption == Numerologies \subseteq 0 .. 4 /\ MaxSlot \in Nat /\ Ahead \in Nat
ASSUME ListsAssumption ==
    /\ DOMAIN Lists \subseteq Requests
    /\ \A msg \in DOMAIN Lists : \A pdus \in Lists[msg] :
           /\ pdus \in Seq([type : Nat, id : DOMAIN Content, n : Nat])
           /\ Len(pdus) <= Room(msg)
ASSUME OutcomesAssumption ==
    Outcomes \subseteq [crc : Nat, harq : Seq(Nat), cqi : Nat, ta : Nat, tb : Nat,
                        uci : {"F01", "F234"}]

VARIABLES pair,   \* "OAI", "AERIAL"
          mu,     \* cell_numerology
          now,    \* slots since L1 started
          heard,  \* the slot OCUDU-L2 last heard of and its count: <<>>, <<[at, count]>>
          ring,   \* a request on its way: <<>>, <<[meant, req]>>
          inbox,  \* at L1: <<>>, <<[meant, got]>>
          air,    \* the uplink PDUs L1 received and what it measured
          told    \* what OCUDU-L2 was told of them: <<>>, <<[ind, got]>>
vars == <<pair, mu, now, heard, ring, inbox, air, told>>

TimeOf(at) == [sfn |-> (at \div SlotsPerFrame(mu)) % Frames, slot |-> at % SlotsPerFrame(mu)]

(* pair is fixed when the program is built. *)
Translate(msg, req) ==
    IF pair = "OAI" THEN OaiTranslate(msg, req) ELSE AerialTranslate(msg, req)
TranslateToL2(ind) ==
    IF pair = "OAI" THEN OaiTranslateToL2(ind, Numerology(mu))
    ELSE AerialTranslateToL2(ind, AerialNumerology(mu))
TranslateSlot(time) ==
    IF pair = "OAI" THEN SlotIndication(time, Numerology(mu))
    ELSE AerialSlotIndication(time, AerialNumerology(mu))

Init ==
    /\ pair \in {"OAI", "AERIAL"} /\ mu \in Numerologies
    /\ now = 0 /\ heard = <<>>
    /\ ring = <<>> /\ inbox = <<>> /\ air = <<>> /\ told = <<>>

-----------------------------------------------------------------------------
(* L1: a slot passes.  Its indication is translated, and reaches OCUDU-L2  *)
(* unless it is lost: a UDP datagram, or no free buffer in xsm_put.        *)
L1Slot ==
    /\ now < MaxSlot /\ now' = now + 1
    /\ \/ heard' = <<[at |-> now + 1, count |-> TranslateSlot(TimeOf(now + 1))[1].count]>>
       \/ UNCHANGED heard
    /\ UNCHANGED <<pair, mu, ring, inbox, air, told>>

Damaged(wire, how) ==
    CASE how \in {"none", "invalid"} -> wire
      [] how = "cut"   -> SubSeq(wire, 1, Len(wire) - 1)
      [] how = "extra" -> Append(wire, 0)

PduOf(msg) == CASE msg = "DL_TTI"  -> DlPdu
                [] msg = "UL_TTI"  -> UlPdu
                [] msg = "UL_DCI"  -> UlDciPdu
                [] msg = "TX_DATA" -> TxDataPdu

(* OCUDU-L2 asks for a slot.  how: the message is intact, its slot is not  *)
(* valid, or what it holds is shorter or longer than the translator's idea *)
(* of the format.                                                          *)
L2Request(msg, pdus, how) ==
    /\ heard # <<>> /\ ring = <<>> /\ inbox = <<>> /\ air = <<>> /\ told = <<>>
    /\ how = "cut" => pdus # <<>>
    /\ LET w == Serialize(PduOf(msg), pdus)
       IN  /\ FitsBuffer(w)
           /\ ring' = <<[meant |-> [msg |-> msg, at |-> heard[1].at + Ahead, pdus |-> pdus, how |-> how],
                         req   |-> [valid |-> how # "invalid", mu |-> mu, count |-> heard[1].count + Ahead,
                                    total |-> Len(pdus), wire |-> Damaged(Wire(w), how)]]>>
    /\ UNCHANGED <<pair, mu, now, heard, inbox, air, told>>

(* The forwarder thread translates it. *)
Forward ==
    /\ ring # <<>> /\ ring' = <<>>
    /\ LET out == Translate(ring[1].meant.msg, ring[1].req)
       IN  inbox' = IF out = Nothing THEN <<>>
                    ELSE <<[meant |-> ring[1].meant, got |-> out[1]]>>
    /\ UNCHANGED <<pair, mu, now, heard, air, told>>

(* L1 has no use for a request any more, or never got it. *)
L1Drop ==
    /\ inbox # <<>> /\ inbox' = <<>>
    /\ UNCHANGED <<pair, mu, now, heard, ring, air, told>>

(* L1 receives what it was told to in the slot it was told to. *)
L1Receive(outcome) ==
    /\ inbox # <<>> /\ inbox[1].got.msg = "UL_TTI" /\ inbox[1].got.time = TimeOf(now)
    /\ air' = [i \in DOMAIN inbox[1].got.pdus |->
                  [at |-> now, handle |-> inbox[1].got.pdus[i].id,
                   kind |-> (CHOOSE f \in inbox[1].got.pdus[i].fields : TRUE).kind,
                   outcome |-> outcome[i]]]
    /\ inbox' = <<>>
    /\ UNCHANGED <<pair, mu, now, heard, ring, told>>

Kinds == [CRC |-> {"PUSCH"}, RX_DATA |-> {"PUSCH"}, UCI |-> {"PUCCH", "PUSCH"},
          RACH |-> {"PRACH"}, SRS |-> {"SRS"}]

(* L1 reports; an indication may reach the translator incomplete. *)
Report(a) == [handle |-> a.handle, crc |-> a.outcome.crc, harq |-> a.outcome.harq,
              cqi |-> a.outcome.cqi, ta |-> a.outcome.ta, tb |-> a.outcome.tb,
              uci |-> IF a.kind = "PUSCH" THEN "PUSCH" ELSE a.outcome.uci]

L1Report(msg, cut) ==
    LET those == Those(air, {i \in DOMAIN air : air[i].kind \in Kinds[msg]})
        ind == [msg |-> msg, time |-> TimeOf(those[1].at), cut |-> cut,
                reports |-> [i \in DOMAIN those |-> Report(those[i])]]
    IN  /\ those # <<>> /\ told = <<>>
        /\ told' = <<[ind |-> ind, got |-> TranslateToL2(ind)]>>
        /\ UNCHANGED <<pair, mu, now, heard, ring, inbox, air>>

(* OCUDU-L2 takes note of it, and goes on when it has heard enough. *)
L2Note ==
    /\ told # <<>> /\ told' = <<>>
    /\ UNCHANGED <<pair, mu, now, heard, ring, inbox, air>>
L2Done ==
    /\ air # <<>> /\ told = <<>> /\ air' = <<>>
    /\ UNCHANGED <<pair, mu, now, heard, ring, inbox, told>>

Next ==
    \/ L1Slot \/ Forward \/ L1Drop \/ L2Note \/ L2Done
    \/ \E msg \in DOMAIN Lists : \E pdus \in Lists[msg], how \in {"none", "invalid", "cut", "extra"} :
           L2Request(msg, pdus, how)
    \/ \E outcome \in [1 .. MaxUlPdus -> Outcomes] : L1Receive(outcome)
    \/ \E msg \in DOMAIN Kinds, cut \in BOOLEAN : L1Report(msg, cut)

Spec == Init /\ [][Next]_vars

-----------------------------------------------------------------------------
(* What a request means, in the order L1 is given it: the PDUs of a known  *)
(* type by structure, in the order of the request within one.              *)
Meant(m) ==
    LET of(types) == Those(m.pdus, {i \in DOMAIN m.pdus : m.pdus[i].type \in types})
    IN  CASE m.msg = "DL_TTI" -> of({3}) \o of({0}) \o of({1}) \o of({2})
          [] m.msg = "UL_TTI" -> of({0}) \o of({1, 5}) \o of({2, 3}) \o of({4})
          [] m.msg = "UL_DCI" -> SubSeq(m.pdus, 1, AtMost(Len(m.pdus), MaxCoresets))
          [] m.msg = "TX_DATA" -> Those(m.pdus, {i \in DOMAIN m.pdus : Content[m.pdus[i].id].tb <= MaxTb})

(* The slot in which L1 acts on a request is the one OCUDU-L2 meant, also  *)
(* when the radio frame number wraps between the slot OCUDU-L2 heard of    *)
(* and the one it asks for: the count put into SLOT.indication and the     *)
(* SFN and slot taken out of a request's count are inverse.                *)
SlotAgreement ==
    inbox # <<>> => inbox[1].got.time = TimeOf(inbox[1].meant.at)

(* A request reaches L1 whole or not at all: when the walkers step over an *)
(* intact body, L1 gets each PDU of it once, none built from another's     *)
(* fields; when the walk does not end with the body, L1 gets no PDU, and   *)
(* only a DL_TTI is still sent, empty.                                     *)
WholeOrNothing ==
    inbox # <<>> =>
        LET m == inbox[1].meant
            ids == [i \in DOMAIN inbox[1].got.pdus |-> inbox[1].got.pdus[i].id]
        IN  /\ inbox[1].got.msg = m.msg
            /\ IF m.how = "none"
               THEN ids = [i \in DOMAIN Meant(m) |-> {Meant(m)[i].id}]
               ELSE m.msg = "DL_TTI" /\ ids = <<>>

(* What L1 makes of the fields of a PDU. *)
Prbs(start, n) == start .. start + n - 1
SamePrbs(f, c) == Prbs(f.rbStart, f.rbSize) = c.rb[1] .. c.rb[2] - 1
Sum(bytes) == bytes[1] + 256 * bytes[2] + 65536 * bytes[3]

AsMeant(f, c) ==
    CASE f.kind = "SSB"   -> Sum(f.bchPayload) = 65536 * c.mib[1] + 256 * c.mib[2] + c.mib[3]
      [] f.kind = "PDCCH" -> /\ f.bits = Len(c.dci)
                             /\ f.word \subseteq 0 .. DciBits - 1
                             /\ Len(c.dci) <= DciBits =>
                                   \A k \in DOMAIN c.dci : f.bits - k \in f.word <=> c.dci[k] = 1
                             /\ c.mapping = 2 => f.cceRegMappingType = 0
      [] f.kind = "PDSCH" -> SamePrbs(f, c) /\ f.nrOfLayers > 0 /\ f.nrOfCodewords \in 1 .. 2
                                /\ f.ldpcBaseGraph \in {1, 2}
      [] f.kind = "CSI_RS" ->
            /\ Prbs(f.startRb, f.nrOfRbs) \subseteq c.crb[1] .. c.crb[2] - 1
            /\ pair = "AERIAL" => /\ Prbs(f.startRb, f.nrOfRbs) \subseteq 0 .. Carrier - 1
                                  /\ f.nrOfRbs % 4 = 0
      [] f.kind = "PUSCH" -> SamePrbs(f, c) /\ f.nrOfLayers > 0 /\ f.ldpcBaseGraph \in {1, 2}
                                /\ (f.transformPrecoding = 0 <=> c.dfts)
      [] f.kind = "PUCCH" -> f.prbSize = c.rb[2] - c.rb[1] /\ f.groupHop + f.sequenceHop <= 1
      [] OTHER -> TRUE

(* The fields L1 reads of a PDU mean what OCUDU-L2 meant although the two  *)
(* dialects encode them differently: PRB sets, bit and byte order, flags   *)
(* of opposite sense, an LDPC base graph L1 can use (1 or 2), and for      *)
(* Aerial a CSI-RS that stays inside the carrier.                          *)
ReadAsMeant ==
    inbox # <<>> =>
        \A i \in DOMAIN inbox[1].got.pdus : LET p == inbox[1].got.pdus[i] IN
            \A f \in p.fields : \E id \in p.id : AsMeant(f, Content[id])

(* OCUDU-L2 is told of every grant of an indication or of none, for the    *)
(* slot it meant, each verdict being L1's: a block it is told was received *)
(* was, an acknowledged HARQ process had passed, a lost one did not.       *)
FeedbackTruth ==
    \A i \in DOMAIN told : \A j \in DOMAIN told[i].got :
        LET ind == told[i].ind
            got == told[i].got[j]
        IN  /\ ~ind.cut
            /\ got.count = Count(ind.time, mu)
            /\ Len(got.reports) = Len(ind.reports)
            /\ \A k \in DOMAIN got.reports :
                   LET g == got.reports[k]
                       r == ind.reports[k]
                   IN  /\ ind.msg # "RACH" => g.handle = r.handle
                       /\ ind.msg = "CRC" => (g.ok <=> r.crc = 0)
                       /\ ind.msg = "CRC" => (g.sinr > 0 <=> r.cqi > 128)
                       /\ ind.msg = "UCI" /\ r.uci = "F01" =>
                              \A h \in DOMAIN g.harq : /\ g.harq[h] = 1 <=> r.harq[h] = 0
                                                       /\ g.harq[h] = 0 <=> r.harq[h] = 1
=============================================================================
