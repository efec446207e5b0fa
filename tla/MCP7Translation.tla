-------------------------- MODULE MCP7Translation --------------------------
EXTENDS P7Translation

MCContent == <<
  [mib |-> <<1, 2, 3>>, rb |-> <<0, 5>>, crb |-> <<2, 10>>, dci |-> <<1, 0, 0, 1, 1>>,
   mapping |-> 0, agg |-> 0, codewords |-> 1, layers |-> 1, bg |-> 1, rate |-> 0,
   tb |-> 10, pci |-> 1, dfts |-> TRUE, hopping |-> 1, symbols |-> <<10, 12>>],
  [mib |-> <<200, 0, 7>>, rb |-> <<3, 4>>, crb |-> <<6, 13>>, dci |-> <<1, 1, 0>>,
   mapping |-> 2, agg |-> 3, codewords |-> 3, layers |-> 0, bg |-> 0, rate |-> 9480,
   tb |-> 500, pci |-> 1, dfts |-> FALSE, hopping |-> 2, symbols |-> <<13, 14>>]>>

(* Up to two PDUs; PDU i has content i, and n elements in its vectors. *)
ListsOf(types) ==
    LET Pdu(i) == [type : types, id : {i}, n : {0, 1}]
    IN  {<<>>} \cup {<<p>> : p \in Pdu(1)} \cup {<<p, q>> : p \in Pdu(1), q \in Pdu(2)}

MCLists == [DL_TTI |-> ListsOf(0 .. 4), UL_TTI |-> ListsOf(0 .. 5),
            UL_DCI |-> ListsOf({0}), TX_DATA |-> ListsOf({0})]

MCOutcomes == {
  [crc |-> 0, harq |-> <<0>>, cqi |-> 129, ta |-> 3, tb |-> 10, uci |-> "F01"],
  [crc |-> 1, harq |-> <<1, 3>>, cqi |-> 0, ta |-> 65535, tb |-> 0, uci |-> "F01"],
  [crc |-> 0, harq |-> <<2, 0, 1>>, cqi |-> 255, ta |-> 0, tb |-> 40, uci |-> "F234"]}
=============================================================================
