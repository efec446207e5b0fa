--------------------------- MODULE SegReassembly ---------------------------
(***************************************************************************)
(* Segmentation of P7 messages over UDP: oai_vnf_send_p7 splits a message  *)
(* into segments that share its sequence number, oai_p7_handle_segmented   *)
(* puts them together again.  core/OAI_OCUDU/oai_p7.c is the VNF end,      *)
(* core/AERIAL_OAI/oai_p7.c the PNF end; they segment and reassemble the   *)
(* same way, but their rx_task differs in how it finds the datagrams that  *)
(* are not segments (LegacyHeader).                                        *)
(*                                                                         *)
(* The network loses, reorders and duplicates datagrams.  A datagram is    *)
(* [msg, seg]: its payload is named by the message it belongs to, and what *)
(* the receiver sees of the header is Seq, seg and More.  The receiver has *)
(* no timeout and evicts nothing.                                          *)
(*                                                                         *)
(* A definition that no action of Next uses is a changed form of the one   *)
(* that follows it, the way a slip in the C code would change it.          *)
(***************************************************************************)
EXTENDS Integers, Sequences, FiniteSets, Bags

CONSTANTS SeqSpace,       \* sequence numbers: 256 in the code
          MaxSegments,    \* OAI_VNF_P7_MAX_SEGMENTS
          MaxSequences,   \* OAI_VNF_P7_MAX_SEQUENCES
          MaxMessages,    \* messages sent (bound)
          MaxDups,        \* datagrams the network duplicates (bound)
          MaxNet,         \* datagrams in the network at once (bound)
          LegacyHeader,   \* rx_task uses nfapi_p7_message_header_unpack: OAI_OCUDU does
          None            \* no segment stored, no entry

ASSUME SegAssumption ==
    /\ {SeqSpace, MaxSegments, MaxSequences, MaxMessages, MaxNet} \subseteq Nat \ {0}
    /\ MaxDups \in Nat /\ LegacyHeader \in BOOLEAN
    /\ None \notin Int

VARIABLES sizes,      \* sizes[m]: segments of the m-th message; its length is p7_sequence
          shortTail,  \* messages whose last datagram has fewer than 256 bytes
          net,        \* datagrams in the network
          dups,       \* datagrams duplicated so far
          gone,       \* messages a datagram of which was never sent, lost or refused (history)
          leftover,   \* messages sent while an entry still had their sequence number (history)
          table,      \* seg_queue.entries
          delivered   \* bag of what was handed to oai_p7_dispatch, each as the payloads it is made of

sent == <<sizes, shortTail, leftover>>
vars == <<sent, net, dups, gone, table, delivered>>

Message == 1 .. MaxMessages
Segment == 0 .. MaxSegments - 1
Entry   == 0 .. MaxSequences - 1

Seq8(m)  == (m - 1) % SeqSpace
More(d)  == d.seg + 1 < sizes[d.msg]
Parts(m, segs) == {[msg |-> m, seg |-> s] : s \in segs}

(* seg_entry_clear *)
EmptyEntry ==
    [active |-> FALSE, seq |-> 0, haveLast |-> FALSE, highest |-> -1, present |-> 0,
     buf |-> [s \in Segment |-> None]]

Init ==
    /\ sizes = <<>> /\ shortTail = {} /\ leftover = {}
    /\ net = {} /\ dups = 0 /\ gone = {}
    /\ table = [i \in Entry |-> EmptyEntry]
    /\ delivered = EmptyBag

-----------------------------------------------------------------------------
(* Assumed of the network: no datagram outlives SeqSpace messages.  The    *)
(* table gives no such guarantee: an entry that lost a segment stays until *)
(* its sequence number comes round, and the new message finds it there.    *)
Fresh(m) == \A d \in net : Seq8(d.msg) # Seq8(m)

(* oai_vnf_send_p7: a message of n segments, of which the first k are sent *)
(* before a sendto fails; p7_sequence advances in any case.  All segments  *)
(* but the last have the full size; that of the last is any.               *)
Send ==
    LET m == Len(sizes) + 1
    IN  /\ m \in Message
        /\ Fresh(m)
        /\ \E n \in 1 .. MaxSegments, k \in 0 .. MaxSegments :
              /\ k <= n /\ Cardinality(net) + k <= MaxNet
              /\ sizes' = Append(sizes, n)
              /\ net' = net \cup Parts(m, 0 .. k - 1)
              /\ gone' = gone \cup (IF k < n THEN {m} ELSE {})
        /\ shortTail' \in {shortTail} \cup (IF LegacyHeader THEN {shortTail \cup {m}} ELSE {})
        /\ leftover' = leftover \cup
              (IF \E i \in Entry : table[i].active /\ table[i].seq = Seq8(m) THEN {m} ELSE {})
        /\ UNCHANGED <<dups, table, delivered>>

Lose ==
    \E d \in net :
        /\ net' = net \ {d} /\ gone' = gone \cup {d.msg}
        /\ UNCHANGED <<sent, dups, table, delivered>>

(* The network hands d over and keeps a copy of it, or not.                *)
Transfer(d) ==
    \/ net' = net \ {d} /\ UNCHANGED dups
    \/ dups < MaxDups /\ dups' = dups + 1 /\ UNCHANGED net

-----------------------------------------------------------------------------
AlwaysAlloc(q) ==
    LET unused == {i \in Entry : ~table[i].active}
    IN  IF unused # {} THEN CHOOSE i \in unused : TRUE ELSE None

(* seg_find_or_alloc: the entry of sequence number q, else a free one.     *)
FindOrAlloc(q) ==
    LET mine   == {i \in Entry : table[i].active /\ table[i].seq = q}
        unused == {i \in Entry : ~table[i].active}
    IN  IF mine # {} THEN CHOOSE i \in mine : TRUE
        ELSE IF unused # {} THEN CHOOSE i \in unused : TRUE
        ELSE None

StoredTwice(e, d) ==
    [e EXCEPT !.active = TRUE, !.seq = Seq8(d.msg), !.haveLast = @ \/ ~More(d),
              !.buf[d.seg] = d.msg, !.present = @ + 1,
              !.highest = IF d.seg > @ THEN d.seg ELSE @]

StoredInOrder(e, d) ==
    IF d.seg # e.highest + 1 THEN e
    ELSE [e EXCEPT !.active = TRUE, !.seq = Seq8(d.msg), !.haveLast = @ \/ ~More(d),
                   !.buf[d.seg] = d.msg, !.present = @ + 1, !.highest = d.seg]

(* The entry after a datagram: a segment it already has is not stored.     *)
Stored(e, d) ==
    LET kept == [e EXCEPT !.active = TRUE, !.seq = Seq8(d.msg), !.haveLast = @ \/ ~More(d)]
    IN  IF e.buf[d.seg] # None THEN kept
        ELSE [kept EXCEPT !.buf[d.seg] = d.msg, !.present = @ + 1,
                          !.highest = IF d.seg > @ THEN d.seg ELSE @]

(* "Complete when the last segment has arrived AND we have all of 0..last" *)
Complete(e) == e.haveLast /\ e.present = e.highest + 1

Reassembled(e) == [i \in 1 .. e.highest + 1 |-> e.buf[i - 1]]

-----------------------------------------------------------------------------
(* rx_task: whether the datagram goes straight to oai_p7_dispatch.  The NR *)
(* unpack of AERIAL_OAI reads its true segment and more bits.  The legacy  *)
(* one of OAI_OCUDU reads them where an NR header has the low half of the  *)
(* datagram's length, and finds zeros just when that is below 256.         *)
Direct(d) ==
    IF LegacyHeader THEN ~More(d) /\ d.msg \in shortTail ELSE ~More(d) /\ d.seg = 0

(* rx_task: the datagram is dispatched by itself.                          *)
ReceiveWhole ==
    \E d \in net :
        /\ Direct(d)
        /\ Transfer(d)
        /\ delivered' = delivered (+) SetToBag({<<d.msg>>})
        /\ UNCHANGED <<sent, gone, table>>

(* rx_task: the datagram goes to oai_p7_handle_segmented.                  *)
SegmentArrives(d) == d \in net /\ ~Direct(d) /\ Transfer(d)

(* oai_p7_handle_segmented: the reassembly table is full.                  *)
ReceiveRefused ==
    \E d \in net :
        /\ SegmentArrives(d)
        /\ FindOrAlloc(Seq8(d.msg)) = None
        /\ gone' = gone \cup {d.msg}
        /\ UNCHANGED <<sent, table, delivered>>

(* oai_p7_handle_segmented: the segment leaves its message incomplete.     *)
ReceiveStored ==
    \E d \in net, i \in Entry :
        /\ SegmentArrives(d)
        /\ i = FindOrAlloc(Seq8(d.msg))
        /\ ~Complete(Stored(table[i], d))
        /\ table' = [table EXCEPT ![i] = Stored(@, d)]
        /\ UNCHANGED <<sent, gone, delivered>>

CompletedNotCleared ==
    \E d \in net, i \in Entry :
        /\ SegmentArrives(d)
        /\ i = FindOrAlloc(Seq8(d.msg))
        /\ Complete(Stored(table[i], d))
        /\ delivered' = delivered (+) SetToBag({Reassembled(Stored(table[i], d))})
        /\ table' = [table EXCEPT ![i] = Stored(@, d)]
        /\ UNCHANGED <<sent, gone>>

(* oai_p7_handle_segmented: the segment completes its message.             *)
ReceiveCompletes ==
    \E d \in net, i \in Entry :
        /\ SegmentArrives(d)
        /\ i = FindOrAlloc(Seq8(d.msg))
        /\ Complete(Stored(table[i], d))
        /\ delivered' = delivered (+) SetToBag({Reassembled(Stored(table[i], d))})
        /\ table' = [table EXCEPT ![i] = EmptyEntry]
        /\ UNCHANGED <<sent, gone>>

(* oai_p7_seg_queue_reset: oai_vnf_close_pnf_session drops what it has.    *)
Reset ==
    /\ \E i \in Entry : table[i].active
    /\ table' = [i \in Entry |-> EmptyEntry]
    /\ gone' = gone \cup {m \in DOMAIN sizes : \E i \in Entry, s \in Segment : table[i].buf[s] = m}
    /\ UNCHANGED <<sent, net, dups, delivered>>

Next ==
    \/ Send \/ Lose \/ Reset
    \/ ReceiveWhole \/ ReceiveRefused \/ ReceiveStored \/ ReceiveCompletes

Spec == Init /\ [][Next]_vars

-----------------------------------------------------------------------------
WholeMessage(m) == [i \in 1 .. sizes[m] |-> m]

(* What is dispatched is a message that was sent: all of its segments, in  *)
(* order, and nothing of another message.  Both ends break it.             *)
ReassembledWhole == \A p \in BagToSet(delivered) : \E m \in DOMAIN sizes : p = WholeMessage(m)

(* A mixture: segments with the sequence number of a message that was sent *)
(* while the table still had an entry of that number.                      *)
Mixed(p) ==
    \E m \in leftover : \A i \in DOMAIN p : p[i] \in DOMAIN sizes /\ Seq8(p[i]) = Seq8(m)

(* The last segment of m, where the legacy unpack takes it for a message.  *)
TailAlone(m) == LegacyHeader /\ m \in shortTail /\ sizes[m] > 1

Accounted(p) ==
    \/ \E m \in DOMAIN sizes : p = WholeMessage(m) \/ (TailAlone(m) /\ p = <<m>>)
    \/ Mixed(p)

(* These are the only ways to break it: whatever is lost, reordered,       *)
(* duplicated or refused, what is dispatched is otherwise whole.           *)
WholeUnlessLeftover == \A p \in BagToSet(delivered) : Accounted(p)

(* How often m was dispatched.                                             *)
Dispatches(m) == IF BagIn(WholeMessage(m), delivered) THEN delivered[WholeMessage(m)] ELSE 0

(* A message is dispatched whole once; a second time only if the network   *)
(* duplicated every one of its segments.                                   *)
DispatchedOnce == \A m \in DOMAIN sizes : Dispatches(m) <= 1 + dups \div sizes[m]

(* The segments of a message meet in one entry.  Its counters agree with   *)
(* the segments it holds, and an entry that has everything does not linger *)
(* in the table.                                                           *)
EntryAccounting ==
    /\ \A i, j \in Entry :
          table[i].active /\ table[j].active /\ table[i].seq = table[j].seq => i = j
    /\ \A i \in Entry :
          LET e    == table[i]
              have == {s \in Segment : e.buf[s] # None}
          IN  /\ e.present = Cardinality(have)
              /\ \A s \in have : s <= e.highest
              /\ e.active <=> have # {}
              /\ e.highest \in have \cup {-1}
              /\ ~(e.haveLast /\ have = 0 .. e.highest)

(* Reordering alone loses nothing: a message none of whose segments is     *)
(* still under way, lost or refused has been dispatched whole, unless it   *)
(* met the remains of an earlier one or its last segment went alone.       *)
DispatchedUnlessLost ==
    \A m \in DOMAIN sizes \ (gone \cup leftover) :
        ~TailAlone(m) /\ (\A d \in net : d.msg # m) => BagIn(WholeMessage(m), delivered)
=============================================================================
