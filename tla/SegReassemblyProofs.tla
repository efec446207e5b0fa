------------------------- MODULE SegReassemblyProofs -------------------------
(***************************************************************************)
(* Proofs about the reassembly of segmented P7 messages, SegReassembly.    *)
(* They hold of both ends, and of a table that forgets nothing.  The       *)
(* accounting of the table stands alone (TableOK).  The segments of an     *)
(* entry are all of one message as long as the last message sent with its  *)
(* sequence number found no entry of that number (Owners); for any other   *)
(* entry, what matters is that its segments share the number.              *)
(***************************************************************************)
EXTENDS SegReassembly, SequenceFacts

(* A datagram of a message that was sent. *)
Datagram == {d \in [msg : DOMAIN sizes, seg : Segment] : d.seg < sizes[d.msg]}

NetOK ==
    /\ sizes \in Seq(1 .. MaxSegments) /\ Len(sizes) <= MaxMessages
    /\ net \subseteq Datagram /\ dups \in Nat /\ gone \subseteq DOMAIN sizes
    /\ leftover \subseteq DOMAIN sizes /\ shortTail \subseteq DOMAIN sizes

(* The segments that an entry has. *)
Have(e) == {s \in Segment : e.buf[s] # None}

EntryType ==
    [active : BOOLEAN, seq : 0 .. SeqSpace - 1, haveLast : BOOLEAN,
     highest : Segment \cup {-1}, present : Nat, buf : [Segment -> Message \cup {None}]]

(* An entry whose counters agree with the segments it has.                 *)
Counted(e) ==
    /\ e \in EntryType
    /\ e.present = Cardinality(Have(e))
    /\ \A s \in Have(e) : s <= e.highest
    /\ e.active <=> Have(e) # {}
    /\ e.highest \in Have(e) \cup {-1}

EntryOK(e) ==
    /\ Counted(e)
    /\ ~(e.haveLast /\ Have(e) = 0 .. e.highest)
    /\ ~e.active => e = EmptyEntry

TableOK ==
    /\ table \in [Entry -> EntryType]
    /\ \A i \in Entry : EntryOK(table[i])
    /\ \A i, j \in Entry :
          table[i].active /\ table[j].active /\ table[i].seq = table[j].seq => i = j

(* What the assumption on the constants says of each.                      *)
LEMMA Constants ==
    /\ SeqSpace \in Nat \ {0} /\ MaxSegments \in Nat \ {0} /\ MaxSequences \in Nat \ {0}
    /\ MaxMessages \in Nat \ {0} /\ MaxDups \in Nat
    /\ None \notin Message /\ None \notin Entry
BY SegAssumption DEF Message, Entry

(* A set of segments up to h has h + 1 elements just when none is missing. *)
LEMMA Full ==
    ASSUME NEW S \in SUBSET Segment, NEW h \in Segment \cup {-1}, \A s \in S : s <= h
    PROVE  /\ IsFiniteSet(S) /\ Cardinality(S) \in Nat
           /\ Cardinality(S) = h + 1 <=> S = 0 .. h
<1>1. h \in Int /\ h >= -1 /\ Segment \subseteq Nat
  BY Constants DEF Segment
<1>2. IsFiniteSet(0 .. h) /\ Cardinality(0 .. h) = h + 1
  <2>1. Cardinality(0 .. h) = IF 0 > h THEN 0 ELSE h - 0 + 1
    BY <1>1, FS_Interval
  <2> QED BY <1>1, <2>1, FS_Interval
<1>3. S \subseteq 0 .. h
  BY <1>1
<1>4. IsFiniteSet(S) /\ Cardinality(S) \in Nat
  BY <1>2, <1>3, FS_Subset, FS_CardinalityType
<1>5. Cardinality(S) = Cardinality(0 .. h) => S = 0 .. h
  BY <1>2, <1>3, FS_Subset
<1> QED BY <1>2, <1>4, <1>5

(* An entry cleared by seg_entry_clear is in order and has no segment.     *)
LEMMA EmptyEntryOK == EntryOK(EmptyEntry) /\ Have(EmptyEntry) = {} /\ ~EmptyEntry.active
<1>1. Have(EmptyEntry) = {}
  BY DEF Have, EmptyEntry
<1>2. EmptyEntry \in EntryType
  BY Constants DEF EmptyEntry, EntryType
<1>3. Cardinality({}) = 0
  BY FS_EmptySet
<1> QED BY <1>1, <1>2, <1>3 DEF EntryOK, Counted, EmptyEntry

(* What storing one datagram does to an entry that is in order.            *)
LEMMA StoredFacts ==
    ASSUME NetOK, NEW e, EntryOK(e), NEW d \in Datagram
    PROVE  LET f == Stored(e, d)
           IN  /\ Counted(f) /\ Have(f) = Have(e) \cup {d.seg}
               /\ f.active /\ f.seq = Seq8(d.msg) /\ (f.haveLast <=> e.haveLast \/ ~More(d))
               /\ \A s \in Segment : f.buf[s] =
                     IF s = d.seg /\ e.buf[s] = None THEN d.msg ELSE e.buf[s]
               /\ Complete(f) <=> f.haveLast /\ Have(f) = 0 .. f.highest
<1> DEFINE f == Stored(e, d)
<1>1. d.msg \in Message /\ d.seg \in Segment /\ Seq8(d.msg) \in 0 .. SeqSpace - 1 /\ d.msg # None
  <2>1. d.msg \in 1 .. Len(sizes) /\ d.seg \in Segment
    BY LenProperties DEF Datagram, NetOK
  <2>2. Len(sizes) \in Nat /\ d.msg \in Nat \ {0}
    BY <2>1, LenProperties DEF NetOK
  <2>3. d.msg \in Message
    BY <2>1, <2>2, Constants DEF NetOK, Message
  <2>4. (d.msg - 1) % SeqSpace \in 0 .. SeqSpace - 1
    BY <2>2, Constants
  <2> QED BY <2>1, <2>3, <2>4, Constants DEF Seq8
<1>2. e \in EntryType /\ Segment \subseteq Nat
  BY Constants DEF EntryOK, Counted, Segment
<1>3. /\ f.active = TRUE /\ f.seq = Seq8(d.msg) /\ f.haveLast = (e.haveLast \/ ~More(d))
      /\ f.buf = IF e.buf[d.seg] # None THEN e.buf ELSE [e.buf EXCEPT ![d.seg] = d.msg]
      /\ f.present = IF e.buf[d.seg] # None THEN e.present ELSE e.present + 1
      /\ f.highest = IF e.buf[d.seg] # None THEN e.highest
                     ELSE IF d.seg > e.highest THEN d.seg ELSE e.highest
  BY <1>2 DEF Stored, EntryType
<1>4. f \in EntryType
  <2>1. /\ f.active \in BOOLEAN /\ f.haveLast \in BOOLEAN /\ f.seq \in 0 .. SeqSpace - 1
        /\ f.buf \in [Segment -> Message \cup {None}]
    BY <1>1, <1>2, <1>3 DEF EntryType
  <2>2. f.present \in Nat /\ f.highest \in Segment \cup {-1}
    BY <1>1, <1>2, <1>3 DEF EntryType
  <2>3. f = [active |-> f.active, seq |-> f.seq, haveLast |-> f.haveLast,
             highest |-> f.highest, present |-> f.present, buf |-> f.buf]
    <3>1. CASE e.buf[d.seg] # None BY <1>2, <3>1 DEF Stored, EntryType
    <3>2. CASE e.buf[d.seg] = None BY <1>2, <3>2 DEF Stored, EntryType
    <3> QED BY <3>1, <3>2
  <2> HIDE DEF f
  <2> QED BY <2>1, <2>2, <2>3 DEF EntryType
<1> HIDE DEF f
<1>5. \A s \in Segment : f.buf[s] = IF s = d.seg /\ e.buf[s] = None THEN d.msg ELSE e.buf[s]
  BY <1>1, <1>2, <1>3 DEF EntryType
<1>6. Have(f) = Have(e) \cup {d.seg}
  BY <1>1, <1>5 DEF Have
<1>7. e.buf[d.seg] # None <=> d.seg \in Have(e)
  BY <1>1 DEF Have
<1>8. e.highest \in Int /\ d.seg \in Int /\ \A s \in Have(e) : s \in Int /\ s <= e.highest
  <2>1. e.highest \in Segment \cup {-1}
    BY <1>2 DEF EntryType
  <2>2. \A s \in Have(e) : s \in Segment /\ s <= e.highest
    BY DEF EntryOK, Counted, Have
  <2>3. \A s \in Segment : s \in Int
    BY <1>2
  <2>4. e.highest \in Int
    BY <2>1, <2>3
  <2>5. d.seg \in Int
    BY <1>1, <2>3
  <2> QED BY <2>2, <2>3, <2>4, <2>5
<1>9. (\A s \in Have(f) : s <= f.highest) /\ f.highest \in Have(f) \cup {-1}
  BY <1>3, <1>6, <1>7, <1>8 DEF EntryOK, Counted
<1>10. f.present = Cardinality(Have(f))
  <2>1. IsFiniteSet(Have(e)) /\ e.present = Cardinality(Have(e))
    BY <1>2, Full DEF EntryOK, Counted, Have, EntryType
  <2>2. Cardinality(Have(e) \cup {d.seg}) =
           IF d.seg \in Have(e) THEN Cardinality(Have(e)) ELSE Cardinality(Have(e)) + 1
    BY <2>1, FS_AddElement
  <2> QED BY <1>3, <1>6, <1>7, <2>1, <2>2
<1>11. Complete(f) <=> f.haveLast /\ Have(f) = 0 .. f.highest
  <2>1. Have(f) \in SUBSET Segment /\ f.highest \in Segment \cup {-1}
    BY <1>4 DEF Have, EntryType
  <2>2. Cardinality(Have(f)) = f.highest + 1 <=> Have(f) = 0 .. f.highest
    BY <1>9, <2>1, Full
  <2> QED BY <1>10, <2>2 DEF Complete
<1>12. Counted(f)
  BY <1>3, <1>4, <1>6, <1>9, <1>10 DEF Counted
<1> QED BY <1>3, <1>5, <1>6, <1>11, <1>12 DEF f

(* The entry seg_find_or_alloc returns has the number, or none has it.     *)
LEMMA FindFacts ==
    ASSUME NEW q, NEW i \in Entry, i = FindOrAlloc(q)
    PROVE  \/ table[i].active /\ table[i].seq = q
           \/ ~table[i].active /\ \A j \in Entry : ~(table[j].active /\ table[j].seq = q)
<1> DEFINE mine   == {j \in Entry : table[j].active /\ table[j].seq = q}
           unused == {j \in Entry : ~table[j].active}
<1>1. CASE mine # {}
  BY <1>1 DEF FindOrAlloc
<1>2. CASE mine = {} /\ unused # {}
  BY <1>2 DEF FindOrAlloc
<1>3. CASE mine = {} /\ unused = {}
  BY <1>3, Constants DEF FindOrAlloc
<1> QED BY <1>1, <1>2, <1>3

-----------------------------------------------------------------------------
(* What oai_vnf_send_p7 adds to the network.                               *)
LEMMA SendFacts ==
    ASSUME NetOK, Send
    PROVE  LET m == Len(sizes) + 1
           IN  /\ m \in Message /\ m \notin DOMAIN sizes /\ DOMAIN sizes' = DOMAIN sizes \cup {m}
               /\ \A j \in DOMAIN sizes : sizes'[j] = sizes[j]
               /\ \A d \in net' : d \in net \/ d.msg = m
               /\ net \subseteq net' /\ gone \subseteq gone' /\ sizes'[m] \in 1 .. MaxSegments
               /\ m \notin gone' => \A s \in 0 .. sizes'[m] - 1 : [msg |-> m, seg |-> s] \in net'
               /\ \A d \in net' : d \notin net => d \in Parts(m, 0 .. sizes'[m] - 1)
               /\ gone' \subseteq gone \cup {m}
               /\ shortTail \subseteq shortTail' /\ shortTail' \subseteq shortTail \cup {m}
               /\ leftover \subseteq leftover' /\ leftover' \subseteq leftover \cup {m}
               /\ m \notin leftover' => \A i \in Entry : ~(table[i].active /\ table[i].seq = Seq8(m))
               /\ Fresh(m) /\ UNCHANGED <<dups, table, delivered>>
               /\ NetOK'
<1> DEFINE m == Len(sizes) + 1
<1> PICK n \in 1 .. MaxSegments, k \in 0 .. MaxSegments :
           /\ k <= n
           /\ sizes' = Append(sizes, n)
           /\ net' = net \cup Parts(m, 0 .. k - 1)
           /\ gone' = gone \cup (IF k < n THEN {m} ELSE {})
  BY DEF Send
<1>1. m \in Message /\ Fresh(m) /\ UNCHANGED <<dups, table, delivered>>
  BY DEF Send
<1>8. /\ shortTail \subseteq shortTail' /\ shortTail' \subseteq shortTail \cup {m}
      /\ leftover \subseteq leftover' /\ leftover' \subseteq leftover \cup {m}
      /\ m \notin leftover' => \A i \in Entry : ~(table[i].active /\ table[i].seq = Seq8(m))
  BY DEF Send
<1>2. /\ Len(sizes) \in Nat /\ DOMAIN sizes = 1 .. Len(sizes) /\ DOMAIN sizes' = 1 .. m
      /\ sizes' \in Seq(1 .. MaxSegments) /\ Len(sizes') = m
      /\ sizes'[m] = n /\ \A j \in DOMAIN sizes : sizes'[j] = sizes[j]
  BY AppendAt, AppendProperties, LenProperties DEF NetOK
<1> HIDE DEF m
<1>3. m \notin DOMAIN sizes /\ DOMAIN sizes' = DOMAIN sizes \cup {m}
  <2>1. m = Len(sizes) + 1
    BY DEF m
  <2> QED BY <1>2, <2>1
<1>4. /\ \A d \in net' : d \notin net => d \in Parts(m, 0 .. sizes'[m] - 1)
      /\ \A d \in net' : d \in net \/ d.msg = m
  <2>1. 0 .. k - 1 \subseteq 0 .. n - 1
    BY Constants
  <2> QED BY <1>2, <2>1 DEF Parts
<1>5. net \subseteq net' /\ gone \subseteq gone' /\ gone' \subseteq gone \cup {m}
  OBVIOUS
<1>6. ASSUME m \notin gone' PROVE \A s \in 0 .. n - 1 : [msg |-> m, seg |-> s] \in net'
  <2>1. k = n
    BY <1>6, Constants
  <2> QED BY <2>1 DEF Parts
<1>7. NetOK'
  <2>1. Len(sizes') <= MaxMessages
    BY <1>1, <1>2 DEF Message
  <2>2. ASSUME NEW d \in net PROVE d \in Datagram'
    <3>1. d \in [msg : DOMAIN sizes, seg : Segment] /\ d.seg < sizes[d.msg]
      BY DEF NetOK, Datagram
    <3> QED BY <1>2, <1>3, <3>1 DEF Datagram
  <2>3. ASSUME NEW s \in 0 .. n - 1 PROVE [msg |-> m, seg |-> s] \in Datagram'
    <3>1. s \in Segment /\ s < n
      BY Constants DEF Segment
    <3> QED BY <1>2, <1>3, <3>1 DEF Datagram
  <2>4. net' \subseteq Datagram'
    BY <1>2, <1>4, <2>2, <2>3 DEF Parts
  <2>5. /\ gone' \subseteq DOMAIN sizes' /\ dups' \in Nat
        /\ leftover' \subseteq DOMAIN sizes' /\ shortTail' \subseteq DOMAIN sizes'
    BY <1>1, <1>3, <1>5, <1>8 DEF NetOK
  <2> QED BY <1>2, <2>1, <2>4, <2>5 DEF NetOK
<1> QED BY <1>1, <1>2, <1>3, <1>4, <1>5, <1>6, <1>7, <1>8 DEF m

(* Every step keeps the types of the network's side.                       *)
LEMMA NetNext ==
    ASSUME NetOK, [Next]_vars
    PROVE  NetOK'
<1>1. CASE Send BY <1>1, SendFacts
<1>2. CASE ~Send
  <2>1. sizes' = sizes /\ leftover' = leftover /\ shortTail' = shortTail
    BY <1>2 DEF Next, vars, sent, Lose, Reset, ReceiveWhole, ReceiveRefused, ReceiveStored, ReceiveCompletes
  <2>2. net' \subseteq net
    BY <1>2 DEF Next, vars, sent, Lose, Reset, ReceiveWhole, ReceiveRefused, ReceiveStored,
                ReceiveCompletes, SegmentArrives, Transfer
  <2>3. dups' = dups \/ dups' = dups + 1
    BY <1>2 DEF Next, vars, sent, Lose, Reset, ReceiveWhole, ReceiveRefused, ReceiveStored,
                ReceiveCompletes, SegmentArrives, Transfer
  <2>4. gone' \subseteq DOMAIN sizes
    <3>1. \A d \in net : d.msg \in DOMAIN sizes
      BY DEF NetOK, Datagram
    <3>2. CASE Reset BY <3>2 DEF Reset, NetOK
    <3>3. CASE Lose BY <3>1, <3>3 DEF Lose, NetOK
    <3>4. CASE ReceiveRefused BY <3>1, <3>4 DEF ReceiveRefused, SegmentArrives, NetOK
    <3>5. CASE UNCHANGED gone BY <3>5 DEF NetOK
    <3> QED
      BY <1>2, <3>2, <3>3, <3>4, <3>5 DEF Next, vars, ReceiveWhole, ReceiveStored, ReceiveCompletes
  <2>5. net' \subseteq Datagram'
    BY <2>1, <2>2 DEF NetOK, Datagram
  <2> QED BY <2>1, <2>3, <2>4, <2>5 DEF NetOK
<1> QED BY <1>1, <1>2

(* Every step keeps the table in order.                                    *)
LEMMA TableNext ==
    ASSUME NetOK, TableOK, [Next]_vars
    PROVE  TableOK'
<1>1. CASE UNCHANGED table
  BY <1>1 DEF TableOK
<1>2. EmptyEntry \in EntryType
  BY EmptyEntryOK DEF EntryOK, Counted
<1>3. CASE Reset
  BY <1>2, <1>3, EmptyEntryOK DEF Reset, TableOK
<1>4. CASE ReceiveCompletes
  <2> PICK i \in Entry : table' = [table EXCEPT ![i] = EmptyEntry]
    BY <1>4 DEF ReceiveCompletes
  <2>1. /\ table' \in [Entry -> EntryType] /\ table'[i] = EmptyEntry
        /\ \A j \in Entry : j # i => table'[j] = table[j]
    BY <1>2 DEF TableOK
  <2> QED BY <2>1, EmptyEntryOK DEF TableOK
<1>5. CASE ReceiveStored
  <2> PICK d \in net, i \in Entry : /\ i = FindOrAlloc(Seq8(d.msg))
                                    /\ ~Complete(Stored(table[i], d))
                                    /\ table' = [table EXCEPT ![i] = Stored(@, d)]
    BY <1>5 DEF ReceiveStored
  <2> DEFINE f == Stored(table[i], d)
  <2>1. EntryOK(table[i]) /\ d \in Datagram /\ table \in [Entry -> EntryType]
    BY DEF TableOK, NetOK
  <2>2. /\ Counted(f) /\ f.active /\ f.seq = Seq8(d.msg)
        /\ Complete(f) <=> f.haveLast /\ Have(f) = 0 .. f.highest
    BY <2>1, StoredFacts
  <2>3. table'[i] = f /\ \A j \in Entry : j # i => table'[j] = table[j]
    BY <2>1
  <2> HIDE DEF f
  <2>4. EntryOK(f) /\ f \in EntryType
    BY <2>2 DEF EntryOK, Counted, f
  <2>5. table' \in [Entry -> EntryType]
    BY <2>1, <2>4 DEF f
  <2>6. \A j \in Entry : j # i => ~(table[j].active /\ table[j].seq = Seq8(d.msg))
    BY FindFacts DEF TableOK
  <2> QED BY <2>2, <2>3, <2>4, <2>5, <2>6 DEF TableOK
<1> QED
  BY <1>1, <1>3, <1>4, <1>5 DEF Next, vars, sent, Send, Lose, ReceiveWhole, ReceiveRefused

(* The table is in order at the start.                                     *)
LEMMA SegInit == Init => NetOK /\ TableOK
<1>1. <<>> \in Seq(1 .. MaxSegments) /\ Len(<<>>) = 0
  BY EmptySeq
<1>2. Init => NetOK
  BY <1>1, Constants DEF Init, NetOK
<1>3. Init => TableOK
  BY EmptyEntryOK DEF Init, TableOK, EntryOK, Counted
<1> QED BY <1>2, <1>3

(* The invariant of the table, which needs nothing of the network.         *)
THEOREM TableInvariant == Spec => [](NetOK /\ TableOK)
<1>1. NetOK /\ TableOK /\ [Next]_vars => (NetOK /\ TableOK)'
  BY NetNext, TableNext
<1> QED BY <1>1, SegInit, PTL DEF Spec

(* The counters of an entry agree with its segments, one entry has one     *)
(* sequence number, and a message that is there is not left there.         *)
THEOREM EntriesAccounted == Spec => []EntryAccounting
<1>1. TableOK => EntryAccounting
  BY DEF TableOK, EntryOK, Counted, Have, EntryAccounting
<1> QED BY <1>1, TableInvariant, PTL
-----------------------------------------------------------------------------
(* No message sent after m has its sequence number. *)
Latest(m) == m \in DOMAIN sizes /\ \A n \in DOMAIN sizes : Seq8(n) = Seq8(m) => n <= m

(* Message m is the one that entry e collects.                             *)
Owner(e, m) ==
    /\ \A s \in Have(e) : e.buf[s] = m /\ s < sizes[m]
    /\ e.haveLast <=> sizes[m] - 1 \in Have(e)

(* The segments of an entry share its number.  They are all of the last    *)
(* message with that number, unless that one found the entry in use.       *)
Owners ==
    /\ \A d \in net : Latest(d.msg)
    /\ \A i \in Entry : \A s \in Have(table[i]) :
          table[i].buf[s] \in DOMAIN sizes /\ Seq8(table[i].buf[s]) = table[i].seq
    /\ \A i \in Entry, m \in DOMAIN sizes \ leftover :
          table[i].active /\ Latest(m) /\ table[i].seq = Seq8(m) => Owner(table[i], m)

(* Segments of m on the way, and in the table. *)
Flying(m) == {s \in Segment : [msg |-> m, seg |-> s] \in net}
Held(m)   == {s \in Segment : \E i \in Entry : table[i].buf[s] = m}

(* Messages are numbered, and None is not one.                             *)
LEMMA MessageFacts ==
    ASSUME NetOK, NEW m \in DOMAIN sizes
    PROVE  m \in Nat \ {0} /\ m # None /\ sizes[m] \in Nat \ {0} /\ sizes[m] \in 1 .. MaxSegments
<1>1. m \in 1 .. Len(sizes) /\ Len(sizes) \in Nat /\ sizes[m] \in 1 .. MaxSegments
  BY LenProperties DEF NetOK
<1> QED BY <1>1, Constants, SegAssumption

(* A datagram that is under way, and its message.                          *)
LEMMA DatagramFacts ==
    ASSUME NetOK, NEW d \in net
    PROVE  /\ d.msg \in DOMAIN sizes /\ d.seg \in Segment /\ d.seg \in Nat
           /\ d.seg < sizes[d.msg] /\ sizes[d.msg] \in Nat \ {0}
           /\ d = [msg |-> d.msg, seg |-> d.seg] /\ d.msg # None /\ d \in Datagram
<1>1. d \in [msg : DOMAIN sizes, seg : Segment] /\ d.seg < sizes[d.msg] /\ d \in Datagram
  BY DEF NetOK, Datagram
<1>2. Segment \subseteq Nat
  BY DEF Segment
<1> QED BY <1>1, <1>2, MessageFacts

(* The last message with a sequence number is only one.                    *)
LEMMA LatestOne ==
    ASSUME NetOK, NEW m, NEW n, Latest(m), Latest(n), Seq8(m) = Seq8(n)
    PROVE  m = n
<1>1. m <= n /\ n <= m /\ m \in DOMAIN sizes /\ n \in DOMAIN sizes
  BY DEF Latest
<1> QED BY <1>1, MessageFacts

(* What an entry is after a datagram, whatever it held before.             *)
LEMMA StoredShares ==
    ASSUME NetOK, TableOK, Owners, NEW d \in net, NEW i \in Entry, i = FindOrAlloc(Seq8(d.msg))
    PROVE  LET f == Stored(table[i], d)
           IN  /\ Counted(f) /\ f.active /\ f.seq = Seq8(d.msg)
               /\ Have(f) = Have(table[i]) \cup {d.seg}
               /\ f.haveLast <=> table[i].haveLast \/ ~More(d)
               /\ Complete(f) <=> f.haveLast /\ Have(f) = 0 .. f.highest
               /\ \A s \in Segment : f.buf[s] =
                     IF s = d.seg /\ table[i].buf[s] = None THEN d.msg ELSE table[i].buf[s]
               /\ \A s \in Have(f) : f.buf[s] \in DOMAIN sizes /\ Seq8(f.buf[s]) = Seq8(d.msg)
               /\ \A s \in Have(table[i]) : Seq8(table[i].buf[s]) = Seq8(d.msg)
<1> DEFINE e == table[i]
           f == Stored(e, d)
<1>1. EntryOK(e) /\ d.msg \in DOMAIN sizes /\ d.seg \in Segment
  BY DatagramFacts DEF TableOK
<1>2. /\ Counted(f) /\ Have(f) = Have(e) \cup {d.seg}
      /\ f.active /\ f.seq = Seq8(d.msg) /\ (f.haveLast <=> e.haveLast \/ ~More(d))
      /\ \A s \in Segment : f.buf[s] = IF s = d.seg /\ e.buf[s] = None THEN d.msg ELSE e.buf[s]
      /\ Complete(f) <=> f.haveLast /\ Have(f) = 0 .. f.highest
  BY <1>1, StoredFacts, DatagramFacts
<1>3. \A s \in Have(e) : e.buf[s] \in DOMAIN sizes /\ Seq8(e.buf[s]) = Seq8(d.msg)
  <2>1. Have(e) # {} => e.active
    BY <1>1 DEF EntryOK, Counted
  <2>2. e.active => e.seq = Seq8(d.msg)
    BY FindFacts
  <2> QED BY <2>1, <2>2 DEF Owners
<1> HIDE DEF f, e
<1>4. ASSUME NEW s \in Have(f) PROVE f.buf[s] \in DOMAIN sizes /\ Seq8(f.buf[s]) = Seq8(d.msg)
  <2>1. s \in Segment
    BY DEF Have
  <2>2. CASE e.buf[s] = None
    BY <1>1, <1>2, <1>4, <2>1, <2>2 DEF Have
  <2>3. CASE e.buf[s] # None
    BY <1>2, <1>3, <2>1, <2>3 DEF Have
  <2> QED BY <2>2, <2>3
<1> QED BY <1>2, <1>3, <1>4 DEF e, f

(* A message that found no entry is stored in one of its own.              *)
LEMMA StoredOwner ==
    ASSUME NetOK, TableOK, Owners, NEW d \in net, NEW i \in Entry, i = FindOrAlloc(Seq8(d.msg)),
           d.msg \notin leftover
    PROVE  LET f == Stored(table[i], d)
           IN  /\ Owner(f, d.msg) /\ \A s \in Have(f) : f.buf[s] = d.msg
               /\ \A s \in Have(table[i]) : table[i].buf[s] = d.msg
<1> DEFINE e == table[i]
           f == Stored(e, d)
           m == d.msg
<1>1. m \in DOMAIN sizes /\ d.seg \in Segment /\ d.seg \in Nat /\ d.seg < sizes[m] /\ sizes[m] \in Nat
  BY DatagramFacts
<1>2. EntryOK(e) /\ Latest(m)
  BY DEF TableOK, Owners
<1>3. /\ Have(f) = Have(e) \cup {d.seg} /\ (f.haveLast <=> e.haveLast \/ ~More(d))
      /\ \A s \in Segment : f.buf[s] = IF s = d.seg /\ e.buf[s] = None THEN m ELSE e.buf[s]
  BY StoredShares
<1>4. /\ \A s \in Have(e) : e.buf[s] = m /\ s < sizes[m]
      /\ e.haveLast <=> sizes[m] - 1 \in Have(e)
  <2>1. CASE e.active
    <3>1. e.seq = Seq8(m)
      BY <2>1, FindFacts
    <3>2. Owner(e, m)
      BY <1>1, <1>2, <2>1, <3>1 DEF Owners
    <3> QED BY <3>2 DEF Owner
  <2>2. CASE ~e.active
    <3>1. e = EmptyEntry
      BY <1>2, <2>2 DEF EntryOK
    <3>2. ~EmptyEntry.haveLast
      BY DEF EmptyEntry
    <3>3. Have(e) = {} /\ ~e.haveLast
      BY <3>1, <3>2, EmptyEntryOK
    <3> QED BY <3>3
  <2> QED BY <2>1, <2>2
<1>5. ~More(d) <=> d.seg = sizes[m] - 1
  BY <1>1 DEF More
<1> HIDE DEF f, m
<1>6. \A s \in Have(f) : f.buf[s] = m /\ s < sizes[m]
  <2>1. \A s \in Have(e) : s \in Segment /\ e.buf[s] # None
    BY DEF Have
  <2>2. f.buf[d.seg] = m
    BY <1>1, <1>3, <1>4 DEF Have
  <2>3. \A s \in Have(e) : f.buf[s] = m
    BY <1>3, <1>4, <2>1
  <2> QED BY <1>1, <1>3, <1>4, <2>2, <2>3 DEF m
<1>7. f.haveLast <=> sizes[m] - 1 \in Have(f)
  BY <1>3, <1>4, <1>5
<1> QED BY <1>4, <1>6, <1>7 DEF Owner, f, m

(* Any step but Send takes datagrams away and sends no message.            *)
LEMMA OtherSteps ==
    ASSUME NetOK, [Next]_vars, ~Send
    PROVE  UNCHANGED <<sizes, shortTail, leftover>> /\ net' \subseteq net /\ gone \subseteq gone'
BY DEF Next, vars, sent, Lose, Reset, ReceiveWhole, ReceiveRefused, ReceiveStored,
       ReceiveCompletes, SegmentArrives, Transfer

(* Every step keeps what is known of the segments of an entry.             *)
LEMMA OwnersNext ==
    ASSUME NetOK, TableOK, Owners, [Next]_vars
    PROVE  Owners'
<1>1. CASE Send
  <2> PICK m : m = Len(sizes) + 1
    OBVIOUS
  <2>1. /\ m \notin DOMAIN sizes /\ DOMAIN sizes' = DOMAIN sizes \cup {m}
        /\ \A j \in DOMAIN sizes : sizes'[j] = sizes[j]
        /\ \A d \in net' : d \in net \/ d.msg = m
        /\ leftover \subseteq leftover'
        /\ m \notin leftover' => \A i \in Entry : ~(table[i].active /\ table[i].seq = Seq8(m))
        /\ Fresh(m) /\ UNCHANGED table /\ NetOK'
    BY <1>1, SendFacts
  <2>2. \A n \in DOMAIN sizes' : n <= m
    <3>1. DOMAIN sizes = 1 .. Len(sizes) /\ Len(sizes) \in Nat
      BY LenProperties DEF NetOK
    <3> QED BY <2>1, <3>1
  <2>3. Latest(m)'
    BY <2>1, <2>2 DEF Latest, Seq8
  <2>4. \A n : Latest(n) /\ Seq8(n) # Seq8(m) => Latest(n)'
    BY <2>1 DEF Latest, Seq8
  <2>5. \A n : Latest(n)' => n = m \/ Latest(n)
    BY <2>1 DEF Latest, Seq8
  <2>6. \A d \in net' : Latest(d.msg)'
    BY <2>1, <2>3, <2>4 DEF Owners, Fresh
  <2>7. \A i \in Entry : \A s \in Have(table[i]) :
           table[i].buf[s] \in DOMAIN sizes' /\ Seq8(table[i].buf[s]) = table[i].seq
    BY <2>1 DEF Owners
  <2>8. ASSUME NEW i \in Entry, NEW n \in DOMAIN sizes' \ leftover',
               table[i].active, Latest(n)', table[i].seq = Seq8(n)
        PROVE  Owner(table[i], n)'
    <3>1. n # m /\ n \in DOMAIN sizes \ leftover /\ Latest(n)
      BY <2>1, <2>5, <2>8
    <3>2. Owner(table[i], n)
      BY <2>8, <3>1 DEF Owners
    <3> QED BY <2>1, <3>1, <3>2 DEF Owner, Have
  <2> QED BY <2>1, <2>6, <2>7, <2>8 DEF Owners, Have, Seq8
<1>2. CASE ~Send
  <2>1. UNCHANGED <<sizes, leftover>> /\ net' \subseteq net
    BY <1>2, OtherSteps
  <2>2. \A e, m : (Owner(e, m) => Owner(e, m)') /\ (Latest(m) <=> Latest(m)')
    BY <2>1 DEF Owner, Have, Latest, Seq8
  <2>3. ASSUME NEW j \in Entry
        PROVE  /\ \A s \in Have(table'[j]) :
                     table'[j].buf[s] \in DOMAIN sizes /\ Seq8(table'[j].buf[s]) = table'[j].seq
               /\ \A m \in DOMAIN sizes \ leftover :
                     table'[j].active /\ Latest(m) /\ table'[j].seq = Seq8(m) => Owner(table'[j], m)
    <3>1. CASE table'[j] = table[j]
      BY <3>1 DEF Owners
    <3>2. CASE table'[j] = EmptyEntry
      BY <3>2, EmptyEntryOK
    <3>3. CASE table'[j] # table[j] /\ table'[j] # EmptyEntry
      <4>1. ~Reset /\ ~ReceiveCompletes
        BY <3>3 DEF Reset, ReceiveCompletes, TableOK
      <4>2. ReceiveStored
        BY <1>2, <3>3, <4>1 DEF Next, vars, Lose, ReceiveWhole, ReceiveRefused
      <4> PICK d \in net, i \in Entry : /\ i = FindOrAlloc(Seq8(d.msg))
                                        /\ table' = [table EXCEPT ![i] = Stored(@, d)]
        BY <4>2 DEF ReceiveStored
      <4> DEFINE f == Stored(table[i], d)
      <4>4. /\ f.seq = Seq8(d.msg)
            /\ \A s \in Have(f) : f.buf[s] \in DOMAIN sizes /\ Seq8(f.buf[s]) = Seq8(d.msg)
        BY StoredShares
      <4>5. d.msg \notin leftover => Owner(f, d.msg)
        BY StoredOwner
      <4>3. table'[j] = f
        BY <3>3 DEF TableOK
      <4> HIDE DEF f
      <4>6. \A m : Latest(m) /\ Seq8(d.msg) = Seq8(m) => m = d.msg
        BY LatestOne DEF Owners
      <4> QED BY <4>3, <4>4, <4>5, <4>6
    <3> QED BY <3>1, <3>2, <3>3
  <2>4. \A d \in net' : Latest(d.msg)'
    BY <2>1, <2>2 DEF Owners
  <2> QED BY <2>1, <2>2, <2>3, <2>4 DEF Owners, Have, Seq8
<1> QED BY <1>1, <1>2
-----------------------------------------------------------------------------
(* What one more element changes in a bag.                                 *)
LEMMA BagAdd ==
    ASSUME NEW B, NEW x, IsABag(B)
    PROVE  LET C == B (+) SetToBag({x})
           IN  /\ IsABag(C) /\ BagToSet(C) = BagToSet(B) \cup {x}
               /\ \A y : (IF BagIn(y, C) THEN C[y] ELSE 0)
                         = (IF BagIn(y, B) THEN B[y] ELSE 0) + (IF y = x THEN 1 ELSE 0)
BY DEF BagToSet, SetToBag, (+), IsABag, BagIn

WholeOK == IsABag(delivered) /\ WholeUnlessLeftover

(* The segments of an entry that a datagram completes.                     *)
LEMMA CompletedFacts ==
    ASSUME NetOK, TableOK, Owners, NEW d \in net, NEW i \in Entry, i = FindOrAlloc(Seq8(d.msg)),
           Complete(Stored(table[i], d))
    PROVE  LET f == Stored(table[i], d)
           IN  /\ Have(f) = 0 .. f.highest /\ f.haveLast /\ f.highest \in Nat
               /\ DOMAIN Reassembled(f) = 1 .. f.highest + 1
               /\ \A s \in 0 .. f.highest : s + 1 \in 1 .. f.highest + 1 /\ s \in Segment
               /\ \A s \in 0 .. f.highest : f.buf[s] = Reassembled(f)[s + 1]
               /\ \A j \in 1 .. f.highest + 1 :
                     Reassembled(f)[j] \in DOMAIN sizes /\ Seq8(Reassembled(f)[j]) = Seq8(d.msg)
<1> DEFINE f == Stored(table[i], d)
<1>1. /\ Counted(f) /\ f.haveLast /\ Have(f) = 0 .. f.highest /\ d.seg \in Have(f)
      /\ \A s \in Have(f) : f.buf[s] \in DOMAIN sizes /\ Seq8(f.buf[s]) = Seq8(d.msg)
  BY StoredShares
<1> HIDE DEF f
<1>2. f.highest \in Segment \cup {-1} /\ \A s \in Segment : s \in Nat
  BY <1>1 DEF Counted, EntryType, Segment
<1>3. f.highest \in Nat
  BY <1>1, <1>2, DatagramFacts
<1>4. \A s \in 0 .. f.highest : s + 1 \in 1 .. f.highest + 1 /\ s \in Segment
  BY <1>1, <1>3 DEF Have
<1>5. \A s \in 0 .. f.highest : (s + 1) - 1 = s
  BY <1>3
<1>6. \A s \in 0 .. f.highest : f.buf[s] = Reassembled(f)[s + 1]
  BY <1>4, <1>5 DEF Reassembled
<1>7. \A j \in 1 .. f.highest + 1 : j - 1 \in 0 .. f.highest /\ Reassembled(f)[j] = f.buf[j - 1]
  BY <1>3 DEF Reassembled
<1> QED BY <1>1, <1>3, <1>4, <1>6, <1>7 DEF f, Reassembled

(* A message that found no entry is completed as it was sent.              *)
LEMMA CompletedWhole ==
    ASSUME NetOK, TableOK, Owners, NEW d \in net, NEW i \in Entry, i = FindOrAlloc(Seq8(d.msg)),
           Complete(Stored(table[i], d)), d.msg \notin leftover
    PROVE  Reassembled(Stored(table[i], d)) = WholeMessage(d.msg)
<1> DEFINE f == Stored(table[i], d)
           m == d.msg
<1>1. Owner(f, m) /\ f.haveLast /\ Have(f) = 0 .. f.highest /\ f.highest \in Nat
  BY StoredOwner, CompletedFacts
<1>2. sizes[m] \in Nat \ {0}
  BY DatagramFacts
<1> HIDE DEF f, m
<1>3. sizes[m] - 1 \in 0 .. f.highest /\ \A s \in 0 .. f.highest : s < sizes[m]
  BY <1>1 DEF Owner
<1>4. f.highest + 1 = sizes[m] /\ f.highest = sizes[m] - 1
  BY <1>1, <1>2, <1>3
<1>5. \A j \in 1 .. sizes[m] : j - 1 \in 0 .. sizes[m] - 1
  BY <1>2
<1>6. \A j \in 1 .. sizes[m] : f.buf[j - 1] = m
  BY <1>1, <1>4, <1>5 DEF Owner
<1> QED BY <1>4, <1>6 DEF Reassembled, WholeMessage, f, m

(* A datagram that rx_task dispatches by itself is a message, or a tail.   *)
LEMMA DirectFacts ==
    ASSUME NetOK, NEW d \in net, Direct(d)
    PROVE  /\ sizes[d.msg] = 1 \/ TailAlone(d.msg)
           /\ sizes[d.msg] = 1 => WholeMessage(d.msg) = <<d.msg>>
<1>1. sizes[d.msg] \in Nat \ {0} /\ d.seg \in Nat /\ d.seg < sizes[d.msg]
  BY DatagramFacts
<1>2. sizes[d.msg] = 1 \/ TailAlone(d.msg)
  BY <1>1 DEF Direct, More, TailAlone
<1>3. sizes[d.msg] = 1 => WholeMessage(d.msg) = <<d.msg>>
  BY DEF WholeMessage
<1> QED BY <1>2, <1>3

(* A step dispatches nothing, or something accounted for.                  *)
LEMMA Dispatched ==
    ASSUME NetOK, TableOK, Owners, [Next]_vars
    PROVE  \/ UNCHANGED delivered
           \/ \E p : delivered' = delivered (+) SetToBag({p}) /\ Accounted(p)
<1>1. CASE ReceiveWhole
  <2> PICK d \in net : Direct(d) /\ delivered' = delivered (+) SetToBag({<<d.msg>>})
    BY <1>1 DEF ReceiveWhole
  <2>1. Accounted(<<d.msg>>)
    BY DirectFacts, DatagramFacts DEF Accounted
  <2> QED BY <2>1
<1>2. CASE ReceiveCompletes
  <2> PICK d \in net, i \in Entry :
         /\ i = FindOrAlloc(Seq8(d.msg)) /\ Complete(Stored(table[i], d))
         /\ delivered' = delivered (+) SetToBag({Reassembled(Stored(table[i], d))})
    BY <1>2 DEF ReceiveCompletes
  <2> DEFINE p == Reassembled(Stored(table[i], d))
  <2>1. CASE d.msg \notin leftover
    <3>1. p = WholeMessage(d.msg) /\ d.msg \in DOMAIN sizes
      BY <2>1, CompletedWhole, DatagramFacts
    <3> QED BY <3>1 DEF Accounted
  <2>2. CASE d.msg \in leftover
    <3>1. \A j \in DOMAIN p : p[j] \in DOMAIN sizes /\ Seq8(p[j]) = Seq8(d.msg)
      BY CompletedFacts
    <3> HIDE DEF p
    <3>2. Mixed(p)
      BY <2>2, <3>1 DEF Mixed
    <3> QED BY <3>2 DEF Accounted, p
  <2> QED BY <2>1, <2>2
<1> QED BY <1>1, <1>2 DEF Next, vars, Send, Lose, Reset, ReceiveRefused, ReceiveStored

(* What was sent stays as it was.                                          *)
LEMMA SentStays ==
    ASSUME NetOK, [Next]_vars
    PROVE  /\ DOMAIN sizes \subseteq DOMAIN sizes' /\ \A m \in DOMAIN sizes : sizes'[m] = sizes[m]
           /\ shortTail \subseteq shortTail' /\ leftover \subseteq leftover' /\ gone \subseteq gone'
           /\ \A m \in DOMAIN sizes : WholeMessage(m)' = WholeMessage(m)
           /\ \A m \in DOMAIN sizes : m \in shortTail' => m \in shortTail
           /\ \A m \in DOMAIN sizes : m \in leftover' => m \in leftover
<1>1. CASE Send
  <2>1. /\ DOMAIN sizes \subseteq DOMAIN sizes' /\ \A m \in DOMAIN sizes : sizes'[m] = sizes[m]
        /\ shortTail \subseteq shortTail' /\ leftover \subseteq leftover' /\ gone \subseteq gone'
        /\ \A m \in DOMAIN sizes : m \in shortTail' => m \in shortTail
        /\ \A m \in DOMAIN sizes : m \in leftover' => m \in leftover
    BY <1>1, SendFacts
  <2> QED BY <2>1 DEF WholeMessage
<1>2. CASE ~Send
  BY <1>2, OtherSteps DEF WholeMessage
<1> QED BY <1>1, <1>2

(* Every step keeps what was dispatched accounted for.                     *)
LEMMA WholeNext ==
    ASSUME NetOK, TableOK, Owners, WholeOK, [Next]_vars
    PROVE  WholeOK'
<1>1. ASSUME NEW p, Accounted(p) PROVE Accounted(p)'
  <2>1. ASSUME Mixed(p) PROVE Mixed(p)'
    BY <2>1, SentStays DEF Mixed, Seq8
  <2>2. ASSUME NEW m \in DOMAIN sizes, p = WholeMessage(m) \/ (TailAlone(m) /\ p = <<m>>)
        PROVE  m \in DOMAIN sizes' /\ (p = WholeMessage(m)' \/ (TailAlone(m)' /\ p = <<m>>))
    <3>1. TailAlone(m) => TailAlone(m)'
      BY <2>2, SentStays DEF TailAlone
    <3> QED BY <2>2, <3>1, SentStays
  <2> QED BY <1>1, <2>1, <2>2 DEF Accounted
<1>2. \A p \in BagToSet(delivered) : Accounted(p)'
  BY <1>1 DEF WholeOK, WholeUnlessLeftover
<1>3. CASE UNCHANGED delivered
  BY <1>2, <1>3 DEF WholeOK, WholeUnlessLeftover
<1>4. ASSUME NEW p, delivered' = delivered (+) SetToBag({p}), Accounted(p) PROVE WholeOK'
  <2>1. IsABag(delivered') /\ BagToSet(delivered') = BagToSet(delivered) \cup {p}
    BY <1>4, BagAdd DEF WholeOK
  <2>2. Accounted(p)'
    BY <1>1, <1>4
  <2> QED BY <1>2, <2>1, <2>2 DEF WholeOK, WholeUnlessLeftover
<1> QED BY <1>3, <1>4, Dispatched

(* No entry has a segment, and nothing is dispatched, at the start.        *)
LEMMA WholeInit == Init => Owners /\ WholeOK
<1>1. BagToSet(EmptyBag) = {} /\ IsABag(EmptyBag)
  BY DEF BagToSet, EmptyBag, SetToBag, IsABag
<1>2. Init => \A i \in Entry : ~table[i].active /\ Have(table[i]) = {}
  BY EmptyEntryOK DEF Init
<1> QED BY <1>1, <1>2 DEF Init, Owners, WholeOK, WholeUnlessLeftover

(* The segments of an entry share its number, and what was dispatched is   *)
(* accounted for.                                                          *)
THEOREM OwnersInvariant == Spec => [](NetOK /\ TableOK /\ Owners /\ WholeOK)
<1>1. NetOK /\ TableOK /\ Owners /\ WholeOK /\ [Next]_vars => (NetOK /\ TableOK /\ Owners /\ WholeOK)'
  BY NetNext, TableNext, OwnersNext, WholeNext
<1> QED BY <1>1, SegInit, WholeInit, PTL DEF Spec

(* Whatever the network loses, reorders and duplicates, what reaches       *)
(* oai_p7_dispatch is one message that was sent, all of it and in order,   *)
(* unless that message met the remains of an earlier one or, with the      *)
(* legacy unpack, it is a last segment under 256 bytes.                    *)
THEOREM WholeMessagesOnly == Spec => []WholeUnlessLeftover
BY OwnersInvariant, PTL DEF WholeOK
-----------------------------------------------------------------------------
(* The segments of m that the receiver has, and those it dispatched. *)
Taken(m) == Cardinality(Held(m)) + sizes[m] * Dispatches(m)

(* Together with those under way, they are no more than were sent and      *)
(* duplicated.                                                             *)
Count == \A m \in DOMAIN sizes : Cardinality(Flying(m)) + Taken(m) <= sizes[m] + dups

(* Nothing of m was lost, and m neither met the remains of another message *)
(* nor has its last segment go alone.                                      *)
Unharmed(m) == m \in DOMAIN sizes \ (gone \cup leftover) /\ ~TailAlone(m)

(* Such a message was dispatched, or all its segments are under way or in  *)
(* the table and its sequence number was not used again.                   *)
Under ==
    \A m \in DOMAIN sizes :
        Unharmed(m) =>
           \/ BagIn(WholeMessage(m), delivered)
           \/ Latest(m) /\ \A s \in 0 .. sizes[m] - 1 : s \in Flying(m) \/ s \in Held(m)

(* A set of segments is finite.                                            *)
LEMMA SegmentSets ==
    ASSUME NEW S \in SUBSET Segment
    PROVE  IsFiniteSet(S) /\ Cardinality(S) \in Nat
<1>1. IsFiniteSet(Segment)
  BY Constants, FS_Interval DEF Segment
<1> QED BY <1>1, FS_Subset, FS_CardinalityType

(* The numbers that Count adds up are natural numbers.                     *)
LEMMA CountTypes ==
    ASSUME NetOK, WholeOK, NEW m \in DOMAIN sizes
    PROVE  /\ Cardinality(Flying(m)) \in Nat /\ Cardinality(Held(m)) \in Nat
           /\ IsFiniteSet(Flying(m)) /\ IsFiniteSet(Held(m))
           /\ sizes[m] \in Nat \ {0} /\ Dispatches(m) \in Nat /\ dups \in Nat
           /\ sizes[m] * Dispatches(m) \in Nat /\ Taken(m) \in Nat
<1>1. Flying(m) \in SUBSET Segment /\ Held(m) \in SUBSET Segment
  BY DEF Flying, Held
<1>2. sizes[m] \in Nat \ {0} /\ dups \in Nat
  BY MessageFacts DEF NetOK
<1>3. Dispatches(m) \in Nat
  <2>1. \A x : BagIn(x, delivered) => delivered[x] \in Nat \ {0}
    BY DEF WholeOK, IsABag, BagIn, BagToSet
  <2> QED BY <2>1 DEF Dispatches
<1>4. sizes[m] * Dispatches(m) \in Nat
  BY <1>2, <1>3
<1>5. Cardinality(Held(m)) \in Nat
  BY <1>1, SegmentSets
<1>6. Taken(m) \in Nat
  BY <1>4, <1>5 DEF Taken
<1> QED BY <1>1, <1>2, <1>3, <1>4, <1>6, SegmentSets

(* What taking datagram d off the network does to the segments under way.  *)
LEMMA TransferFacts ==
    ASSUME NetOK, NEW d \in net, Transfer(d) \/ (net' = net \ {d} /\ UNCHANGED dups)
    PROVE  /\ \A m : m # d.msg => Flying(m)' = Flying(m)
           /\ Flying(d.msg) \ {d.seg} \subseteq Flying(d.msg)'
           /\ dups' \in Nat /\ dups' >= dups
           /\ Cardinality(Flying(d.msg)') \in Nat
           /\ Cardinality(Flying(d.msg)') + 1 + dups = Cardinality(Flying(d.msg)) + dups'
<1> DEFINE m == d.msg
<1>1. d.seg \in Segment /\ d = [msg |-> m, seg |-> d.seg]
  BY DatagramFacts
<1>2. d.seg \in Flying(m)
  BY <1>1 DEF Flying
<1>3. dups \in Nat
  BY DEF NetOK
<1>4. IsFiniteSet(Flying(m)) /\ Cardinality(Flying(m)) \in Nat
  BY SegmentSets DEF Flying
<1>5. CASE net' = net \ {d} /\ UNCHANGED dups
  <2>1. \A o : o # m => Flying(o)' = Flying(o)
    BY <1>5 DEF Flying
  <2>2. Flying(m)' = Flying(m) \ {d.seg}
    BY <1>1, <1>5 DEF Flying
  <2>3. /\ IsFiniteSet(Flying(m) \ {d.seg})
        /\ Cardinality(Flying(m) \ {d.seg}) = Cardinality(Flying(m)) - 1
    BY <1>2, <1>4, FS_RemoveElement
  <2>4. Cardinality(Flying(m) \ {d.seg}) \in Nat
    BY <2>3, FS_CardinalityType
  <2> HIDE DEF m
  <2>5. Cardinality(Flying(m)') + 1 + dups = Cardinality(Flying(m)) + dups'
    BY <1>3, <1>4, <1>5, <2>2, <2>3
  <2> QED BY <1>3, <1>5, <2>1, <2>2, <2>4, <2>5 DEF m
<1>6. CASE net' = net /\ dups' = dups + 1
  <2>1. \A o : Flying(o)' = Flying(o)
    BY <1>6 DEF Flying
  <2> QED BY <1>3, <1>4, <1>6, <2>1
<1> QED BY <1>5, <1>6 DEF Transfer

(* The segments of a message are all in the entry of its number.           *)
LEMMA HeldIn ==
    ASSUME NetOK, TableOK, Owners, NEW i \in Entry, NEW s \in Segment, NEW m \in DOMAIN sizes,
           table[i].buf[s] = m
    PROVE  /\ s \in Have(table[i]) /\ table[i].active /\ table[i].seq = Seq8(m)
           /\ \A j \in Entry : table[j].active /\ table[j].seq = Seq8(m) => j = i
<1>1. s \in Have(table[i])
  BY MessageFacts DEF Have
<1>2. table[i].active /\ table[i].seq = Seq8(m)
  BY <1>1 DEF TableOK, EntryOK, Counted, Owners
<1> QED BY <1>1, <1>2 DEF TableOK

(* What storing datagram d in entry i does to the segments held.           *)
LEMMA StoredHeld ==
    ASSUME NetOK, TableOK, Owners, NEW d \in net, NEW i \in Entry, i = FindOrAlloc(Seq8(d.msg)),
           table' = [table EXCEPT ![i] = Stored(@, d)]
    PROVE  /\ \A m \in DOMAIN sizes : m # d.msg => Held(m)' = Held(m)
           /\ Held(d.msg)' \subseteq Held(d.msg) \cup {d.seg}
           /\ d.msg \notin leftover => Held(d.msg)' = Held(d.msg) \cup {d.seg}
<1> DEFINE f == Stored(table[i], d)
<1>1. d.seg \in Segment /\ d.msg \in DOMAIN sizes /\ \A m \in DOMAIN sizes : m # None
  BY DatagramFacts, MessageFacts
<1>2. \A s \in Segment : f.buf[s] = IF s = d.seg /\ table[i].buf[s] = None THEN d.msg ELSE table[i].buf[s]
  BY StoredShares
<1>3. table'[i] = f /\ \A j \in Entry : j # i => table'[j] = table[j]
  BY DEF TableOK
<1> HIDE DEF f
<1>4. ASSUME NEW m \in DOMAIN sizes, m # d.msg PROVE Held(m)' = Held(m)
  <2>1. \A j \in Entry, s \in Segment : table'[j].buf[s] = m <=> table[j].buf[s] = m
    BY <1>1, <1>2, <1>3, <1>4
  <2> QED BY <2>1 DEF Held
<1>5. \A j \in Entry, s \in Segment :
         table'[j].buf[s] = d.msg => s = d.seg \/ table[j].buf[s] = d.msg
  BY <1>2, <1>3
<1>6. Held(d.msg)' \subseteq Held(d.msg) \cup {d.seg}
  BY <1>5 DEF Held
<1>7. ASSUME d.msg \notin leftover PROVE Held(d.msg)' = Held(d.msg) \cup {d.seg}
  <2>1. table[i].buf[d.seg] # None => table[i].buf[d.seg] = d.msg
    BY <1>1, <1>7, StoredOwner DEF Have
  <2>2. f.buf[d.seg] = d.msg
    BY <1>1, <1>2, <2>1
  <2>3. \A j \in Entry, s \in Segment : table[j].buf[s] = d.msg => table'[j].buf[s] = d.msg
    BY <1>1, <1>2, <1>3
  <2> QED BY <1>1, <1>3, <1>6, <2>2, <2>3 DEF Held
<1> QED BY <1>4, <1>6, <1>7

(* What completing the entry of datagram d does to the segments held.      *)
LEMMA CompletedHeld ==
    ASSUME NetOK, TableOK, Owners, NEW d \in net, NEW i \in Entry, i = FindOrAlloc(Seq8(d.msg)),
           Complete(Stored(table[i], d)), table' = [table EXCEPT ![i] = EmptyEntry],
           NEW m \in DOMAIN sizes
    PROVE  /\ Held(m)' \subseteq Held(m)
           /\ Seq8(m) # Seq8(d.msg) => Held(m)' = Held(m)
           /\ Reassembled(Stored(table[i], d)) = WholeMessage(m) =>
                 /\ Held(m)' = {}
                 /\ 0 .. sizes[m] - 1 \subseteq Held(m) \cup (IF m = d.msg THEN {d.seg} ELSE {})
<1> DEFINE f == Stored(table[i], d)
<1>1. /\ table'[i] = EmptyEntry /\ \A j \in Entry : j # i => table'[j] = table[j]
      /\ \A s \in Segment : EmptyEntry.buf[s] = None
  BY DEF TableOK, EmptyEntry
<1>2. m # None /\ sizes[m] \in Nat \ {0}
  BY MessageFacts
<1>3. Held(m)' \subseteq Held(m)
  BY <1>1, <1>2 DEF Held
<1>4. \A s \in Segment : table[i].buf[s] = m => Seq8(m) = Seq8(d.msg)
  <2> SUFFICES ASSUME NEW s \in Segment, table[i].buf[s] = m PROVE Seq8(m) = Seq8(d.msg)
    OBVIOUS
  <2>1. s \in Have(table[i])
    BY HeldIn
  <2> QED BY <2>1, StoredShares
<1>5. Seq8(m) # Seq8(d.msg) => Held(m)' = Held(m)
  BY <1>1, <1>2, <1>4 DEF Held
<1>6. ASSUME Reassembled(f) = WholeMessage(m)
      PROVE  /\ Held(m)' = {}
             /\ 0 .. sizes[m] - 1 \subseteq Held(m) \cup (IF m = d.msg THEN {d.seg} ELSE {})
  <2>1. /\ f.highest \in Nat /\ DOMAIN Reassembled(f) = 1 .. f.highest + 1
        /\ \A s \in 0 .. f.highest : s + 1 \in 1 .. f.highest + 1 /\ s \in Segment
        /\ \A s \in 0 .. f.highest : f.buf[s] = Reassembled(f)[s + 1]
        /\ \A j \in 1 .. f.highest + 1 : Seq8(Reassembled(f)[j]) = Seq8(d.msg)
    BY CompletedFacts
  <2>2. \A s \in Segment : f.buf[s] = IF s = d.seg /\ table[i].buf[s] = None THEN d.msg ELSE table[i].buf[s]
    BY StoredShares
  <2> HIDE DEF f
  <2>3. DOMAIN WholeMessage(m) = 1 .. sizes[m] /\ \A j \in 1 .. sizes[m] : WholeMessage(m)[j] = m
    BY DEF WholeMessage
  <2>4. 1 .. f.highest + 1 = 1 .. sizes[m]
    BY <1>6, <2>1, <2>3
  <2>5. f.highest + 1 = sizes[m]
    <3>1. f.highest + 1 \in 1 .. f.highest + 1 /\ sizes[m] \in 1 .. sizes[m]
      BY <1>2, <2>1
    <3> QED BY <1>2, <2>1, <2>4, <3>1
  <2>6. \A s \in 0 .. sizes[m] - 1 : s \in 0 .. f.highest
    BY <1>2, <2>1, <2>5
  <2>7. \A s \in 0 .. sizes[m] - 1 : s \in Segment /\ f.buf[s] = m
    BY <1>6, <2>1, <2>3, <2>4, <2>6
  <2>8. \A s \in 0 .. sizes[m] - 1 : s \in Held(m) \/ (m = d.msg /\ s = d.seg)
    BY <2>2, <2>7 DEF Held
  <2>9. Seq8(m) = Seq8(d.msg)
    <3>1. 1 \in 1 .. sizes[m]
      BY <1>2
    <3> QED BY <1>6, <2>1, <2>3, <2>4, <3>1
  <2>10. \A j \in Entry, s \in Segment : table'[j].buf[s] # m
    <3> SUFFICES ASSUME NEW j \in Entry, NEW s \in Segment, table'[j].buf[s] = m PROVE FALSE
      OBVIOUS
    <3>1. j # i /\ table[j].buf[s] = m
      BY <1>1, <1>2
    <3>2. table[j].active /\ table[j].seq = Seq8(d.msg)
      BY <2>9, <3>1, HeldIn
    <3>3. table[i].active /\ table[i].seq = Seq8(d.msg)
      BY <3>2, FindFacts
    <3> QED BY <3>1, <3>2, <3>3 DEF TableOK
  <2> QED BY <2>8, <2>10 DEF Held
<1> QED BY <1>3, <1>5, <1>6 DEF f

(* How often a message was dispatched, after p was dispatched.             *)
LEMMA DispatchesNext ==
    ASSUME NetOK, WholeOK, sizes' = sizes, NEW p, delivered' = delivered (+) SetToBag({p}),
           NEW m \in DOMAIN sizes
    PROVE  /\ Dispatches(m)' = Dispatches(m) + (IF p = WholeMessage(m) THEN 1 ELSE 0)
           /\ BagIn(WholeMessage(m), delivered)' <=>
                 p = WholeMessage(m) \/ BagIn(WholeMessage(m), delivered)
<1>1. WholeMessage(m)' = WholeMessage(m)
  BY DEF WholeMessage
<1>2. /\ \A y : (IF BagIn(y, delivered') THEN delivered'[y] ELSE 0)
                = (IF BagIn(y, delivered) THEN delivered[y] ELSE 0) + (IF y = p THEN 1 ELSE 0)
      /\ BagToSet(delivered') = BagToSet(delivered) \cup {p}
  BY BagAdd DEF WholeOK
<1>3. Dispatches(m)' = Dispatches(m) + (IF p = WholeMessage(m) THEN 1 ELSE 0)
  BY <1>1, <1>2 DEF Dispatches
<1> QED BY <1>1, <1>2, <1>3 DEF BagIn

(* The segments of a message of k segments.                                *)
LEMMA FirstSegments ==
    ASSUME NEW k \in Nat
    PROVE  IsFiniteSet(0 .. k - 1) /\ Cardinality(0 .. k - 1) = k
<1>1. 0 \in Int /\ k - 1 \in Int
  OBVIOUS
<1>2. /\ IsFiniteSet(0 .. k - 1)
      /\ Cardinality(0 .. k - 1) = IF 0 > k - 1 THEN 0 ELSE k - 1 - 0 + 1
  BY <1>1, FS_Interval
<1> QED BY <1>2

(* An entry that has every segment of a message that found no entry is not *)
(* left in the table.                                                      *)
LEMMA NotAllHeld ==
    ASSUME NetOK, TableOK, Owners, NEW m \in DOMAIN sizes \ leftover, Latest(m),
           \A s \in 0 .. sizes[m] - 1 : s \in Held(m)
    PROVE  FALSE
<1>1. sizes[m] \in Nat \ {0}
  BY MessageFacts
<1>2. 0 \in Held(m)
  BY <1>1
<1> PICK i \in Entry : table[i].buf[0] = m /\ 0 \in Segment
  BY <1>2 DEF Held
<1> DEFINE e == table[i]
<1>3. e.active /\ e.seq = Seq8(m) /\ EntryOK(e)
  BY HeldIn DEF TableOK
<1>4. Owner(e, m)
  BY <1>3 DEF Owners
<1>5. \A j \in Entry, s \in Segment : table[j].buf[s] = m => j = i /\ s \in Have(e)
  BY <1>3, HeldIn
<1>6. \A s \in 0 .. sizes[m] - 1 : s \in Have(e)
  BY <1>5 DEF Held
<1> HIDE DEF e
<1>7. /\ Have(e) \in SUBSET Segment /\ \A s \in Have(e) : s < sizes[m] /\ s <= e.highest
      /\ e.highest \in Have(e) /\ e.haveLast /\ e.highest \in Nat
  <2>1. sizes[m] - 1 \in Have(e) /\ Have(e) \in SUBSET Segment /\ \A s \in Segment : s \in Nat
    BY <1>1, <1>6 DEF Have, Segment
  <2>2. \A s \in Have(e) : s < sizes[m] /\ s <= e.highest
    BY <1>3, <1>4 DEF Owner, EntryOK, Counted
  <2>3. e.highest # -1
    BY <1>1, <2>1, <2>2
  <2> QED BY <1>3, <1>4, <2>1, <2>2, <2>3 DEF Owner, EntryOK, Counted
<1>8. e.highest = sizes[m] - 1
  BY <1>1, <1>6, <1>7
<1>9. Have(e) = 0 .. sizes[m] - 1
  <2>1. \A s \in Have(e) : s \in Nat
    BY <1>7 DEF Segment
  <2>2. \A s \in Have(e) : s \in 0 .. sizes[m] - 1
    BY <1>1, <1>7, <2>1
  <2> QED BY <1>6, <2>2
<1> QED BY <1>3, <1>7, <1>8, <1>9 DEF EntryOK
-----------------------------------------------------------------------------
(* The message sent last was not there before.                             *)
LEMMA SendCounts ==
    ASSUME NetOK, TableOK, Owners, WholeOK, Count, Under, Send
    PROVE  Count' /\ Under'
<1> PICK n : n = Len(sizes) + 1
  OBVIOUS
<1>1. /\ n \notin DOMAIN sizes /\ DOMAIN sizes' = DOMAIN sizes \cup {n}
      /\ \A j \in DOMAIN sizes : sizes'[j] = sizes[j]
      /\ \A d \in net' : d \in net \/ d.msg = n
      /\ net \subseteq net' /\ gone \subseteq gone' /\ sizes'[n] \in 1 .. MaxSegments
      /\ n \notin gone' => \A s \in 0 .. sizes'[n] - 1 : [msg |-> n, seg |-> s] \in net'
      /\ \A d \in net' : d \notin net => d \in Parts(n, 0 .. sizes'[n] - 1)
      /\ Fresh(n) /\ NetOK'
  BY SendFacts
<1>2. dups' = dups /\ table' = table /\ delivered' = delivered
  BY DEF Send
<1>3. n # None /\ sizes'[n] \in Nat \ {0}
  <2>1. n \in DOMAIN sizes' /\ \A m \in DOMAIN sizes' : m \in Int
    BY <1>1, LenProperties DEF NetOK
  <2> QED BY <1>1, <2>1, SegAssumption
<1>4. ASSUME NEW m \in DOMAIN sizes
      PROVE  /\ Flying(m)' = Flying(m) /\ Held(m)' = Held(m) /\ sizes'[m] = sizes[m]
             /\ WholeMessage(m)' = WholeMessage(m) /\ Dispatches(m)' = Dispatches(m)
             /\ Unharmed(m)' => Unharmed(m)
  <2>1. Flying(m)' = Flying(m)
    BY <1>1 DEF Flying
  <2>2. Held(m)' = Held(m)
    BY <1>2 DEF Held
  <2>3. WholeMessage(m)' = WholeMessage(m)
    BY <1>1 DEF WholeMessage
  <2>4. Dispatches(m)' = Dispatches(m)
    BY <1>2, <2>3 DEF Dispatches
  <2>5. Unharmed(m)' => Unharmed(m)
    BY <1>1, SentStays DEF Next, Unharmed, TailAlone
  <2> QED BY <1>1, <2>1, <2>2, <2>3, <2>4, <2>5
<1>5. Held(n)' = {}
  <2>1. \A i \in Entry : \A s \in Have(table[i]) : table[i].buf[s] # n
    BY <1>1 DEF Owners
  <2>2. \A i \in Entry, s \in Segment : table[i].buf[s] # n
    BY <1>3, <2>1 DEF Have
  <2> QED BY <1>2, <2>2 DEF Held
<1>6. Dispatches(n)' = 0
  <2>1. ASSUME BagIn(WholeMessage(n), delivered)' PROVE FALSE
    <3> PICK p : p = WholeMessage(n)'
      OBVIOUS
    <3>1. 1 \in DOMAIN p /\ p[1] = n
      BY <1>3 DEF WholeMessage
    <3>2. Accounted(p)
      BY <1>2, <2>1 DEF WholeOK, WholeUnlessLeftover, BagIn
    <3>3. ASSUME NEW m \in DOMAIN sizes, p = WholeMessage(m) PROVE FALSE
      <4>1. p[1] = m
        BY <3>1, <3>3 DEF WholeMessage
      <4> QED BY <1>1, <3>1, <4>1
    <3>4. ASSUME NEW m \in DOMAIN sizes, p = <<m>> PROVE FALSE
      BY <1>1, <3>1, <3>4
    <3>5. ASSUME Mixed(p) PROVE FALSE
      BY <1>1, <3>1, <3>5 DEF Mixed
    <3> QED BY <3>2, <3>3, <3>4, <3>5 DEF Accounted
  <2> QED BY <2>1 DEF Dispatches
<1>7. Cardinality(Flying(n)') <= sizes'[n]
  <2>1. ASSUME NEW s \in Flying(n)' PROVE s \in 0 .. sizes'[n] - 1
    <3>1. [msg |-> n, seg |-> s] \in net'
      BY <2>1 DEF Flying
    <3>2. ASSUME [msg |-> n, seg |-> s] \in net PROVE FALSE
      <4>1. [msg |-> n, seg |-> s].msg \in DOMAIN sizes
        BY <3>2, DatagramFacts
      <4> QED BY <1>1, <4>1
    <3>3. [msg |-> n, seg |-> s] \in Parts(n, 0 .. sizes'[n] - 1)
      BY <1>1, <3>1, <3>2
    <3> QED BY <3>3 DEF Parts
  <2>2. Flying(n)' \subseteq 0 .. sizes'[n] - 1
    BY <2>1
  <2>3. IsFiniteSet(0 .. sizes'[n] - 1) /\ Cardinality(0 .. sizes'[n] - 1) = sizes'[n]
    BY <1>3, FirstSegments
  <2>4. Cardinality(Flying(n)') <= Cardinality(0 .. sizes'[n] - 1)
    BY <2>2, <2>3, FS_Subset
  <2> QED BY <2>3, <2>4
<1>8. Count'
  <2>1. ASSUME NEW m \in DOMAIN sizes
        PROVE  Cardinality(Flying(m)') + Taken(m)' <= sizes'[m] + dups'
    BY <1>2, <1>4 DEF Count, Taken
  <2>2. Cardinality({}) = 0
    BY FS_EmptySet
  <2>3. sizes'[n] \in Nat /\ dups' \in Nat /\ Cardinality(Flying(n)') \in Nat
    <3>1. Flying(n)' \in SUBSET Segment
      BY DEF Flying
    <3>2. Cardinality(Flying(n)') \in Nat
      BY <3>1, SegmentSets
    <3> QED BY <1>1, <1>3, <3>2 DEF NetOK
  <2>4. Cardinality(Flying(n)') + Taken(n)' <= sizes'[n] + dups'
    <3>1. Cardinality(Held(n)') = 0
      BY <1>5, <2>2
    <3>2. sizes'[n] * Dispatches(n)' = 0
      BY <1>6, <2>3
    <3>3. Taken(n)' = 0
      BY <3>1, <3>2 DEF Taken
    <3> QED BY <1>7, <2>3, <3>3
  <2> QED BY <1>1, <2>1, <2>4 DEF Count
<1>9. Under'
  <2>1. ASSUME NEW m \in DOMAIN sizes, Unharmed(m)', ~BagIn(WholeMessage(m), delivered)'
        PROVE  Latest(m)' /\ \A s \in 0 .. sizes'[m] - 1 : s \in Flying(m)' \/ s \in Held(m)'
    <3>1. ~BagIn(WholeMessage(m), delivered) /\ Unharmed(m)
      BY <1>2, <1>4, <2>1
    <3>2. Latest(m) /\ \A s \in 0 .. sizes[m] - 1 : s \in Flying(m) \/ s \in Held(m)
      BY <3>1 DEF Under
    <3>3. Seq8(m) # Seq8(n)
      <4> SUFFICES ASSUME Seq8(m) = Seq8(n) PROVE FALSE
        OBVIOUS
      <4>1. Flying(m) = {}
        BY <1>1 DEF Fresh, Flying
      <4> QED BY <3>1, <3>2, <4>1, NotAllHeld DEF Unharmed
    <3>4. Latest(m)'
      BY <1>1, <3>2, <3>3 DEF Latest, Seq8
    <3> QED BY <1>4, <3>2, <3>4
  <2>2. ASSUME Unharmed(n)'
        PROVE  Latest(n)' /\ \A s \in 0 .. sizes'[n] - 1 : s \in Flying(n)'
    <3>1. \A s \in 0 .. sizes'[n] - 1 : s \in Segment
      BY <1>1, Constants DEF Segment
    <3>2. \A s \in 0 .. sizes'[n] - 1 : s \in Flying(n)'
      BY <1>1, <2>2, <3>1 DEF Flying, Unharmed
    <3>3. \A o \in DOMAIN sizes' : o <= n
      <4>1. DOMAIN sizes = 1 .. Len(sizes) /\ Len(sizes) \in Nat
        BY LenProperties DEF NetOK
      <4> QED BY <1>1, <4>1
    <3>4. Latest(n)'
      BY <1>1, <3>3 DEF Latest
    <3> QED BY <3>2, <3>4
  <2> QED BY <1>1, <2>1, <2>2 DEF Under
<1> QED BY <1>8, <1>9

(* Count after a datagram d was taken off the network: what the receiver   *)
(* has of a message is at most that one segment more.                      *)
LEMMA CountStep ==
    ASSUME NetOK, WholeOK, NetOK', WholeOK', Count, sizes' = sizes, NEW d \in net,
           Transfer(d) \/ (net' = net \ {d} /\ UNCHANGED dups),
           \A m \in DOMAIN sizes : m # d.msg => Taken(m)' <= Taken(m),
           Taken(d.msg)' <= Taken(d.msg) + 1
    PROVE  Count'
<1> SUFFICES ASSUME NEW m \in DOMAIN sizes
             PROVE  Cardinality(Flying(m)') + Taken(m)' <= sizes[m] + dups'
  BY DEF Count
<1>1. Cardinality(Flying(m)) \in Nat /\ Taken(m) \in Nat /\ sizes[m] \in Nat /\ dups \in Nat
  BY CountTypes
<1>2. Taken(m)' \in Nat /\ dups' \in Nat
  <2>1. Held(m)' \in SUBSET Segment
    BY DEF Held
  <2>2. \A x : BagIn(x, delivered') => delivered'[x] \in Nat
    BY DEF WholeOK, IsABag, BagIn, BagToSet
  <2>3. Dispatches(m)' \in Nat
    BY <2>2 DEF Dispatches
  <2>4. sizes[m] * Dispatches(m)' \in Nat
    BY <1>1, <2>3
  <2>5. Cardinality(Held(m)') \in Nat
    BY <2>1, SegmentSets
  <2> QED BY <2>4, <2>5 DEF NetOK, Taken
<1>3. Cardinality(Flying(m)) + Taken(m) <= sizes[m] + dups
  BY DEF Count
<1>4. /\ dups' >= dups /\ Cardinality(Flying(d.msg)') \in Nat
      /\ m # d.msg => Cardinality(Flying(m)') = Cardinality(Flying(m))
      /\ Cardinality(Flying(d.msg)') + 1 + dups = Cardinality(Flying(d.msg)) + dups'
  BY TransferFacts
<1>5. CASE m # d.msg
  BY <1>1, <1>2, <1>3, <1>4, <1>5
<1>6. CASE m = d.msg
  BY <1>1, <1>2, <1>3, <1>4, <1>6
<1> QED BY <1>5, <1>6

(* What taking a datagram and dispatching p takes of each message.         *)
LEMMA TakenNext ==
    ASSUME NetOK, WholeOK, sizes' = sizes, NEW m \in DOMAIN sizes,
           NEW one \in {0, 1}, Cardinality(Held(m)') <= Cardinality(Held(m)) + one,
           Cardinality(Held(m)') \in Nat
    PROVE  /\ Dispatches(m)' = Dispatches(m) => Taken(m)' <= Taken(m) + one
           /\ Dispatches(m)' = Dispatches(m) + 1 /\ Cardinality(Held(m)') = 0
                 /\ sizes[m] <= Cardinality(Held(m)) + one => Taken(m)' <= Taken(m) + one
<1>1. /\ Cardinality(Held(m)) \in Nat /\ sizes[m] \in Nat /\ Dispatches(m) \in Nat
      /\ sizes[m] * Dispatches(m) \in Nat
  BY CountTypes
<1>2. sizes[m] * (Dispatches(m) + 1) = sizes[m] * Dispatches(m) + sizes[m]
  <2>1. \A z, c \in Nat : z * (c + 1) = z * c + z
    OBVIOUS
  <2> QED BY <1>1, <2>1
<1>3. ASSUME Dispatches(m)' = Dispatches(m) PROVE Taken(m)' <= Taken(m) + one
  <2> DEFINE D == sizes[m] * Dispatches(m)
  <2>1. Taken(m)' = Cardinality(Held(m)') + D /\ Taken(m) = Cardinality(Held(m)) + D /\ D \in Nat
    BY <1>1, <1>3 DEF Taken
  <2> HIDE DEF D
  <2> QED BY <1>1, <2>1
<1>4. ASSUME Dispatches(m)' = Dispatches(m) + 1, Cardinality(Held(m)') = 0,
             sizes[m] <= Cardinality(Held(m)) + one
      PROVE  Taken(m)' <= Taken(m) + one
  <2> DEFINE D == sizes[m] * Dispatches(m)
  <2>1. Taken(m)' = 0 + (D + sizes[m]) /\ Taken(m) = Cardinality(Held(m)) + D /\ D \in Nat
    BY <1>1, <1>2, <1>4 DEF Taken
  <2> HIDE DEF D
  <2> QED BY <1>1, <1>4, <2>1
<1> QED BY <1>3, <1>4

(* One more element is at most one more.                                   *)
LEMMA OneMore ==
    ASSUME NEW S, NEW x, IsFiniteSet(S)
    PROVE  /\ IsFiniteSet(S \cup {x}) /\ Cardinality(S \cup {x}) \in Nat
           /\ Cardinality(S \cup {x}) <= Cardinality(S) + 1
<1>1. /\ IsFiniteSet(S \cup {x})
      /\ Cardinality(S \cup {x}) = IF x \in S THEN Cardinality(S) ELSE Cardinality(S) + 1
  BY FS_AddElement
<1>2. Cardinality(S) \in Nat
  BY FS_CardinalityType
<1> QED BY <1>1, <1>2

(* Every step keeps the count of the segments of each message.             *)
LEMMA CountNext ==
    ASSUME NetOK, TableOK, Owners, WholeOK, Count, Under, [Next]_vars
    PROVE  Count'
<1>0. NetOK' /\ WholeOK'
  BY NetNext, WholeNext
<1>1. CASE Send BY <1>1, SendCounts
<1>2. CASE UNCHANGED vars
  BY <1>2 DEF vars, sent, Count, Taken, Flying, Held, Dispatches, WholeMessage
<1>3. \A m \in DOMAIN sizes : IsFiniteSet(Held(m)) /\ Cardinality(Held(m)) \in Nat /\ Taken(m) \in Nat
  BY CountTypes
<1>4. ASSUME UNCHANGED <<sizes, delivered>>
      PROVE  \A m : Dispatches(m)' = Dispatches(m)
  BY <1>4 DEF Dispatches, WholeMessage
<1>5. ASSUME NEW m \in DOMAIN sizes, Held(m)' \subseteq Held(m)
      PROVE  Cardinality(Held(m)') \in Nat /\ Cardinality(Held(m)') <= Cardinality(Held(m))
  BY <1>3, <1>5, FS_Subset, FS_CardinalityType
<1>6. ASSUME sizes' = sizes, NEW m \in DOMAIN sizes, Held(m)' \subseteq Held(m),
             Dispatches(m)' = Dispatches(m)
      PROVE  Taken(m)' <= Taken(m)
  BY <1>3, <1>5, <1>6, TakenNext
<1>7. ASSUME NEW d \in net, Transfer(d) \/ (net' = net \ {d} /\ UNCHANGED dups),
             UNCHANGED <<sizes, table, delivered>>
      PROVE  Count'
  <2>1. \A m \in DOMAIN sizes : Held(m)' \subseteq Held(m)
    BY <1>7 DEF Held
  <2>2. \A m \in DOMAIN sizes : Taken(m)' <= Taken(m)
    BY <1>4, <1>6, <1>7, <2>1
  <2>3. Taken(d.msg)' <= Taken(d.msg) + 1
    <3>1. d.msg \in DOMAIN sizes
      BY DatagramFacts
    <3>2. Cardinality(Held(d.msg)') \in Nat /\ Cardinality(Held(d.msg)') <= Cardinality(Held(d.msg)) + 1
      BY <1>3, <1>5, <2>1, <3>1
    <3>3. Dispatches(d.msg)' = Dispatches(d.msg)
      BY <1>4, <1>7
    <3> QED BY <1>7, <3>1, <3>2, <3>3, TakenNext
  <2> QED BY <1>0, <1>7, <2>2, <2>3, CountStep
<1>8. CASE Lose
  BY <1>7, <1>8 DEF Lose, sent
<1>9. CASE ReceiveRefused
  BY <1>7, <1>9 DEF ReceiveRefused, SegmentArrives, sent
<1>10. CASE Reset
  <2>1. UNCHANGED <<sizes, net, dups, delivered>> /\ table' = [i \in Entry |-> EmptyEntry]
    BY <1>10 DEF Reset, sent
  <2>2. \A i \in Entry, s \in Segment : table'[i].buf[s] = None
    BY <2>1 DEF EmptyEntry
  <2>3. \A m \in DOMAIN sizes : Held(m)' \subseteq Held(m) /\ Flying(m)' = Flying(m)
    BY <2>1, <2>2, MessageFacts DEF Held, Flying
  <2>4. \A m \in DOMAIN sizes : Taken(m)' <= Taken(m)
    BY <1>4, <1>6, <2>1, <2>3
  <2>5. ASSUME NEW m \in DOMAIN sizes PROVE Cardinality(Flying(m)') + Taken(m)' <= sizes[m] + dups
    <3>1. Cardinality(Flying(m)) + Taken(m) <= sizes[m] + dups /\ Flying(m)' = Flying(m)
      BY <2>3 DEF Count
    <3>2. Cardinality(Flying(m)) \in Nat /\ Taken(m) \in Nat /\ sizes[m] \in Nat /\ dups \in Nat
      BY CountTypes
    <3>3. Taken(m)' \in Int
      <4>1. Cardinality(Held(m)') \in Nat /\ Dispatches(m)' = Dispatches(m)
        BY <1>4, <1>5, <2>1, <2>3
      <4>2. sizes[m] * Dispatches(m) \in Nat
        BY CountTypes
      <4> QED BY <2>1, <4>1, <4>2 DEF Taken
    <3> QED BY <2>4, <3>1, <3>2, <3>3
  <2> QED BY <2>1, <2>5 DEF Count
<1>11. CASE ReceiveWhole
  <2> PICK d \in net : /\ Direct(d) /\ Transfer(d) /\ UNCHANGED <<sizes, table>>
                       /\ delivered' = delivered (+) SetToBag({<<d.msg>>})
    BY <1>11 DEF ReceiveWhole, sent
  <2>1. \A m : Held(m)' = Held(m)
    BY DEF Held
  <2>2. d.msg \in DOMAIN sizes /\ sizes[d.msg] \in Nat \ {0}
    BY DatagramFacts
  <2>3. ASSUME NEW m \in DOMAIN sizes, m # d.msg PROVE Taken(m)' <= Taken(m)
    <3>1. <<d.msg>> # WholeMessage(m)
      <4>1. 1 \in 1 .. sizes[m]
        BY MessageFacts
      <4>2. WholeMessage(m)[1] = m /\ <<d.msg>>[1] = d.msg
        BY <4>1 DEF WholeMessage
      <4> QED BY <2>3, <4>2
    <3>2. Dispatches(m)' = Dispatches(m) + 0
      BY <3>1, DispatchesNext
    <3>3. Dispatches(m)' = Dispatches(m)
      BY <3>2, CountTypes
    <3> QED BY <1>6, <2>1, <2>3, <3>3
  <2>4. Taken(d.msg)' <= Taken(d.msg) + 1
    <3> DEFINE m == d.msg
    <3>1. Cardinality(Held(m)') = Cardinality(Held(m)) /\ Cardinality(Held(m)) \in Nat
      BY <1>3, <2>1, <2>2
    <3>2. Dispatches(m)' = Dispatches(m) + (IF <<m>> = WholeMessage(m) THEN 1 ELSE 0)
      BY <2>2, DispatchesNext
    <3>3. Dispatches(m) \in Nat /\ sizes[m] * Dispatches(m) \in Nat
      BY <2>2, CountTypes
    <3>4. CASE <<m>> # WholeMessage(m)
      <4>1. Dispatches(m)' = Dispatches(m)
        BY <3>2, <3>3, <3>4
      <4> QED BY <2>2, <3>1, <4>1, TakenNext
    <3>5. CASE <<m>> = WholeMessage(m)
      <4>1. sizes[m] = 1
        <5>1. DOMAIN <<m>> = 1 .. 1 /\ DOMAIN WholeMessage(m) = 1 .. sizes[m]
          BY DEF WholeMessage
        <5>2. sizes[m] \in 1 .. sizes[m]
          BY <2>2
        <5>3. sizes[m] \in 1 .. 1
          BY <3>5, <5>1, <5>2
        <5> QED BY <5>3
      <4>2. Dispatches(m)' = Dispatches(m) + 1
        BY <3>2, <3>5
      <4>3. /\ Taken(m)' = Cardinality(Held(m)) + 1 * (Dispatches(m) + 1)
            /\ Taken(m) = Cardinality(Held(m)) + 1 * Dispatches(m)
        BY <3>1, <4>1, <4>2 DEF Taken
      <4> QED BY <3>1, <3>3, <4>3
    <3> QED BY <3>4, <3>5
  <2> QED BY <1>0, <2>3, <2>4, CountStep
<1>12. CASE ReceiveStored
  <2> PICK d \in net, i \in Entry : /\ Transfer(d) /\ UNCHANGED <<sizes, delivered>>
                                    /\ i = FindOrAlloc(Seq8(d.msg))
                                    /\ table' = [table EXCEPT ![i] = Stored(@, d)]
    BY <1>12 DEF ReceiveStored, SegmentArrives, sent
  <2>1. \A m \in DOMAIN sizes : m # d.msg => Taken(m)' <= Taken(m)
    BY <1>4, <1>6, StoredHeld
  <2>2. Cardinality(Held(d.msg)') \in Nat /\ Cardinality(Held(d.msg)') <= Cardinality(Held(d.msg)) + 1
    <3>1. Held(d.msg)' \subseteq Held(d.msg) \cup {d.seg} /\ d.msg \in DOMAIN sizes
      BY StoredHeld, DatagramFacts
    <3>2. IsFiniteSet(Held(d.msg)) /\ Cardinality(Held(d.msg)) \in Nat
      BY <1>3, <3>1
    <3>3. /\ IsFiniteSet(Held(d.msg) \cup {d.seg})
          /\ Cardinality(Held(d.msg) \cup {d.seg}) <= Cardinality(Held(d.msg)) + 1
          /\ Cardinality(Held(d.msg) \cup {d.seg}) \in Nat
      BY <3>2, OneMore
    <3>4. /\ Cardinality(Held(d.msg)') <= Cardinality(Held(d.msg) \cup {d.seg})
          /\ Cardinality(Held(d.msg)') \in Nat
      BY <3>1, <3>3, FS_Subset, FS_CardinalityType
    <3> QED BY <3>2, <3>3, <3>4
  <2>3. Taken(d.msg)' <= Taken(d.msg) + 1
    BY <1>4, <2>2, DatagramFacts, TakenNext
  <2> QED BY <1>0, <2>1, <2>3, CountStep
<1>13. CASE ReceiveCompletes
  <2> PICK d \in net, i \in Entry :
         /\ Transfer(d) /\ UNCHANGED sizes
         /\ i = FindOrAlloc(Seq8(d.msg)) /\ Complete(Stored(table[i], d))
         /\ delivered' = delivered (+) SetToBag({Reassembled(Stored(table[i], d))})
         /\ table' = [table EXCEPT ![i] = EmptyEntry]
    BY <1>13 DEF ReceiveCompletes, SegmentArrives, sent
  <2> PICK p : p = Reassembled(Stored(table[i], d))
    OBVIOUS
  <2>1. ASSUME NEW m \in DOMAIN sizes
        PROVE  /\ m # d.msg => Taken(m)' <= Taken(m) + 0
               /\ m = d.msg => Taken(m)' <= Taken(m) + 1
    <3>1. /\ Held(m)' \subseteq Held(m)
          /\ p = WholeMessage(m) =>
                /\ Held(m)' = {}
                /\ 0 .. sizes[m] - 1 \subseteq Held(m) \cup (IF m = d.msg THEN {d.seg} ELSE {})
      BY CompletedHeld
    <3>2. /\ IsFiniteSet(Held(m)) /\ Cardinality(Held(m)) \in Nat
          /\ sizes[m] \in Nat /\ Dispatches(m) \in Nat
      BY CountTypes
    <3>3. Cardinality(Held(m)') \in Nat /\ Cardinality(Held(m)') <= Cardinality(Held(m))
      BY <1>5, <3>1
    <3>4. Dispatches(m)' = Dispatches(m) + (IF p = WholeMessage(m) THEN 1 ELSE 0)
      BY DispatchesNext
    <3>5. CASE p # WholeMessage(m)
      <4>1. Dispatches(m)' = Dispatches(m)
        BY <3>2, <3>4, <3>5
      <4> QED BY <3>2, <3>3, <4>1, TakenNext
    <3>6. CASE p = WholeMessage(m)
      <4>1. Dispatches(m)' = Dispatches(m) + 1 /\ Cardinality(Held(m)') = 0
        BY <3>1, <3>4, <3>6, FS_EmptySet
      <4>2. Cardinality(0 .. sizes[m] - 1) = sizes[m]
        BY <3>2, FirstSegments
      <4>3. ASSUME m # d.msg PROVE sizes[m] <= Cardinality(Held(m)) + 0
        <5>1. 0 .. sizes[m] - 1 \subseteq Held(m)
          BY <3>1, <3>6, <4>3
        <5>2. Cardinality(0 .. sizes[m] - 1) <= Cardinality(Held(m))
          BY <3>2, <5>1, FS_Subset
        <5> QED BY <3>2, <4>2, <5>2
      <4>4. ASSUME m = d.msg PROVE sizes[m] <= Cardinality(Held(m)) + 1
        <5>1. 0 .. sizes[m] - 1 \subseteq Held(m) \cup {d.seg}
          BY <3>1, <3>6, <4>4
        <5>2. /\ IsFiniteSet(Held(m) \cup {d.seg}) /\ Cardinality(Held(m) \cup {d.seg}) \in Nat
              /\ Cardinality(Held(m) \cup {d.seg}) <= Cardinality(Held(m)) + 1
          BY <3>2, OneMore
        <5>3. Cardinality(0 .. sizes[m] - 1) <= Cardinality(Held(m) \cup {d.seg})
          BY <5>1, <5>2, FS_Subset
        <5> QED BY <3>2, <4>2, <5>2, <5>3
      <4>5. Cardinality(Held(m)') <= Cardinality(Held(m)) + 0 /\ Cardinality(Held(m)') <= Cardinality(Held(m)) + 1
        BY <3>2, <3>3
      <4> QED BY <3>3, <4>1, <4>3, <4>4, <4>5, TakenNext
    <3> QED BY <3>5, <3>6
  <2>2. \A m \in DOMAIN sizes : m # d.msg => Taken(m)' <= Taken(m)
    BY <1>3, <2>1
  <2>3. Taken(d.msg)' <= Taken(d.msg) + 1
    BY <2>1, DatagramFacts
  <2> QED BY <1>0, <2>2, <2>3, CountStep
<1> QED BY <1>1, <1>2, <1>8, <1>9, <1>10, <1>11, <1>12, <1>13 DEF Next

(* Every step keeps the segments of a message of which nothing was lost.   *)
LEMMA UnderNext ==
    ASSUME NetOK, TableOK, Owners, WholeOK, Count, Under, [Next]_vars
    PROVE  Under'
<1>1. CASE Send BY <1>1, SendCounts
<1>2. CASE ~Send
  <2>1. UNCHANGED <<sizes, shortTail, leftover>> /\ gone \subseteq gone'
    BY <1>2, OtherSteps
  <2>2. \A m : (Latest(m) <=> Latest(m)') /\ (Unharmed(m)' => Unharmed(m)) /\ WholeMessage(m)' = WholeMessage(m)
    BY <2>1 DEF Latest, Seq8, Unharmed, TailAlone, WholeMessage
  <2>3. \A m \in DOMAIN sizes : BagIn(WholeMessage(m), delivered) => BagIn(WholeMessage(m), delivered')
    <3>1. CASE UNCHANGED delivered
      BY <3>1
    <3>2. ASSUME NEW p, delivered' = delivered (+) SetToBag({p})
          PROVE  \A m \in DOMAIN sizes : BagIn(WholeMessage(m), delivered) => BagIn(WholeMessage(m), delivered')
      BY <2>1, <2>2, <3>2, DispatchesNext
    <3> QED BY <3>1, <3>2, Dispatched
  <2> SUFFICES ASSUME NEW m \in DOMAIN sizes, Unharmed(m), Unharmed(m)', Latest(m),
                      \A s \in 0 .. sizes[m] - 1 : s \in Flying(m) \/ s \in Held(m)
               PROVE  \/ BagIn(WholeMessage(m), delivered')
                      \/ \A s \in 0 .. sizes[m] - 1 : s \in Flying(m)' \/ s \in Held(m)'
    BY <2>1, <2>2, <2>3 DEF Under
  <2>4. m \notin gone' /\ m \notin leftover /\ ~TailAlone(m)
    BY DEF Unharmed
  <2>5. CASE UNCHANGED vars
    BY <2>5 DEF vars, Flying, Held
  <2>6. CASE Lose \/ ReceiveRefused
    <3> PICK d \in net : /\ Transfer(d) \/ (net' = net \ {d} /\ UNCHANGED dups)
                         /\ d.msg \in gone' /\ UNCHANGED table
      <4>1. ASSUME NEW d, gone' = gone \cup {d.msg} PROVE d.msg \in gone'
        BY <4>1
      <4> QED BY <2>6, <4>1 DEF Lose, ReceiveRefused, SegmentArrives, Transfer
    <3>1. Flying(m)' = Flying(m) /\ Held(m)' = Held(m)
      BY <2>4, TransferFacts DEF Held
    <3> QED BY <3>1
  <2>7. CASE Reset
    <3>1. /\ net' = net
          /\ gone' = gone \cup {o \in DOMAIN sizes : \E i \in Entry, s \in Segment : table[i].buf[s] = o}
      BY <2>7 DEF Reset
    <3>2. Held(m) = {} /\ Flying(m)' = Flying(m)
      BY <2>4, <3>1 DEF Held, Flying
    <3> QED BY <3>2
  <2>8. CASE ReceiveWhole
    <3> PICK d \in net : /\ Direct(d) /\ Transfer(d) /\ UNCHANGED table
                         /\ delivered' = delivered (+) SetToBag({<<d.msg>>})
      BY <2>8 DEF ReceiveWhole
    <3>1. CASE m # d.msg
      <4>1. Flying(m)' = Flying(m) /\ Held(m)' = Held(m)
        BY <3>1, TransferFacts DEF Held
      <4> QED BY <4>1
    <3>2. CASE m = d.msg
      <4>1. WholeMessage(m) = <<d.msg>>
        BY <2>4, <3>2, DirectFacts
      <4>2. BagIn(WholeMessage(m), delivered)'
        BY <2>1, <4>1, DispatchesNext
      <4> QED BY <2>2, <4>2
    <3> QED BY <3>1, <3>2
  <2>9. CASE ReceiveStored
    <3> PICK d \in net, i \in Entry : /\ Transfer(d) /\ i = FindOrAlloc(Seq8(d.msg))
                                      /\ table' = [table EXCEPT ![i] = Stored(@, d)]
      BY <2>9 DEF ReceiveStored, SegmentArrives
    <3>1. CASE m # d.msg
      <4>1. Flying(m)' = Flying(m) /\ Held(m)' = Held(m)
        BY <3>1, TransferFacts, StoredHeld
      <4> QED BY <4>1
    <3>2. CASE m = d.msg
      <4>1. Flying(m) \ {d.seg} \subseteq Flying(m)' /\ Held(m)' = Held(m) \cup {d.seg}
        BY <2>4, <3>2, TransferFacts, StoredHeld
      <4> QED BY <4>1
    <3> QED BY <3>1, <3>2
  <2>10. CASE ReceiveCompletes
    <3> PICK d \in net, i \in Entry :
           /\ Transfer(d) /\ i = FindOrAlloc(Seq8(d.msg)) /\ Complete(Stored(table[i], d))
           /\ delivered' = delivered (+) SetToBag({Reassembled(Stored(table[i], d))})
           /\ table' = [table EXCEPT ![i] = EmptyEntry]
      BY <2>10 DEF ReceiveCompletes, SegmentArrives
    <3>1. CASE m # d.msg
      <4>1. Seq8(m) # Seq8(d.msg)
        BY <3>1, LatestOne DEF Owners
      <4>2. Flying(m)' = Flying(m) /\ Held(m)' = Held(m)
        BY <3>1, <4>1, TransferFacts, CompletedHeld
      <4> QED BY <4>2
    <3>2. CASE m = d.msg
      <4>1. Reassembled(Stored(table[i], d)) = WholeMessage(m)
        BY <2>4, <3>2, CompletedWhole
      <4>2. BagIn(WholeMessage(m), delivered)'
        BY <2>1, <4>1, DispatchesNext
      <4> QED BY <2>2, <4>2
    <3> QED BY <3>1, <3>2
  <2> QED BY <1>2, <2>5, <2>6, <2>7, <2>8, <2>9, <2>10 DEF Next
<1> QED BY <1>1, <1>2

(* There is no message to count at the start.                              *)
LEMMA CountInit == Init => Count /\ Under
BY EmptySeq DEF Init, Count, Under

(* The inductive invariant of the reassembly.                              *)
THEOREM SegInvariant == Spec => [](NetOK /\ TableOK /\ Owners /\ WholeOK /\ Count /\ Under)
<1>1. NetOK /\ TableOK /\ Owners /\ WholeOK /\ Count /\ Under /\ [Next]_vars
         => (NetOK /\ TableOK /\ Owners /\ WholeOK /\ Count /\ Under)'
  BY NetNext, TableNext, OwnersNext, WholeNext, CountNext, UnderNext
<1> QED BY <1>1, SegInit, WholeInit, CountInit, PTL DEF Spec

(* A message reaches oai_p7_dispatch whole a second time only if the       *)
(* network duplicated every one of its segments.                           *)
THEOREM OneDispatchEach == Spec => []DispatchedOnce
<1>1. ASSUME NetOK, WholeOK, Count PROVE DispatchedOnce
  <2> SUFFICES ASSUME NEW m \in DOMAIN sizes PROVE Dispatches(m) <= 1 + dups \div sizes[m]
    BY DEF DispatchedOnce
  <2>1. /\ Cardinality(Flying(m)) \in Nat /\ Cardinality(Held(m)) \in Nat
        /\ sizes[m] \in Nat \ {0} /\ Dispatches(m) \in Nat /\ dups \in Nat
        /\ sizes[m] * Dispatches(m) \in Nat
    BY <1>1, CountTypes
  <2>2. Cardinality(Flying(m)) + Taken(m) <= sizes[m] + dups
    BY <1>1 DEF Count
  <2> DEFINE D == sizes[m] * Dispatches(m)
  <2>3. Taken(m) = Cardinality(Held(m)) + D /\ D \in Nat
    BY <2>1 DEF Taken
  <2> HIDE DEF D
  <2>4. D <= sizes[m] + dups
    BY <2>1, <2>2, <2>3
  <2>5. \A z \in Nat \ {0}, c, n \in Nat : z * c <= z + n => c <= 1 + (n \div z)
    OBVIOUS
  <2> QED BY <2>1, <2>4, <2>5 DEF D
<1> QED BY <1>1, SegInvariant, PTL

(* Reordering and duplication lose nothing: a message of which no datagram *)
(* was lost or refused, and none is still under way, was dispatched whole, *)
(* unless it met the remains of an earlier one or its last segment went    *)
(* alone.                                                                  *)
THEOREM NothingLingers == Spec => []DispatchedUnlessLost
<1>1. ASSUME NetOK, TableOK, Owners, Under PROVE DispatchedUnlessLost
  <2> SUFFICES ASSUME NEW m \in DOMAIN sizes \ (gone \cup leftover), ~TailAlone(m),
                      \A d \in net : d.msg # m, ~BagIn(WholeMessage(m), delivered)
               PROVE  FALSE
    BY DEF DispatchedUnlessLost
  <2>1. Latest(m) /\ \A s \in 0 .. sizes[m] - 1 : s \in Held(m)
    BY <1>1 DEF Under, Unharmed, Flying
  <2> QED BY <1>1, <2>1, NotAllHeld
<1> QED BY <1>1, SegInvariant, PTL
=============================================================================
