------------------------------ MODULE FapiWire ------------------------------
(***************************************************************************)
(* The OCUDU-FAPI wire format as the translators read it: the readers of   *)
(* ocudu_fapi_wire.h and the "walkers" of dl_tti_request.c and             *)
(* ul_tti_request.c, which must step over every field in lockstep with the *)
(* serialiser of OCUDU-L2.  (translation/OAI_L1_OCUDU and                  *)
(* translation/AERIAL_L1_OCUDU hold the same walkers.)                     *)
(*                                                                         *)
(* A run of fixed fields is one unit of the wire; a count, a flag and each *)
(* element of a vector are units of their own.  A layout says how units    *)
(* follow one another, and in which places the wire decides.               *)
(***************************************************************************)
EXTENDS Integers, Sequences, SequencesExt

CONSTANT MaxBody    \* units of a message of OCUDU-L2 at most

ASSUME MaxBodyAssumption == MaxBody \in Nat

Field(kind, inner, other) == [kind |-> kind, inner |-> inner, other |-> other]

Fix       == Field("fix", <<>>, <<>>)      \* fields of fixed length
Each(l)   == Field("each", l, <<>>)        \* u16 count, then so many l
Alt(l, m) == Field("alt", l, m)            \* u8: l when it is not 0, else m
Vec       == Each(<<Fix>>)                 \* static_vector
Bits      == Vec                           \* bounded_bitset: length, chunks
Opt(l)    == Alt(l, <<>>)                  \* optional

-----------------------------------------------------------------------------
(* Layouts of the structures a DL_TTI PDU is made of ... *)

Dci     == <<Fix, Alt(<<Fix, Fix>>, <<Fix>>), Bits, Opt(<<Fix, Vec, Opt(<<Fix>>)>>)>>
Pdcch   == <<Fix, Bits, Alt(<<Fix>>, <<Fix, Fix, Fix>>), Fix>> \o Dci
PdschMaintV3 == <<Fix, Vec, Fix, Vec, Vec, Fix, Vec>>
Pdsch   == <<Fix, Each(<<Fix>>), Fix, Alt(<<Fix, Fix>>, <<Fix>>), Fix>>
               \o PdschMaintV3 \o <<Fix, Vec, Fix, Vec, Opt(<<Fix>>)>>
CsiRs   == <<Fix, Bits, Fix>>
Ssb     == <<Fix>>
Prs     == <<Fix, Opt(<<Fix>>), Fix>>

(* ... and of those of a UL_TTI and a TX_DATA PDU. *)

UciCorr == <<Each(<<Fix, Vec, Vec, Fix>>)>>
Prach   == <<Fix>>
Pusch   == <<Fix, Vec, Fix, Each(<<Fix>>), Fix>> \o UciCorr \o <<Opt(<<Fix>>)>>
Pucch   == <<Fix>> \o UciCorr
Srs     == <<Fix>>
TxPdu   == <<Fix, Vec>>

(* What a PDU is made of, in order: items [field, k], k = 0 for its type    *)
(* and k > 0 for the fields of its k-th structure.  Every PDU of a TTI      *)
(* request carries all the structures, whatever its type; the k-th is       *)
(* meant by a PDU whose type is one of the k-th set.                        *)
Structures   == 1 .. 5
Items(l, k)  == [j \in DOMAIN l |-> [field |-> l[j], k |-> k]]
Type         == <<Fix>>
DlPdu        == Items(Type, 0) \o Items(Pdcch, 1) \o Items(Pdsch, 2)
                   \o Items(CsiRs, 3) \o Items(Ssb, 4) \o Items(Prs, 5)
UlPdu        == Items(Type, 0) \o Items(Prach, 1) \o Items(Pusch, 2)
                   \o Items(Pucch, 3) \o Items(Srs, 4)
UlDciPdu     == Items(Pdcch, 1)
TxDataPdu    == Items(TxPdu, 1)
DlTypes      == <<{0}, {1}, {2}, {3}>>
UlTypes      == <<{0}, {1, 5}, {2, 3}, {4}>>

(* The walkers of the AERIAL_L1_OCUDU translators step over the same        *)
(* fields.                                                                  *)
AerialDlPdu == DlPdu
AerialUlPdu == UlPdu

Repeat(l, n) == [j \in 1 .. n * Len(l) |-> l[1 + ((j - 1) % Len(l))]]

(* The body of a message of so many PDUs: items [field, k, pdu]. *)
Body(pdu, total) ==
    [j \in 1 .. total * Len(pdu) |->
        LET item == Repeat(pdu, total)[j]
        IN  [field |-> item.field, k |-> item.k, pdu |-> 1 + ((j - 1) \div Len(pdu))]]

-----------------------------------------------------------------------------
(* A walk: the items still to come, and the units seen so far, each with   *)
(* the item it belongs to.                                                 *)

Start(items) == [todo |-> items, seen |-> <<>>]

(* What an item whose first unit is v goes on with. *)
Expand(item, v) ==
    LET f == item.field
        l == CASE f.kind = "fix"  -> <<>>
               [] f.kind = "each" -> Repeat(f.inner, v)
               [] f.kind = "alt"  -> IF v # 0 THEN f.inner ELSE f.other
    IN  [j \in DOMAIN l |-> [item EXCEPT !.field = l[j]]]

Step(w, v) == [todo |-> Expand(Head(w.todo), v) \o Tail(w.todo),
               seen |-> Append(w.seen, [item |-> Head(w.todo), v |-> v])]

(* A walk takes one unit after the other, Next(w, i) being the i-th, until *)
(* it has all its items or n units.  (It is cut into blocks because TLC    *)
(* recurs as deep as the function does.)                                   *)
Units(Next(_, _), start, first, last) ==
    LET walk[i \in first .. last] ==
            IF i = first THEN start
            ELSE LET w == walk[i - 1]
                 IN  IF w.todo = <<>> THEN w ELSE Step(w, Next(w, i))
    IN  walk[last]

BlockSize == 16
Walk(Next(_, _), items, n) ==
    LET end(b)   == IF b * BlockSize <= n THEN b * BlockSize ELSE n
        blocks   == 1 + (n \div BlockSize)
        block[b \in 0 .. blocks] ==
            IF b = 0 THEN Start(items)
            ELSE LET w == block[b - 1]
                 IN  IF w.todo = <<>> THEN w ELSE Units(Next, w, end(b - 1), end(b))
    IN  block[blocks]

(* What the fixed fields of structure k of a PDU were read as. *)
Got(w, i, k) ==
    {w.seen[j].v : j \in {j \in DOMAIN w.seen : /\ w.seen[j].item.field.kind = "fix"
                                                /\ w.seen[j].item.pdu = i
                                                /\ w.seen[j].item.k = k}}

(* The PDU loop of a translator: a PDU is its type (UL_DCI and TX_DATA have *)
(* none) and what each structure was read as.  A PDU cut short, and what    *)
(* follows it, is not read.                                                 *)
ReadPdus(pdu, total, wire) ==
    LET w     == Walk(LAMBDA w, i : wire[i], Body(pdu, total), Len(wire))
        whole == IF w.todo = <<>> THEN total ELSE Head(w.todo).pdu - 1
    IN  [error |-> w.todo # <<>>, off |-> Len(w.seen),
         pdus  |-> [i \in 1 .. whole |->
                       [type |-> Got(w, i, 0), got |-> [k \in Structures |-> Got(w, i, k)]]]]

(* The walk must end where the body ends. *)
WalkOk(s, wire) == ~s.error /\ s.off = Len(wire)

-----------------------------------------------------------------------------
(* OCUDU-L2's serialiser.  pdus is a sequence of [type, id, n]: the fixed   *)
(* fields of the k-th structure of a PDU carry Mark(id, k), its vectors     *)
(* have n elements, and n > 0 also makes the first choice of each Alt.      *)

Mark(id, k) == 100 + 10 * id + k

Unit(item, pdus) ==
    LET p == pdus[item.pdu]
    IN  CASE item.field.kind = "fix"  -> IF item.k = 0 THEN p.type ELSE Mark(p.id, item.k)
          [] item.field.kind = "each" -> p.n
          [] item.field.kind = "alt"  -> IF p.n > 0 THEN 1 ELSE 0

(* The writer goes through the body likewise, as far as its buffer takes it. *)
Serialize(pdu, pdus) ==
    Walk(LAMBDA w, i : Unit(Head(w.todo), pdus), Body(pdu, Len(pdus)), MaxBody)

FitsBuffer(w) == w.todo = <<>>
Wire(w)       == [i \in DOMAIN w.seen |-> w.seen[i].v]
=============================================================================
