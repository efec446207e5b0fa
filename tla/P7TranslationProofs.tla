------------------------ MODULE P7TranslationProofs ------------------------
(***************************************************************************)
(* Proofs about P7Translation for every numerology, length of the clock,   *)
(* limit of the nFAPI messages, size of OCUDU-L2's buffer, content, and    *)
(* lists of PDUs that fit both.                                            *)
(*                                                                         *)
(* WholeOrNothing rests on what the reader makes of the writer's units.    *)
(* Both walk the same layout and take the same step at the same unit, so   *)
(* the items still to come are the same at every place of the wire; the    *)
(* writer marks each unit with its PDU and structure, loses no item, and   *)
(* is done where the wire ends.  So an intact body is read PDU by PDU as   *)
(* it was written, and one cut short or too long does not end where the    *)
(* walk does.  From there the lists are followed one step at a time, by    *)
(* the numbers of the PDUs they hold.                                      *)
(*                                                                         *)
(* SlotAgreement is arithmetic of frames and slots, FeedbackTruth says     *)
(* that every PDU that L1 received has an outcome, and ReadAsMeant that    *)
(* each mapper leaves its fields with the meaning they were given, and     *)
(* that the lists leave the fields alone.                                  *)
(***************************************************************************)
EXTENDS P7Translation, SequenceFacts

-----------------------------------------------------------------------------
(* The wire: its fields and what a walk makes of them.                     *)

(* The layouts as data: fields whose choices are sequences of fields,      *)
(* nested at most twice.                                                   *)
FieldsOver(L) == [kind : {"fix", "each", "alt"}, inner : L, other : L]
Flat1  == FieldsOver({<<>>})
Flat2  == FieldsOver(Seq(Flat1))
Fields == FieldsOver(Seq(Flat2))
PduItems(K) == [field : Fields, k : K]
BodyItems(P, K) == [field : Fields, k : K, pdu : P]
UnitsSeen(P, K) == [item : BodyItems(P, K), v : Nat]
Walks(P, K) == [todo : Seq(BodyItems(P, K)), seen : Seq(UnitsSeen(P, K))]

(* A field within a field is a field: the layouts are nested two deep at   *)
(* most.                                                                   *)
LEMMA FieldFacts ==
    /\ {<<>>} \subseteq Seq(Flat1) /\ Flat1 \subseteq Flat2
    /\ Seq(Flat1) \subseteq Seq(Flat2) /\ Flat2 \subseteq Fields
    /\ \A f \in Fields : f.inner \in Seq(Fields) /\ f.other \in Seq(Fields)
<1>1. {<<>>} \subseteq Seq(Flat1)
  OBVIOUS
<1>2. Flat1 \subseteq Flat2
  BY <1>1 DEF Flat1, Flat2, FieldsOver
<1>3. Seq(Flat1) \subseteq Seq(Flat2)
  BY <1>2, SeqMonotone
<1>4. Flat2 \subseteq Fields
  BY <1>3 DEF Flat2, Fields, FieldsOver
<1>5. Seq(Flat2) \subseteq Seq(Fields)
  BY <1>4, SeqMonotone
<1>6. \A f \in Fields : f.inner \in Seq(Fields) /\ f.other \in Seq(Fields)
  BY <1>5 DEF Fields, FieldsOver
<1> QED BY <1>1, <1>2, <1>3, <1>4, <1>6

(* The kinds of field there are.                                           *)
LEMMA FieldKinds == ASSUME NEW f \in Fields PROVE f.kind \in {"fix", "each", "alt"}
BY DEF Fields, FieldsOver

(* l, n times over. *)
LEMMA RepeatFacts ==
    ASSUME NEW S, NEW l \in Seq(S), NEW n \in Nat
    PROVE  /\ Repeat(l, n) \in Seq(S) /\ n * Len(l) \in Nat /\ Len(Repeat(l, n)) = n * Len(l)
           /\ \A j \in 1 .. n * Len(l) : /\ Repeat(l, n)[j] = l[1 + ((j - 1) % Len(l))]
                                         /\ 1 + ((j - 1) % Len(l)) \in DOMAIN l
<1>0. Len(l) \in Nat /\ DOMAIN l = 1 .. Len(l) /\ \A i \in DOMAIN l : l[i] \in S
  OBVIOUS
<1>1. n * Len(l) \in Nat
  BY <1>0
<1>2. ASSUME NEW j \in 1 .. n * Len(l) PROVE 1 + ((j - 1) % Len(l)) \in DOMAIN l
  <2>1. CASE Len(l) = 0
    <3>1. n * Len(l) = 0
      BY <2>1
    <3> QED BY <3>1
  <2>2. CASE Len(l) > 0
    BY <1>0, <1>1, <2>2
  <2> QED BY <1>0, <2>1, <2>2
<1>3. Repeat(l, n) = [j \in 1 .. n * Len(l) |-> l[1 + ((j - 1) % Len(l))]]
  BY DEF Repeat
<1>4. \A j \in 1 .. n * Len(l) : l[1 + ((j - 1) % Len(l))] \in S
  BY <1>0, <1>2
<1> PICK m \in Nat : m = n * Len(l)
  BY <1>1
<1>5. Repeat(l, n) \in [1 .. m -> S]
  BY <1>3, <1>4
<1>6. Repeat(l, n) \in Seq(S) /\ Len(Repeat(l, n)) = m
  BY <1>5
<1> QED BY <1>1, <1>2, <1>3, <1>6

(* What an item goes on with belongs to the same PDU and structure as the  *)
(* item.                                                                   *)
LEMMA ExpandType ==
    ASSUME NEW P, NEW K, NEW item \in BodyItems(P, K), NEW v \in Nat
    PROVE  /\ Expand(item, v) \in Seq(BodyItems(P, K))
           /\ \A j \in DOMAIN Expand(item, v) : /\ Expand(item, v)[j].pdu = item.pdu
                                                /\ Expand(item, v)[j].k = item.k
<1> DEFINE f == item.field
<1>1. f \in Fields /\ f.inner \in Seq(Fields) /\ f.other \in Seq(Fields)
  BY FieldFacts DEF BodyItems
<1>l. PICK l : l = CASE f.kind = "fix"  -> <<>>
                   [] f.kind = "each" -> Repeat(f.inner, v)
                   [] f.kind = "alt"  -> IF v # 0 THEN f.inner ELSE f.other
  OBVIOUS
<1>2. Repeat(f.inner, v) \in Seq(Fields)
  BY <1>1, RepeatFacts
<1>3. l \in Seq(Fields)
  BY <1>l, <1>1, <1>2, FieldKinds
<1>4. Expand(item, v) = [j \in DOMAIN l |-> [item EXCEPT !.field = l[j]]]
  BY <1>l DEF Expand
<1>5. DOMAIN l = 1 .. Len(l) /\ Len(l) \in Nat /\ \A j \in DOMAIN l : l[j] \in Fields
  BY <1>3, SeqFacts
<1>6. \A j \in DOMAIN l : [item EXCEPT !.field = l[j]] \in BodyItems(P, K)
  BY <1>5 DEF BodyItems
<1>7. Expand(item, v) \in [1 .. Len(l) -> BodyItems(P, K)]
  BY <1>4, <1>5, <1>6
<1>8. Expand(item, v) \in Seq(BodyItems(P, K))
  BY <1>5, <1>7
<1>9. \A j \in DOMAIN l : [item EXCEPT !.field = l[j]].pdu = item.pdu /\ [item EXCEPT !.field = l[j]].k = item.k
  BY DEF BodyItems
<1> QED BY <1>4, <1>8, <1>9

(* A step of a walk is a walk, and takes its first item.                   *)
LEMMA StepType ==
    ASSUME NEW P, NEW K, NEW w \in Walks(P, K), NEW v \in Nat, w.todo # <<>>
    PROVE  /\ Step(w, v) \in Walks(P, K)
           /\ Head(w.todo) \in BodyItems(P, K)
           /\ Step(w, v).todo = Expand(Head(w.todo), v) \o Tail(w.todo)
           /\ Step(w, v).seen = Append(w.seen, [item |-> Head(w.todo), v |-> v])
<1>1. w.todo \in Seq(BodyItems(P, K)) /\ w.seen \in Seq(UnitsSeen(P, K))
  BY DEF Walks
<1>2. Head(w.todo) \in BodyItems(P, K) /\ Tail(w.todo) \in Seq(BodyItems(P, K))
  BY <1>1
<1>3. Expand(Head(w.todo), v) \in Seq(BodyItems(P, K))
  BY <1>2, ExpandType
<1>4. Expand(Head(w.todo), v) \o Tail(w.todo) \in Seq(BodyItems(P, K))
  BY <1>2, <1>3
<1>5. [item |-> Head(w.todo), v |-> v] \in UnitsSeen(P, K)
  BY <1>2 DEF UnitsSeen
<1>6. Append(w.seen, [item |-> Head(w.todo), v |-> v]) \in Seq(UnitsSeen(P, K))
  BY <1>1, <1>5
<1> QED BY <1>2, <1>4, <1>6 DEF Step, Walks

-----------------------------------------------------------------------------
(* A walk is cut into blocks; it ends where the steps one after another    *)
(* end.                                                                    *)

(* The walk over n units that does not stop in between.                    *)
Flow(F, P, K, Nx, items, n) ==
    /\ F[0] = Start(items) /\ \A i \in 0 .. n : F[i] \in Walks(P, K)
    /\ \A i \in 0 .. n - 1 :
           F[i + 1] = IF F[i].todo = <<>> THEN F[i] ELSE Step(F[i], Nx[i][F[i]])

(* Whatever the next unit is chosen by, some flow follows it.              *)
LEMMA FlowExists ==
    ASSUME NEW P, NEW K, NEW items \in Seq(BodyItems(P, K)), NEW n \in Nat, NEW Nx \in [Nat -> [Walks(P, K) -> Nat]]
    PROVE  \E F : Flow(F, P, K, Nx, items, n)
<1> DEFINE X == Walks(P, K)
           step == [i \in Nat |-> [w \in X |-> IF w.todo = <<>> THEN w ELSE Step(w, Nx[i][w])]]
<1>1. ASSUME NEW i \in Nat, NEW w \in X
      PROVE  (IF w.todo = <<>> THEN w ELSE Step(w, Nx[i][w])) \in X
  <2>1. Nx[i][w] \in Nat
    OBVIOUS
  <2>2. w.todo # <<>> => Step(w, Nx[i][w]) \in X
    BY <2>1, StepType
  <2> QED BY <2>2
<1>2. step \in [Nat -> [X -> X]]
  BY <1>1
<1>3. Start(items) \in X
  BY DEF Start, Walks
<1>4. CanStep(X, n, Start(items), step)
  <2> HIDE DEF step, X
  <2> QED BY <1>2, <1>3 DEF CanStep
<1>5. PICK F : Steps(F, X, n, Start(items), step)
  BY <1>4, Iteration
<1>6. F[0] = Start(items) /\ \A i \in 0 .. n : F[i] \in X
  BY <1>5 DEF Steps
<1>7. ASSUME NEW i \in 0 .. n - 1
      PROVE  F[i + 1] = IF F[i].todo = <<>> THEN F[i] ELSE Step(F[i], Nx[i][F[i]])
  <2>1. F[i] \in X /\ i \in Nat
    BY <1>6
  <2>2. F[i + 1] = step[i][F[i]]
    BY <1>5 DEF Steps
  <2> HIDE DEF X
  <2> QED BY <2>1, <2>2
<1> QED BY <1>6, <1>7 DEF Flow

(* The steps of a reader that takes its units from the wire.               *)
Reads(F, n, wire) ==
    \A i \in 0 .. n - 1 : F[i + 1] = IF F[i].todo = <<>> THEN F[i] ELSE Step(F[i], wire[i + 1])
ReadUnits(wire, w, a, c) == Units(LAMBDA w2, i : wire[i], w, a, c)

(* One block of a reader's walk takes the steps of the flow from a to c.   *)
LEMMA UnitsRead ==
    ASSUME NEW F, NEW n \in Nat, NEW wire, Reads(F, n, wire),
           NEW a \in Nat, NEW c \in Nat, a <= c, c <= n
    PROVE  ReadUnits(wire, F[a], a, c) = F[c]
<1> USE DEF Reads
<1> DEFINE Eq(g) == g = [i \in a .. c |-> IF i = a THEN F[a] ELSE
                            IF g[i - 1].todo = <<>> THEN g[i - 1] ELSE Step(g[i - 1], wire[i])]
<1>1. Eq([i \in a .. c |-> F[i]])
  <2> DEFINE g == [i \in a .. c |-> F[i]]
  <2>1. ASSUME NEW i \in a .. c
        PROVE  g[i] = IF i = a THEN F[a] ELSE
                            IF g[i - 1].todo = <<>> THEN g[i - 1] ELSE Step(g[i - 1], wire[i])
    <3>1. CASE i = a
      BY <3>1
    <3>2. CASE i # a
      <4>1. i - 1 \in 0 .. n - 1 /\ i - 1 \in a .. c /\ (i - 1) + 1 = i
        BY <3>2
      <4>2. g[i - 1] = F[i - 1] /\ g[i] = F[i]
        BY <4>1
      <4>3. F[i] = IF F[i - 1].todo = <<>> THEN F[i - 1] ELSE Step(F[i - 1], wire[i])
        BY <4>1
      <4> QED BY <3>2, <4>2, <4>3
    <3> QED BY <3>1, <3>2
  <2> HIDE DEF g
  <2>2. g = [i \in a .. c |-> g[i]]
    BY DEF g
  <2> QED BY <2>1, <2>2
<1>2. ReadUnits(wire, F[a], a, c) = (CHOOSE g : Eq(g))[c]
  BY DEF ReadUnits, Units
<1> PICK g : g = CHOOSE h : Eq(h)
  OBVIOUS
<1>3. Eq(g)
  <2> HIDE DEF Eq
  <2> QED BY <1>1
<1>4. g[a] = F[a]
  <2>1. a \in a .. c
    OBVIOUS
  <2>2. g = [i \in a .. c |-> IF i = a THEN F[a] ELSE
               IF g[i - 1].todo = <<>> THEN g[i - 1] ELSE Step(g[i - 1], wire[i])]
    BY <1>3
  <2> QED BY <2>1, <2>2
<1>5. ASSUME NEW i \in a .. c - 1, g[i] = F[i] PROVE g[i + 1] = F[i + 1]
  <2>1. i + 1 \in a .. c /\ i + 1 # a /\ i \in 0 .. n - 1 /\ (i + 1) - 1 = i
    OBVIOUS
  <2>2. g[i + 1] = IF g[i].todo = <<>> THEN g[i] ELSE Step(g[i], wire[i + 1])
    <3> PICK j : j = i + 1 OBVIOUS
    <3>1. j \in a .. c /\ j # a /\ j - 1 = i
      BY <2>1
    <3> DEFINE rhs == [k \in a .. c |-> IF k = a THEN F[a] ELSE
                        IF g[k - 1].todo = <<>> THEN g[k - 1] ELSE Step(g[k - 1], wire[k])]
    <3>2. rhs[j] = IF g[j - 1].todo = <<>> THEN g[j - 1] ELSE Step(g[j - 1], wire[j])
      BY <3>1
    <3>3. g = rhs
      BY <1>3
    <3> HIDE DEF rhs
    <3>4. g[j] = rhs[j]
      BY <3>3
    <3>5. g[j] = IF g[i].todo = <<>> THEN g[i] ELSE Step(g[i], wire[j])
      BY <3>1, <3>2, <3>4
    <3> QED BY <3>5, SMTT(60)
  <2> QED BY <1>5, <2>1, <2>2
<1>6. \A i \in a .. c : g[i] = F[i]
  <2>1. Alike(g, F, a, c)
    <3> HIDE DEF Eq
    <3> QED BY <1>4, <1>5 DEF Alike
  <2> QED BY <2>1, Agreement
<1>7. g[c] = F[c]
  BY <1>6
<1> QED BY <1>2, <1>7

(* A walk that has all its items stays where it is.                        *)
Stops(F, n) == \A i \in 0 .. n - 1 : F[i].todo = <<>> => F[i + 1] = F[i]

(* ... however long it goes on.                                            *)
LEMMA Idle ==
    ASSUME NEW F, NEW n \in Nat, Stops(F, n),
           NEW a \in Nat, NEW c \in Nat, a <= c, c <= n, F[a].todo = <<>>
    PROVE  F[c] = F[a]
<1> DEFINE g == [i \in Nat |-> F[a]]
<1>1. Alike(F, g, a, c)
  <2>1. F[a] = g[a]
    OBVIOUS
  <2>2. ASSUME NEW i \in a .. c - 1, F[i] = g[i] PROVE F[i + 1] = g[i + 1]
    <3>1. F[i] = F[a] /\ i \in 0 .. n - 1 /\ g[i + 1] = F[a]
      BY <2>2
    <3>2. F[i + 1] = F[i]
      BY <3>1 DEF Stops
    <3> QED BY <3>1, <3>2
  <2> HIDE DEF g
  <2> QED BY <2>1, <2>2 DEF Alike
<1>2. F[c] = g[c]
  <2>1. c \in a .. c
    OBVIOUS
  <2> HIDE DEF g
  <2> QED BY <1>1, <2>1, Agreement
<1> QED BY <1>2

(* Where the b-th block of a walk of n units ends.                         *)
End(b, n) == IF b * BlockSize <= n THEN b * BlockSize ELSE n
Blocks(n) == 1 + (n \div BlockSize)

(* The blocks follow one another from 0 to n.                              *)
LEMMA EndFacts ==
    ASSUME NEW n \in Nat
    PROVE  /\ Blocks(n) \in Nat /\ End(0, n) = 0 /\ End(Blocks(n), n) = n
           /\ \A b \in 0 .. Blocks(n) : End(b, n) \in Nat /\ End(b, n) <= n
           /\ \A b \in 1 .. Blocks(n) : End(b - 1, n) \in Nat /\ End(b - 1, n) <= End(b, n) /\ End(b, n) <= n
BY DEF Blocks, End, BlockSize

(* The whole walk of a reader.                                             *)
ReadWalkOf(wire, items, n) == Walk(LAMBDA w, i : wire[i], items, n)

(* The walk of a reader, in blocks, ends where its flow ends.              *)
LEMMA ReadWalk ==
    ASSUME NEW F, NEW n \in Nat, NEW wire, NEW items, F[0] = Start(items), Reads(F, n, wire)
    PROVE  ReadWalkOf(wire, items, n) = F[n]
<1>s. Stops(F, n)
  BY DEF Stops, Reads
<1>m. PICK m \in Nat : m = Blocks(n)
  BY EndFacts
<1> DEFINE Of(w, b) == IF w.todo = <<>> THEN w
                       ELSE ReadUnits(wire, w, End(b - 1, n), End(b, n))
           Rhs(g) == [b \in 0 .. m |-> IF b = 0 THEN Start(items) ELSE Of(g[b - 1], b)]
           Eq(g) == g = Rhs(g)
           G == [b \in 0 .. m |-> F[End(b, n)]]
<1>0. /\ End(0, n) = 0 /\ End(m, n) = n
      /\ \A b \in 1 .. m : /\ End(b - 1, n) \in Nat /\ End(b, n) \in Nat
                           /\ End(b - 1, n) <= End(b, n) /\ End(b, n) <= n
  BY <1>m, EndFacts
<1>1. ASSUME NEW b \in 1 .. m PROVE Of(F[End(b - 1, n)], b) = F[End(b, n)]
  <2>1. End(b - 1, n) \in Nat /\ End(b, n) \in Nat /\ End(b - 1, n) <= End(b, n) /\ End(b, n) <= n
    BY <1>0
  <2>2. CASE F[End(b - 1, n)].todo = <<>>
    <3>2. F[End(b, n)] = F[End(b - 1, n)]
      BY <1>s, <2>1, <2>2, Idle
    <3> QED BY <2>2, <3>2
  <2>3. CASE F[End(b - 1, n)].todo # <<>>
    <3>1. ReadUnits(wire, F[End(b - 1, n)], End(b - 1, n), End(b, n)) = F[End(b, n)]
      BY <2>1, UnitsRead
    <3> QED BY <2>3, <3>1
  <2> QED BY <2>2, <2>3
<1>2. Eq(G)
  <2> HIDE DEF Of
  <2>1. ASSUME NEW b \in 0 .. m PROVE G[b] = Rhs(G)[b]
    <3>1. CASE b = 0
      <4>1. G[b] = F[0]
        BY <1>0, <3>1
      <4> QED BY <3>1, <4>1
    <3>2. CASE b # 0
      <4>1. b \in 1 .. m /\ b - 1 \in 0 .. m
        BY <3>2
      <4>2. G[b - 1] = F[End(b - 1, n)] /\ G[b] = F[End(b, n)]
        BY <4>1
      <4> QED BY <1>1, <3>2, <4>1, <4>2
    <3> QED BY <3>1, <3>2
  <2>2. G = [b \in 0 .. m |-> G[b]] /\ Rhs(G) = [b \in 0 .. m |-> Rhs(G)[b]]
    OBVIOUS
  <2> HIDE DEF G, Rhs
  <2> QED BY <2>1, <2>2
<1>3. ReadWalkOf(wire, items, n) = (CHOOSE g : Eq(g))[m]
  BY <1>m DEF ReadWalkOf, Walk, End, Blocks, ReadUnits
<1> PICK g : g = CHOOSE h : Eq(h)
  OBVIOUS
<1>4. g = Rhs(g)
  <2>1. Eq(g)
    <3> HIDE DEF Eq
    <3> QED BY <1>2
  <2> QED BY <2>1
<1>5. Alike(g, G, 0, m)
  <2> HIDE DEF Of
  <2>1. g[0] = G[0]
    <3>1. Rhs(g)[0] = Start(items)
      BY <1>0
    <3>2. G[0] = F[0]
      BY <1>0
    <3> HIDE DEF Rhs, G
    <3> QED BY <1>4, <3>1, <3>2
  <2>2. ASSUME NEW i \in 0 .. m - 1, g[i] = G[i] PROVE g[i + 1] = G[i + 1]
    <3> PICK b : b = i + 1
      OBVIOUS
    <3>1. b \in 1 .. m /\ b \in 0 .. m /\ b # 0 /\ b - 1 = i /\ i \in 0 .. m
      OBVIOUS
    <3>2. Rhs(g)[b] = Of(g[i], b)
      BY <3>1
    <3>3. G[b] = F[End(b, n)] /\ G[i] = F[End(b - 1, n)]
      BY <3>1
    <3> HIDE DEF Rhs, G
    <3>4. g[b] = Rhs(g)[b]
      BY <1>4
    <3> QED BY <1>1, <2>2, <3>1, <3>2, <3>3, <3>4
  <2> HIDE DEF G, Rhs
  <2> QED BY <1>0, <2>1, <2>2 DEF Alike
<1>6. g[m] = G[m]
  <2>1. m \in 0 .. m
    OBVIOUS
  <2> HIDE DEF G, Rhs
  <2> QED BY <1>5, <2>1, Agreement
<1>7. G[m] = F[n]
  BY <1>0
<1> HIDE DEF G, Rhs
<1> QED BY <1>3, <1>6, <1>7

(* The steps of a writer.                                                  *)
Writes(F, n, pdus) ==
    \A i \in 0 .. n - 1 : F[i + 1] = IF F[i].todo = <<>> THEN F[i] ELSE Step(F[i], Unit(Head(F[i].todo), pdus))
WriteUnits(pdus, w, a, c) == Units(LAMBDA w2, i : Unit(Head(w2.todo), pdus), w, a, c)

(* One block of the writer's walk takes the steps of the flow from a to    *)
(* c.                                                                      *)
LEMMA UnitsWritten ==
    ASSUME NEW F, NEW n \in Nat, NEW pdus, Writes(F, n, pdus),
           NEW a \in Nat, NEW c \in Nat, a <= c, c <= n
    PROVE  WriteUnits(pdus, F[a], a, c) = F[c]
<1> USE DEF Writes
<1> DEFINE Eq(g) == g = [i \in a .. c |-> IF i = a THEN F[a] ELSE
                            IF g[i - 1].todo = <<>> THEN g[i - 1] ELSE Step(g[i - 1], Unit(Head(g[i - 1].todo), pdus))]
<1>1. Eq([i \in a .. c |-> F[i]])
  <2> DEFINE g == [i \in a .. c |-> F[i]]
  <2>1. ASSUME NEW i \in a .. c
        PROVE  g[i] = IF i = a THEN F[a] ELSE
                            IF g[i - 1].todo = <<>> THEN g[i - 1] ELSE Step(g[i - 1], Unit(Head(g[i - 1].todo), pdus))
    <3>1. CASE i = a
      BY <3>1
    <3>2. CASE i # a
      <4>1. i - 1 \in 0 .. n - 1 /\ i - 1 \in a .. c /\ (i - 1) + 1 = i
        BY <3>2
      <4>2. g[i - 1] = F[i - 1] /\ g[i] = F[i]
        BY <4>1
      <4>3. F[i] = IF F[i - 1].todo = <<>> THEN F[i - 1] ELSE Step(F[i - 1], Unit(Head(F[i - 1].todo), pdus))
        BY <4>1
      <4> QED BY <3>2, <4>2, <4>3
    <3> QED BY <3>1, <3>2
  <2> HIDE DEF g
  <2>2. g = [i \in a .. c |-> g[i]]
    BY DEF g
  <2> QED BY <2>1, <2>2
<1>2. WriteUnits(pdus, F[a], a, c) = (CHOOSE g : Eq(g))[c]
  BY DEF WriteUnits, Units
<1> PICK g : g = CHOOSE h : Eq(h)
  OBVIOUS
<1>3. Eq(g)
  <2> HIDE DEF Eq
  <2> QED BY <1>1
<1>4. g[a] = F[a]
  <2>1. a \in a .. c
    OBVIOUS
  <2>2. g = [i \in a .. c |-> IF i = a THEN F[a] ELSE
               IF g[i - 1].todo = <<>> THEN g[i - 1] ELSE Step(g[i - 1], Unit(Head(g[i - 1].todo), pdus))]
    BY <1>3
  <2> QED BY <2>1, <2>2
<1>5. ASSUME NEW i \in a .. c - 1, g[i] = F[i] PROVE g[i + 1] = F[i + 1]
  <2>1. i + 1 \in a .. c /\ i + 1 # a /\ i \in 0 .. n - 1 /\ (i + 1) - 1 = i
    OBVIOUS
  <2>2. g[i + 1] = IF g[i].todo = <<>> THEN g[i] ELSE Step(g[i], Unit(Head(g[i].todo), pdus))
    <3> PICK j : j = i + 1 OBVIOUS
    <3>1. j \in a .. c /\ j # a /\ j - 1 = i
      BY <2>1
    <3> DEFINE rhs == [k \in a .. c |-> IF k = a THEN F[a] ELSE
                        IF g[k - 1].todo = <<>> THEN g[k - 1] ELSE Step(g[k - 1], Unit(Head(g[k - 1].todo), pdus))]
    <3>2. rhs[j] = IF g[j - 1].todo = <<>> THEN g[j - 1] ELSE Step(g[j - 1], Unit(Head(g[j - 1].todo), pdus))
      BY <3>1
    <3>3. g = rhs
      BY <1>3
    <3> HIDE DEF rhs
    <3>4. g[j] = rhs[j]
      BY <3>3
    <3>5. g[j] = IF g[i].todo = <<>> THEN g[i] ELSE Step(g[i], Unit(Head(g[i].todo), pdus))
      BY <3>1, <3>2, <3>4
    <3> QED BY <3>5
  <2> QED BY <1>5, <2>1, <2>2
<1>6. \A i \in a .. c : g[i] = F[i]
  <2>1. Alike(g, F, a, c)
    <3> HIDE DEF Eq
    <3> QED BY <1>4, <1>5 DEF Alike
  <2> QED BY <2>1, Agreement
<1>7. g[c] = F[c]
  BY <1>6
<1> QED BY <1>2, <1>7

(* The whole walk of the writer.                                           *)
WriteWalkOf(pdus, items, n) == Walk(LAMBDA w, i : Unit(Head(w.todo), pdus), items, n)

(* The walk of the writer, in blocks, ends where its flow ends.            *)
LEMMA WriteWalk ==
    ASSUME NEW F, NEW n \in Nat, NEW pdus, NEW items, F[0] = Start(items), Writes(F, n, pdus)
    PROVE  WriteWalkOf(pdus, items, n) = F[n]
<1>s. Stops(F, n)
  BY DEF Stops, Writes
<1>m. PICK m \in Nat : m = Blocks(n)
  BY EndFacts
<1> DEFINE Of(w, b) == IF w.todo = <<>> THEN w
                       ELSE WriteUnits(pdus, w, End(b - 1, n), End(b, n))
           Rhs(g) == [b \in 0 .. m |-> IF b = 0 THEN Start(items) ELSE Of(g[b - 1], b)]
           Eq(g) == g = Rhs(g)
           G == [b \in 0 .. m |-> F[End(b, n)]]
<1>0. /\ End(0, n) = 0 /\ End(m, n) = n
      /\ \A b \in 1 .. m : /\ End(b - 1, n) \in Nat /\ End(b, n) \in Nat
                           /\ End(b - 1, n) <= End(b, n) /\ End(b, n) <= n
  BY <1>m, EndFacts
<1>1. ASSUME NEW b \in 1 .. m PROVE Of(F[End(b - 1, n)], b) = F[End(b, n)]
  <2>1. End(b - 1, n) \in Nat /\ End(b, n) \in Nat /\ End(b - 1, n) <= End(b, n) /\ End(b, n) <= n
    BY <1>0
  <2>2. CASE F[End(b - 1, n)].todo = <<>>
    <3>2. F[End(b, n)] = F[End(b - 1, n)]
      BY <1>s, <2>1, <2>2, Idle
    <3> QED BY <2>2, <3>2
  <2>3. CASE F[End(b - 1, n)].todo # <<>>
    <3>1. WriteUnits(pdus, F[End(b - 1, n)], End(b - 1, n), End(b, n)) = F[End(b, n)]
      BY <2>1, UnitsWritten
    <3> QED BY <2>3, <3>1
  <2> QED BY <2>2, <2>3
<1>2. Eq(G)
  <2> HIDE DEF Of
  <2>1. ASSUME NEW b \in 0 .. m PROVE G[b] = Rhs(G)[b]
    <3>1. CASE b = 0
      <4>1. G[b] = F[0]
        BY <1>0, <3>1
      <4> QED BY <3>1, <4>1
    <3>2. CASE b # 0
      <4>1. b \in 1 .. m /\ b - 1 \in 0 .. m
        BY <3>2
      <4>2. G[b - 1] = F[End(b - 1, n)] /\ G[b] = F[End(b, n)]
        BY <4>1
      <4> QED BY <1>1, <3>2, <4>1, <4>2
    <3> QED BY <3>1, <3>2
  <2>2. G = [b \in 0 .. m |-> G[b]] /\ Rhs(G) = [b \in 0 .. m |-> Rhs(G)[b]]
    OBVIOUS
  <2> HIDE DEF G, Rhs
  <2> QED BY <2>1, <2>2
<1>3. WriteWalkOf(pdus, items, n) = (CHOOSE g : Eq(g))[m]
  BY <1>m DEF WriteWalkOf, Walk, End, Blocks, WriteUnits
<1> PICK g : g = CHOOSE h : Eq(h)
  OBVIOUS
<1>4. g = Rhs(g)
  <2>1. Eq(g)
    <3> HIDE DEF Eq
    <3> QED BY <1>2
  <2> QED BY <2>1
<1>5. Alike(g, G, 0, m)
  <2> HIDE DEF Of
  <2>1. g[0] = G[0]
    <3>1. Rhs(g)[0] = Start(items)
      BY <1>0
    <3>2. G[0] = F[0]
      BY <1>0
    <3> HIDE DEF Rhs, G
    <3> QED BY <1>4, <3>1, <3>2
  <2>2. ASSUME NEW i \in 0 .. m - 1, g[i] = G[i] PROVE g[i + 1] = G[i + 1]
    <3> PICK b : b = i + 1
      OBVIOUS
    <3>1. b \in 1 .. m /\ b \in 0 .. m /\ b # 0 /\ b - 1 = i /\ i \in 0 .. m
      OBVIOUS
    <3>2. Rhs(g)[b] = Of(g[i], b)
      BY <3>1
    <3>3. G[b] = F[End(b, n)] /\ G[i] = F[End(b - 1, n)]
      BY <3>1
    <3> HIDE DEF Rhs, G
    <3>4. g[b] = Rhs(g)[b]
      BY <1>4
    <3> QED BY <1>1, <2>2, <3>1, <3>2, <3>3, <3>4
  <2> HIDE DEF G, Rhs
  <2> QED BY <1>0, <2>1, <2>2 DEF Alike
<1>6. g[m] = G[m]
  <2>1. m \in 0 .. m
    OBVIOUS
  <2> HIDE DEF G, Rhs
  <2> QED BY <1>5, <2>1, Agreement
<1>7. G[m] = F[n]
  BY <1>0
<1> HIDE DEF G, Rhs
<1> QED BY <1>3, <1>6, <1>7

-----------------------------------------------------------------------------
(* The body of a message.                                                  *)

(* The place j of a body is the place q of PDU p.                          *)
Places(L, total, m) ==
    /\ \A j \in 1 .. m : 1 + ((j - 1) \div L) \in 1 .. total
    /\ \A i \in 1 .. total, q \in 1 .. L :
           \E j \in 1 .. m : 1 + ((j - 1) % L) = q /\ 1 + ((j - 1) \div L) = i

(* Each place of a body belongs to a PDU, and each place of each PDU has   *)
(* one.                                                                    *)
LEMMA BodyPlace ==
    ASSUME NEW L \in Nat \ {0}, NEW total \in Nat, NEW m \in Nat, m = total * L
    PROVE  Places(L, total, m)
<1>1. ASSUME NEW j \in 1 .. m PROVE 1 + ((j - 1) \div L) \in 1 .. total
  <2>1. j - 1 \in Nat /\ j - 1 < total * L
    OBVIOUS
  <2> PICK x : x = j - 1
    OBVIOUS
  <2> PICK p, r : p = x \div L /\ r = x % L
    OBVIOUS
  <2>2. x \in Nat
    BY <2>1
  <2>3. x = L * p + r /\ r \in 0 .. L - 1 /\ p \in Nat
    BY <2>2, Division, Zenon
  <2>4. p >= total => L * p = L * total + L * (p - total) /\ L * (p - total) >= 0 /\ L * total = total * L
    BY <2>3
  <2>5. p < total
    BY <2>1, <2>3, <2>4
  <2> QED BY <2>3, <2>5
<1>2. ASSUME NEW i \in 1 .. total, NEW q \in 1 .. L
      PROVE  \E j \in 1 .. m : 1 + ((j - 1) % L) = q /\ 1 + ((j - 1) \div L) = i
  <2> PICK d : d = L * (i - 1)
    OBVIOUS
  <2>1. d \in Nat
    <3>1. i - 1 \in Nat
      OBVIOUS
    <3> QED BY <3>1
  <2> PICK x : x = d + (q - 1)
    OBVIOUS
  <2>2. x \in Nat /\ i - 1 \in Int /\ q - 1 \in Nat /\ q - 1 < L /\ x = L * (i - 1) + (q - 1)
    BY <2>1
  <2>3. x % L = q - 1 /\ x \div L = i - 1
    BY <2>2, DivisionUnique, Zenon
  <2>4. x + 1 \in 1 .. m
    <3>1. total * L = L * (i - 1) + L + L * (total - i) /\ L * (total - i) >= 0
      OBVIOUS
    <3> QED BY <2>1, <2>2, <3>1
  <2>5. (x + 1) - 1 = x /\ 1 + (q - 1) = q /\ 1 + (i - 1) = i
    BY <2>2
  <2>6. 1 + (((x + 1) - 1) % L) = q /\ 1 + (((x + 1) - 1) \div L) = i
    BY <2>3, <2>5, Zenon
  <2> QED BY <2>4, <2>6
<1> QED BY <1>1, <1>2 DEF Places

(* The body of a message holds each item of each of its PDUs.              *)
LEMMA BodyFacts ==
    ASSUME NEW K, NEW pdu \in Seq(PduItems(K)), NEW total \in Nat
    PROVE  /\ Body(pdu, total) \in Seq(BodyItems(1 .. total, K))
           /\ Len(Body(pdu, total)) = total * Len(pdu)
           /\ \A i \in 1 .. total, q \in DOMAIN pdu :
                 \E j \in DOMAIN Body(pdu, total) :
                    Body(pdu, total)[j] = [field |-> pdu[q].field, k |-> pdu[q].k, pdu |-> i]
<1> PICK L : L = Len(pdu)
  OBVIOUS
<1>0. L \in Nat /\ DOMAIN pdu = 1 .. L
  OBVIOUS
<1>1. /\ total * L \in Nat
      /\ \A j \in 1 .. total * L : /\ Repeat(pdu, total)[j] = pdu[1 + ((j - 1) % L)]
                                   /\ 1 + ((j - 1) % L) \in DOMAIN pdu
  BY RepeatFacts
<1> PICK m \in Nat : m = total * L
  BY <1>1
<1>2. Body(pdu, total) = [j \in 1 .. m |->
          [field |-> Repeat(pdu, total)[j].field, k |-> Repeat(pdu, total)[j].k,
           pdu |-> 1 + ((j - 1) \div L)]]
  BY DEF Body
<1>n. L = 0 => m = 0
  OBVIOUS
<1>3. ASSUME L # 0
      PROVE  Places(L, total, m)
  <2>1. L \in Nat \ {0}
    BY <1>0, <1>3
  <2>2. m \in Nat /\ m = total * L /\ total \in Nat
    OBVIOUS
  <2> QED BY <2>1, <2>2, BodyPlace, Zenon
<1>4. ASSUME NEW j \in 1 .. m
      PROVE  Body(pdu, total)[j] \in BodyItems(1 .. total, K)
  <2> PICK x : x = Repeat(pdu, total)[j]
    OBVIOUS
  <2> PICK p : p = 1 + ((j - 1) \div L)
    OBVIOUS
  <2>1. x \in PduItems(K)
    BY <1>0, <1>1
  <2>2. Body(pdu, total)[j] = [field |-> x.field, k |-> x.k, pdu |-> p]
    BY <1>2
  <2>3. p \in 1 .. total
    <3>1. L # 0
      BY <1>n
    <3> QED BY <1>3, <3>1 DEF Places
  <2> QED BY <2>1, <2>2, <2>3 DEF PduItems, BodyItems
<1> PICK b : b = Body(pdu, total)
  OBVIOUS
<1>5. b \in [1 .. m -> BodyItems(1 .. total, K)]
  <2>1. DOMAIN b = 1 .. m /\ b = [j \in 1 .. m |-> b[j]]
    BY <1>2
  <2>2. \A j \in 1 .. m : b[j] \in BodyItems(1 .. total, K)
    BY <1>4
  <2> QED BY <2>1, <2>2
<1>6. ASSUME NEW i \in 1 .. total, NEW q \in DOMAIN pdu
      PROVE  \E j \in 1 .. m :
                b[j] = [field |-> pdu[q].field, k |-> pdu[q].k, pdu |-> i]
  <2>1. q \in 1 .. L /\ L # 0
    BY <1>0
  <2> PICK j \in 1 .. m : 1 + ((j - 1) % L) = q /\ 1 + ((j - 1) \div L) = i
    BY <1>3, <2>1 DEF Places
  <2>2. Repeat(pdu, total)[j] = pdu[q]
    BY <1>1
  <2>3. b[j] = [field |-> Repeat(pdu, total)[j].field, k |-> Repeat(pdu, total)[j].k,
                pdu |-> 1 + ((j - 1) \div L)]
    BY <1>2
  <2> QED BY <2>2, <2>3
<1>7. b \in Seq(BodyItems(1 .. total, K)) /\ Len(b) = m /\ DOMAIN b = 1 .. m
  BY <1>5
<1> QED BY <1>6, <1>7

-----------------------------------------------------------------------------
(* The serialiser, step by step.                                           *)

(* The PDUs that OCUDU-L2 writes.                                          *)
Pdus == [type : Nat, id : DOMAIN Content, n : Nat]

(* A mark tells the PDU it stands for from any other.                      *)
LEMMA MarkFacts ==
    /\ \A id \in DOMAIN Content, k \in Nat : Mark(id, k) \in Nat
    /\ \A i \in DOMAIN Content, j \in DOMAIN Content, k \in Nat : Mark(i, k) = Mark(j, k) => i = j
<1>1. DOMAIN Content \subseteq Nat
  BY ContentAssumption
<1>2. \A i \in Nat, k \in Nat : Mark(i, k) \in Nat
  BY DEF Mark
<1>3. \A i \in Nat, j \in Nat, k \in Nat : Mark(i, k) = Mark(j, k) => i = j
  BY DEF Mark
<1> QED BY <1>1, <1>2, <1>3

(* The writer writes numbers.                                              *)
LEMMA UnitType ==
    ASSUME NEW pdus \in Seq(Pdus), NEW K \in SUBSET Nat, NEW item \in BodyItems(1 .. Len(pdus), K)
    PROVE  Unit(item, pdus) \in Nat
<1>1. /\ item.pdu \in 1 .. Len(pdus) /\ item.k \in Nat
      /\ item.field.kind \in {"fix", "each", "alt"}
  BY FieldKinds DEF BodyItems
<1>2. pdus[item.pdu] \in Pdus
  BY <1>1
<1>3. pdus[item.pdu].type \in Nat /\ pdus[item.pdu].n \in Nat /\ Mark(pdus[item.pdu].id, item.k) \in Nat
  BY <1>1, <1>2, MarkFacts DEF Pdus
<1> QED BY <1>1, <1>3 DEF Unit

(* The writer goes through its walk.                                       *)
Written(F, P, K, pdus, items) ==
    /\ F[0] = Start(items) /\ \A i \in 0 .. MaxBody : F[i] \in Walks(P, K)
    /\ Writes(F, MaxBody, pdus)

(* The serialiser's walk is such a flow.                                   *)
LEMMA WriterFlow ==
    ASSUME NEW pdus \in Seq(Pdus), NEW K \in SUBSET Nat, NEW pdu \in Seq(PduItems(K))
    PROVE  \E F : /\ Written(F, 1 .. Len(pdus), K, pdus, Body(pdu, Len(pdus)))
                  /\ Serialize(pdu, pdus) = F[MaxBody]
<1> PICK items : items = Body(pdu, Len(pdus))
  OBVIOUS
<1> PICK P : P = 1 .. Len(pdus)
  OBVIOUS
<1>1. items \in Seq(BodyItems(P, K))
  <2>1. Len(pdus) \in Nat
    OBVIOUS
  <2> QED BY <2>1, BodyFacts
<1> DEFINE X == Walks(P, K)
           Value(w) == IF w.todo = <<>> THEN 0 ELSE Unit(Head(w.todo), pdus)
           Nx == [i \in Nat |-> [w \in X |-> Value(w)]]
<1>2. ASSUME NEW w \in X PROVE Value(w) \in Nat
  <2>1. w.todo # <<>> => Head(w.todo) \in BodyItems(P, K)
    BY DEF Walks
  <2>2. \A item \in BodyItems(P, K) : Unit(item, pdus) \in Nat
    BY UnitType
  <2> QED BY <2>1, <2>2
<1>3. Nx \in [Nat -> [X -> Nat]]
  <2> HIDE DEF Value, X
  <2> QED BY <1>2
<1>4. PICK F : Flow(F, P, K, Nx, items, MaxBody)
  <2> HIDE DEF Nx
  <2> QED BY <1>1, <1>3, MaxBodyAssumption, FlowExists
<1>5. F[0] = Start(items) /\ \A i \in 0 .. MaxBody : F[i] \in X
  BY <1>4 DEF Flow
<1>6. Writes(F, MaxBody, pdus)
  <2>1. ASSUME NEW i \in 0 .. MaxBody - 1
        PROVE  F[i + 1] = IF F[i].todo = <<>> THEN F[i] ELSE Step(F[i], Unit(Head(F[i].todo), pdus))
    <3>1. F[i + 1] = IF F[i].todo = <<>> THEN F[i] ELSE Step(F[i], Nx[i][F[i]])
      BY <1>4 DEF Flow
    <3>2. F[i] \in X /\ i \in Nat
      BY <1>5, MaxBodyAssumption
    <3>3. Nx[i][F[i]] = Value(F[i])
      <4> HIDE DEF Value, X
      <4> QED BY <3>2
    <3> HIDE DEF Nx, X
    <3> QED BY <3>1, <3>3
  <2> QED BY <2>1 DEF Writes
<1>7. Serialize(pdu, pdus) = F[MaxBody]
  <2>1. WriteWalkOf(pdus, items, MaxBody) = F[MaxBody]
    BY <1>5, <1>6, MaxBodyAssumption, WriteWalk
  <2> QED BY <2>1 DEF Serialize, WriteWalkOf
<1> QED BY <1>5, <1>6, <1>7 DEF Written

(* After i steps: what was seen is what the steps took, in their order, and *)
(* once the items are used up nothing is added.                            *)
Taken(F, i, pdus) ==
    /\ Len(F[i].seen) \in 0 .. i /\ F[i] = F[Len(F[i].seen)]
    /\ Len(F[i].seen) < i => F[i].todo = <<>>
    /\ \A j \in 0 .. Len(F[i].seen) - 1 :
          /\ F[j].todo # <<>>
          /\ F[i].seen[j + 1] = [item |-> Head(F[j].todo), v |-> Unit(Head(F[j].todo), pdus)]

(* So it is after any number of steps the buffer has room for.             *)
LEMMA WriterTakes ==
    ASSUME NEW pdus \in Seq(Pdus), NEW K \in SUBSET Nat, NEW items, NEW F,
           Written(F, 1 .. Len(pdus), K, pdus, items)
    PROVE  Taken(F, MaxBody, pdus)
<1> PICK P : P = 1 .. Len(pdus)
  OBVIOUS
<1> PICK n \in Nat : n = MaxBody
  BY MaxBodyAssumption
<1>0. /\ F[0] = Start(items) /\ \A i \in 0 .. n : F[i] \in Walks(P, K)
      /\ \A i \in 0 .. n - 1 : F[i + 1] = IF F[i].todo = <<>> THEN F[i] ELSE Step(F[i], Unit(Head(F[i].todo), pdus))
  BY DEF Written, Writes
<1> DEFINE S == {i \in Nat : i <= n => Taken(F, i, pdus)}
<1>1. 0 \in S
  BY <1>0 DEF Taken, Start
<1>2. ASSUME NEW i \in S PROVE i + 1 \in S
  <2> SUFFICES ASSUME i + 1 <= n PROVE Taken(F, i + 1, pdus)
    OBVIOUS
  <2>1. i \in 0 .. n - 1 /\ Taken(F, i, pdus) /\ F[i] \in Walks(P, K)
    BY <1>0
  <2>2. CASE F[i].todo = <<>>
    <3>1. F[i + 1] = F[i]
      BY <1>0, <2>1, <2>2
    <3> QED BY <2>1, <2>2, <3>1 DEF Taken
  <2>3. CASE F[i].todo # <<>>
    <3> PICK x : x = [item |-> Head(F[i].todo), v |-> Unit(Head(F[i].todo), pdus)]
      OBVIOUS
    <3>1. F[i + 1] = Step(F[i], Unit(Head(F[i].todo), pdus))
      BY <1>0, <2>1, <2>3
    <3>2. F[i + 1].seen = Append(F[i].seen, x)
      BY <3>1 DEF Step
    <3>3. F[i].seen \in Seq(UnitsSeen(P, K)) /\ Len(F[i].seen) = i
      BY <2>1, <2>3 DEF Taken, Walks
    <3>4. /\ Len(F[i + 1].seen) = i + 1 /\ F[i + 1].seen[i + 1] = x
          /\ \A j \in 0 .. i - 1 : F[i + 1].seen[j + 1] = F[i].seen[j + 1]
      BY <3>2, <3>3, SMTT(60)
    <3>5. ASSUME NEW j \in 0 .. (i + 1) - 1
          PROVE  /\ F[j].todo # <<>>
                 /\ F[i + 1].seen[j + 1] = [item |-> Head(F[j].todo), v |-> Unit(Head(F[j].todo), pdus)]
      <4>1. CASE j = i
        BY <2>3, <3>4, <4>1
      <4>2. CASE j # i
        <5>1. j \in 0 .. i - 1 /\ j \in 0 .. Len(F[i].seen) - 1
          BY <3>3, <4>2
        <5> QED BY <2>1, <3>4, <5>1 DEF Taken
      <4> QED BY <4>1, <4>2
    <3> QED BY <3>4, <3>5 DEF Taken
  <2> QED BY <2>2, <2>3
<1>3. S = Nat
  <2>1. S \in SUBSET Nat
    OBVIOUS
  <2> HIDE DEF S
  <2> QED BY <1>1, <1>2, <2>1, SetInduction
<1> QED BY <1>3

(* What goes on with the first of some elements leaves the others.         *)
LEMMA OthersStay ==
    ASSUME NEW S, NEW e \in Seq(S), NEW t \in Seq(S), t # <<>>, NEW it \in Range(t)
    PROVE  it = Head(t) \/ it \in Range(e \o Tail(t))
<1>1. Range(t) = Range(Tail(t)) \cup {Head(t)} /\ Tail(t) \in Seq(S)
  BY TailFacts, TailAt
<1>2. ASSUME NEW u \in Seq(S) PROVE Range(e \o u) = Range(e) \cup Range(u)
  BY ConcatFacts
<1>3. Range(e \o Tail(t)) = Range(e) \cup Range(Tail(t))
  BY <1>1, <1>2, Zenon
<1> QED BY <1>1, <1>3

(* An item is still to come or was seen.                                   *)
Holds(w, it) == \/ \E j \in DOMAIN w.todo : w.todo[j] = it
                \/ \E j \in DOMAIN w.seen : w.seen[j].item = it

(* No step loses an item.                                                  *)
LEMMA StepHolds ==
    ASSUME NEW P, NEW K, NEW w \in Walks(P, K), NEW v \in Nat, w.todo # <<>>, NEW it, Holds(w, it)
    PROVE  Holds(Step(w, v), it)
<1> PICK e, t, s, n : /\ e = Expand(Head(w.todo), v) /\ t = w.todo /\ s = w.seen /\ n = Step(w, v)
  OBVIOUS
<1>1. /\ t \in Seq(BodyItems(P, K)) /\ s \in Seq(UnitsSeen(P, K)) /\ t # <<>>
      /\ n.todo = e \o Tail(t) /\ n.seen = Append(s, [item |-> Head(t), v |-> v])
      /\ Head(t) \in BodyItems(P, K)
  <2>1. /\ n.todo = e \o Tail(t) /\ n.seen = Append(s, [item |-> Head(t), v |-> v])
        /\ Head(t) \in BodyItems(P, K)
    BY StepType
  <2>2. t \in Seq(BodyItems(P, K)) /\ s \in Seq(UnitsSeen(P, K)) /\ t # <<>>
    BY DEF Walks
  <2> QED BY <2>1, <2>2
<1>2. e \in Seq(BodyItems(P, K))
  BY <1>1, ExpandType
<1>3. [item |-> Head(t), v |-> v] \in UnitsSeen(P, K)
  BY <1>1 DEF UnitsSeen
<1>4. /\ DOMAIN n.seen = 1 .. Len(s) + 1 /\ n.seen[Len(s) + 1] = [item |-> Head(t), v |-> v]
      /\ DOMAIN s = 1 .. Len(s) /\ Len(s) \in Nat /\ \A i \in 1 .. Len(s) : n.seen[i] = s[i] /\ i \in 1 .. Len(s) + 1
  BY <1>1, <1>3, AppendAt
<1>5. CASE \E j \in DOMAIN s : s[j].item = it
  BY <1>4, <1>5 DEF Holds
<1>6. CASE \E j \in DOMAIN t : t[j] = it
  <2>1. it \in Range(t)
    BY <1>6 DEF Range
  <2>2. it = Head(t) \/ it \in Range(n.todo)
    BY <1>1, <1>2, <2>1, OthersStay
  <2>3. n.seen[Len(s) + 1].item = Head(t) /\ Len(s) + 1 \in DOMAIN n.seen
    BY <1>4
  <2> QED BY <2>2, <2>3 DEF Holds, Range
<1> QED BY <1>1, <1>5, <1>6 DEF Holds

(* So the writer still has each item of the body, to come or seen.         *)
LEMMA WriterHolds ==
    ASSUME NEW pdus \in Seq(Pdus), NEW K \in SUBSET Nat, NEW items, NEW F,
           Written(F, 1 .. Len(pdus), K, pdus, items),
           NEW it, \E j \in DOMAIN items : items[j] = it
    PROVE  Holds(F[MaxBody], it)
<1> PICK P : P = 1 .. Len(pdus)
  OBVIOUS
<1> PICK n \in Nat : n = MaxBody
  BY MaxBodyAssumption
<1>0. /\ F[0] = Start(items) /\ \A i \in 0 .. n : F[i] \in Walks(P, K)
      /\ \A i \in 0 .. n - 1 : F[i + 1] = IF F[i].todo = <<>> THEN F[i] ELSE Step(F[i], Unit(Head(F[i].todo), pdus))
  BY DEF Written, Writes
<1> DEFINE S == {i \in Nat : i <= n => Holds(F[i], it)}
<1>1. 0 \in S
  BY <1>0 DEF Holds, Start
<1>2. ASSUME NEW i \in S PROVE i + 1 \in S
  <2> SUFFICES ASSUME i + 1 <= n PROVE Holds(F[i + 1], it)
    OBVIOUS
  <2>1. i \in 0 .. n - 1 /\ Holds(F[i], it) /\ F[i] \in Walks(P, K)
    BY <1>0
  <2>2. CASE F[i].todo = <<>>
    BY <1>0, <2>1, <2>2
  <2>3. CASE F[i].todo # <<>>
    <3>1. Head(F[i].todo) \in BodyItems(P, K)
      BY <2>1, <2>3 DEF Walks
    <3> PICK v : v = Unit(Head(F[i].todo), pdus)
      OBVIOUS
    <3>2. v \in Nat
      BY <3>1, UnitType
    <3>3. F[i + 1] = Step(F[i], v)
      BY <1>0, <2>1, <2>3
    <3>4. Holds(Step(F[i], v), it)
      BY <2>1, <2>3, <3>2, StepHolds
    <3> QED BY <3>3, <3>4
  <2> QED BY <2>2, <2>3
<1>3. S = Nat
  <2>1. S \in SUBSET Nat
    OBVIOUS
  <2> HIDE DEF S
  <2> QED BY <1>1, <1>2, <2>1, SetInduction
<1> QED BY <1>3

-----------------------------------------------------------------------------
(* What the fields of a structure of PDU i are read as.                    *)
Value(pdus, i, k) == IF k = 0 THEN pdus[i].type ELSE Mark(pdus[i].id, k)

(* A body of PDUs, each of which has fixed fields for each k in K.         *)
FixedFor(pdu, K) ==
    /\ K \in SUBSET Nat /\ pdu \in Seq(PduItems(K))
    /\ \A k \in K : \E q \in DOMAIN pdu : pdu[q].field.kind = "fix" /\ pdu[q].k = k

(* A complete walk of the writer holds, for each structure of each PDU,    *)
(* the value it stands for and nothing else.                               *)
LEMMA GotAsWritten ==
    ASSUME NEW pdus \in Seq(Pdus), NEW K, NEW pdu, FixedFor(pdu, K),
           FitsBuffer(Serialize(pdu, pdus)), NEW i \in 1 .. Len(pdus), NEW k \in Nat
    PROVE  Got(Serialize(pdu, pdus), i, k) = IF k \in K THEN {Value(pdus, i, k)} ELSE {}
<1> PICK w : w = Serialize(pdu, pdus)
  OBVIOUS
<1> PICK P : P = 1 .. Len(pdus)
  OBVIOUS
<1>1. K \in SUBSET Nat /\ pdu \in Seq(PduItems(K))
  BY DEF FixedFor
<1> PICK F : Written(F, P, K, pdus, Body(pdu, Len(pdus))) /\ w = F[MaxBody]
  BY <1>1, WriterFlow
<1>2. w \in Walks(P, K) /\ w.todo = <<>>
  BY MaxBodyAssumption DEF Written, FitsBuffer
<1>3. Taken(F, MaxBody, pdus)
  BY <1>1, WriterTakes
<1>4. DOMAIN w.seen = 1 .. Len(w.seen) /\ Len(w.seen) \in Nat /\ \A j \in DOMAIN w.seen : w.seen[j] \in UnitsSeen(P, K)
  BY <1>2 DEF Walks
<1>5. ASSUME NEW j \in DOMAIN w.seen PROVE w.seen[j].v = Unit(w.seen[j].item, pdus) /\ w.seen[j].item \in BodyItems(P, K)
  <2>1. j - 1 \in 0 .. Len(w.seen) - 1 /\ (j - 1) + 1 = j
    BY <1>4
  <2>2. w.seen[j] = [item |-> Head(F[j - 1].todo), v |-> Unit(Head(F[j - 1].todo), pdus)]
    BY <1>3, <2>1 DEF Taken
  <2>3. w.seen[j] \in UnitsSeen(P, K)
    BY <1>4
  <2> QED BY <2>2, <2>3 DEF UnitsSeen
<1>6. ASSUME NEW j \in DOMAIN w.seen, w.seen[j].item.field.kind = "fix", w.seen[j].item.pdu = i, w.seen[j].item.k = k
      PROVE  w.seen[j].v = Value(pdus, i, k) /\ k \in K
  BY <1>5, <1>6 DEF Unit, Value, BodyItems
<1>7. ASSUME k \in K
      PROVE  \E j \in DOMAIN w.seen : /\ w.seen[j].item.field.kind = "fix" /\ w.seen[j].item.pdu = i
                                      /\ w.seen[j].item.k = k
  <2> PICK q \in DOMAIN pdu : pdu[q].field.kind = "fix" /\ pdu[q].k = k
    BY <1>7 DEF FixedFor
  <2> PICK it : it = [field |-> pdu[q].field, k |-> pdu[q].k, pdu |-> i]
    OBVIOUS
  <2>1. \E j \in DOMAIN Body(pdu, Len(pdus)) : Body(pdu, Len(pdus))[j] = it
    <3>1. Len(pdus) \in Nat
      OBVIOUS
    <3>2. \E j \in DOMAIN Body(pdu, Len(pdus)) :
              Body(pdu, Len(pdus))[j] = [field |-> pdu[q].field, k |-> pdu[q].k, pdu |-> i]
      BY <1>1, <3>1, BodyFacts, ZenonT(60)
    <3> QED BY <3>2
  <2>2. Holds(w, it)
    BY <1>1, <2>1, WriterHolds
  <2>3. DOMAIN w.todo = {}
    BY <1>2
  <2>4. PICK j \in DOMAIN w.seen : w.seen[j].item = it
    BY <2>2, <2>3 DEF Holds
  <2> QED BY <2>4
<1>8. Got(w, i, k) = {w.seen[j].v : j \in {j \in DOMAIN w.seen : /\ w.seen[j].item.field.kind = "fix"
                                                /\ w.seen[j].item.pdu = i
                                                /\ w.seen[j].item.k = k}}
  BY DEF Got
<1> QED BY <1>6, <1>7, <1>8

-----------------------------------------------------------------------------
(* The reader takes the steps of the writer, as long as the wire is what   *)
(* was written.                                                            *)

(* A complete walk of the writer, seen from the reader's side: L units, and *)
(* the same steps when the reader takes them from the wire.                 *)
Followed(F, L, w, wire, items) ==
    /\ L \in Nat /\ Len(w.seen) = L /\ wire \in [1 .. L -> Nat] /\ F[0] = Start(items)
    /\ F[L] = w /\ Reads(F, L, wire) /\ \A i \in 0 .. L - 1 : F[i].todo # <<>>

(* Every message that fits the buffer of OCUDU-L2 can be followed so.      *)
LEMMA WriterFollowed ==
    ASSUME NEW pdus \in Seq(Pdus), NEW K, NEW pdu, FixedFor(pdu, K),
           FitsBuffer(Serialize(pdu, pdus))
    PROVE  LET w == Serialize(pdu, pdus)
           IN  \E F, L : Followed(F, L, w, Wire(w), Body(pdu, Len(pdus)))
<1> PICK w : w = Serialize(pdu, pdus)
  OBVIOUS
<1> PICK P : P = 1 .. Len(pdus)
  OBVIOUS
<1> PICK items : items = Body(pdu, Len(pdus))
  OBVIOUS
<1>1. K \in SUBSET Nat /\ pdu \in Seq(PduItems(K))
  BY DEF FixedFor
<1> PICK F : Written(F, P, K, pdus, items) /\ w = F[MaxBody]
  BY <1>1, WriterFlow
<1>2. w \in Walks(P, K) /\ F[0] = Start(items)
  BY MaxBodyAssumption DEF Written
<1>3. Taken(F, MaxBody, pdus)
  BY <1>1, WriterTakes
<1> PICK L : L = Len(w.seen)
  OBVIOUS
<1> PICK wire : wire = Wire(w)
  OBVIOUS
<1>4. DOMAIN w.seen = 1 .. L /\ L \in Nat /\ \A j \in DOMAIN w.seen : w.seen[j] \in UnitsSeen(P, K)
  BY <1>2 DEF Walks
<1>5. L \in 0 .. MaxBody /\ F[L] = w
  BY <1>3 DEF Taken
<1>6. wire \in [1 .. L -> Nat] /\ \A j \in 1 .. L : wire[j] = w.seen[j].v
  BY <1>4 DEF Wire, UnitsSeen
<1>7. ASSUME NEW i \in 0 .. L - 1
      PROVE  F[i].todo # <<>> /\ F[i + 1] = Step(F[i], wire[i + 1])
  <2>1. i \in 0 .. MaxBody - 1 /\ i + 1 \in 1 .. L
    BY <1>5, MaxBodyAssumption
  <2>2. F[i].todo # <<>> /\ w.seen[i + 1] = [item |-> Head(F[i].todo), v |-> Unit(Head(F[i].todo), pdus)]
    BY <1>3 DEF Taken
  <2>3. wire[i + 1] = Unit(Head(F[i].todo), pdus)
    BY <1>6, <2>1, <2>2
  <2>4. F[i + 1] = Step(F[i], Unit(Head(F[i].todo), pdus))
    BY <2>1, <2>2 DEF Written, Writes
  <2> QED BY <2>2, <2>3, <2>4
<1>8. Followed(F, L, w, wire, items)
  BY <1>2, <1>4, <1>5, <1>6, <1>7 DEF Followed, Reads
<1> QED BY <1>8

(* The steps of a translator, and the PDUs it makes of the units it has    *)
(* read.                                                                   *)
ReadBy(F, n, wire, items) == n \in Nat /\ n = Len(wire) /\ F[0] = Start(items) /\ Reads(F, n, wire)
PdusOf(w, total) == [i \in 1 .. total |->
    [type |-> Got(w, i, 0), got |-> [k \in Structures |-> Got(w, i, k)]]]

(* How a walk over a wire ends decides what the translator makes of it.    *)
LEMMA ReadFrom ==
    ASSUME NEW pdu, NEW total \in Nat, NEW wire, NEW n, NEW F, ReadBy(F, n, wire, Body(pdu, total))
    PROVE  /\ WalkOk(ReadPdus(pdu, total, wire), wire) <=> F[n].todo = <<>> /\ Len(F[n].seen) = n
           /\ F[n].todo = <<>> =>
                ReadPdus(pdu, total, wire).pdus = PdusOf(F[n], total)
<1>1. ReadWalkOf(wire, Body(pdu, total), n) = F[n]
  BY ReadWalk DEF ReadBy
<1>n. n = Len(wire)
  BY DEF ReadBy
<1> PICK w : w = F[n]
  OBVIOUS
<1>2. ReadPdus(pdu, total, wire) =
        [error |-> w.todo # <<>>, off |-> Len(w.seen),
         pdus  |-> [i \in 1 .. (IF w.todo = <<>> THEN total ELSE Head(w.todo).pdu - 1) |->
                       [type |-> Got(w, i, 0), got |-> [k \in Structures |-> Got(w, i, k)]]]]
  BY <1>1, <1>n DEF ReadPdus, ReadWalkOf
<1> PICK s : s = ReadPdus(pdu, total, wire)
  OBVIOUS
<1>3. s.error = (w.todo # <<>>) /\ s.off = Len(w.seen)
  BY <1>2
<1>4. w.todo = <<>> => s.pdus = PdusOf(w, total)
  BY <1>2 DEF PdusOf
<1>5. WalkOk(s, wire) <=> w.todo = <<>> /\ Len(w.seen) = n
  BY <1>3, <1>n DEF WalkOk
<1> QED BY <1>4, <1>5

(* The translator's walk ends with an intact body and has read each PDU    *)
(* as written.                                                             *)
LEMMA ReadIntact ==
    ASSUME NEW pdus \in Seq(Pdus), NEW K, NEW pdu, FixedFor(pdu, K),
           FitsBuffer(Serialize(pdu, pdus))
    PROVE  LET w == Serialize(pdu, pdus)
               s == ReadPdus(pdu, Len(pdus), Wire(w))
           IN  /\ WalkOk(s, Wire(w))
               /\ s.pdus = PdusOf(w, Len(pdus))
<1> PICK w : w = Serialize(pdu, pdus)
  OBVIOUS
<1> PICK wire : wire = Wire(w)
  OBVIOUS
<1> PICK F, L : Followed(F, L, w, wire, Body(pdu, Len(pdus)))
  BY WriterFollowed
<1>1. /\ L \in Nat /\ L = Len(wire) /\ F[0] = Start(Body(pdu, Len(pdus))) /\ Reads(F, L, wire)
      /\ F[L] = w /\ w.todo = <<>> /\ Len(w.seen) = L
  BY DEF Followed, FitsBuffer
<1> PICK total \in Nat : total = Len(pdus)
  OBVIOUS
<1>2. ReadBy(F, L, wire, Body(pdu, total))
  BY <1>1 DEF ReadBy
<1>3. WalkOk(ReadPdus(pdu, total, wire), wire) /\ ReadPdus(pdu, total, wire).pdus = PdusOf(w, total)
  BY <1>1, <1>2, ReadFrom
<1> QED BY <1>3

(* The translator's walk does not end with a body cut short.               *)
LEMMA ReadCut ==
    ASSUME NEW pdus \in Seq(Pdus), NEW K, NEW pdu, FixedFor(pdu, K), pdu # <<>>,
           FitsBuffer(Serialize(pdu, pdus)), pdus # <<>>
    PROVE  LET wire == Wire(Serialize(pdu, pdus))
               cut  == SubSeq(wire, 1, Len(wire) - 1)
           IN  ~WalkOk(ReadPdus(pdu, Len(pdus), cut), cut)
<1> PICK w : w = Serialize(pdu, pdus)
  OBVIOUS
<1> PICK wire : wire = Wire(w)
  OBVIOUS
<1> PICK items : items = Body(pdu, Len(pdus))
  OBVIOUS
<1> PICK F, L : Followed(F, L, w, wire, items)
  BY WriterFollowed
<1>1. /\ L \in Nat /\ L = Len(wire) /\ F[0] = Start(items) /\ Reads(F, L, wire)
      /\ F[L] = w /\ w.todo = <<>> /\ Len(w.seen) = L /\ \A i \in 0 .. L - 1 : F[i].todo # <<>>
      /\ wire \in Seq(Nat)
  BY DEF Followed, FitsBuffer
<1>2. Len(pdus) \in Nat \ {0}
  OBVIOUS
<1>3. items # <<>>
  <2>1. pdu \in Seq(PduItems(K)) /\ Len(pdu) \in Nat \ {0}
    BY DEF FixedFor
  <2>2. Len(items) = Len(pdus) * Len(pdu)
    BY <1>2, <2>1, BodyFacts
  <2>3. Len(pdus) * Len(pdu) # 0
    BY <1>2, <2>1
  <2> QED BY <2>2, <2>3
<1>4. L # 0
  BY <1>1, <1>3 DEF Start
<1> PICK cut : cut = SubSeq(wire, 1, Len(wire) - 1)
  OBVIOUS
<1>5. L - 1 \in Nat /\ Len(cut) = L - 1 /\ \A i \in 1 .. L - 1 : cut[i] = wire[i]
  BY <1>1, <1>4
<1>6. Reads(F, L - 1, cut)
  BY <1>1, <1>5 DEF Reads
<1>7. F[L - 1].todo # <<>>
  BY <1>1, <1>5
<1> PICK total \in Nat : total = Len(pdus)
  BY <1>2
<1> PICK n \in Nat : n = L - 1
  BY <1>5
<1>8. ReadBy(F, n, cut, Body(pdu, total)) /\ F[n].todo # <<>>
  BY <1>1, <1>5, <1>6, <1>7 DEF ReadBy
<1>9. ~WalkOk(ReadPdus(pdu, total, cut), cut)
  BY <1>8, ReadFrom
<1> QED BY <1>9

(* Nor does it end with a body too long, though it has read each PDU as    *)
(* written.                                                                *)
LEMMA ReadExtra ==
    ASSUME NEW pdus \in Seq(Pdus), NEW K, NEW pdu, FixedFor(pdu, K),
           FitsBuffer(Serialize(pdu, pdus))
    PROVE  LET extra == Append(Wire(Serialize(pdu, pdus)), 0)
               s     == ReadPdus(pdu, Len(pdus), extra)
           IN  ~WalkOk(s, extra) /\ s.pdus = PdusOf(Serialize(pdu, pdus), Len(pdus))
<1> PICK w : w = Serialize(pdu, pdus)
  OBVIOUS
<1> PICK wire : wire = Wire(w)
  OBVIOUS
<1> PICK items : items = Body(pdu, Len(pdus))
  OBVIOUS
<1> PICK F, L : Followed(F, L, w, wire, items)
  BY WriterFollowed
<1>1. /\ L \in Nat /\ L = Len(wire) /\ F[0] = Start(items) /\ Reads(F, L, wire)
      /\ F[L] = w /\ w.todo = <<>> /\ Len(w.seen) = L
      /\ wire \in Seq(Nat)
  BY DEF Followed, FitsBuffer
<1> PICK extra : extra = Append(wire, 0)
  OBVIOUS
<1>2. L + 1 \in Nat /\ Len(extra) = L + 1 /\ \A i \in 1 .. L : extra[i] = wire[i]
  BY <1>1
<1> DEFINE G == [i \in 0 .. L + 1 |-> IF i <= L THEN F[i] ELSE F[L]]
<1>3. G[0] = Start(items) /\ G[L + 1] = w
  BY <1>1
<1>4. Reads(G, L + 1, extra)
  <2>1. ASSUME NEW i \in 0 .. (L + 1) - 1
        PROVE  G[i + 1] = IF G[i].todo = <<>> THEN G[i] ELSE Step(G[i], extra[i + 1])
    <3>1. CASE i = L
      <4>1. G[i + 1] = w /\ G[i] = w
        BY <1>1, <3>1
      <4> QED BY <1>1, <4>1
    <3>2. CASE i # L
      <4>1. i \in 0 .. L - 1 /\ i + 1 \in 1 .. L
        BY <1>1, <3>2
      <4>2. G[i + 1] = F[i + 1] /\ G[i] = F[i] /\ extra[i + 1] = wire[i + 1]
        BY <1>1, <1>2, <4>1
      <4> QED BY <1>1, <4>1, <4>2 DEF Reads
    <3> QED BY <3>1, <3>2
  <2> QED BY <2>1 DEF Reads
<1>5. Len(pdus) \in Nat /\ L # L + 1
  BY <1>1
<1> HIDE DEF G
<1> PICK total \in Nat, n \in Nat : total = Len(pdus) /\ n = L + 1
  BY <1>2
<1>8. ReadBy(G, n, extra, Body(pdu, total)) /\ G[n].todo = <<>> /\ Len(G[n].seen) # n
  BY <1>1, <1>2, <1>3, <1>4, <1>5 DEF ReadBy
<1>9. ~WalkOk(ReadPdus(pdu, total, extra), extra) /\ ReadPdus(pdu, total, extra).pdus = PdusOf(G[n], total)
  BY <1>8, ReadFrom
<1> QED BY <1>3, <1>9

-----------------------------------------------------------------------------
(* The layouts of the source.                                              *)

(* A layout is a sequence of fields, some of them of fixed length.         *)
Layout(l) == l \in Seq(Fields) /\ \E f \in Range(l) : f.kind = "fix"

(* The fields that layouts are made of.                                    *)
LEMMA FieldIn ==
    /\ Fix \in Flat1 /\ Fix.kind = "fix"
    /\ \A l \in Seq(Flat1) : Each(l) \in Flat2 /\ Opt(l) \in Flat2
    /\ \A l \in Seq(Flat1), m \in Seq(Flat1) : Alt(l, m) \in Flat2
    /\ \A l \in Seq(Flat2) : Each(l) \in Fields /\ Opt(l) \in Fields
    /\ \A l \in Seq(Flat2), m \in Seq(Flat2) : Alt(l, m) \in Fields
    /\ Vec \in Flat2 /\ Bits \in Flat2
<1>1. ASSUME NEW L, NEW l \in L, NEW m \in L
      PROVE  Alt(l, m) \in FieldsOver(L) /\ (<<>> \in L => Each(l) \in FieldsOver(L) /\ Opt(l) \in FieldsOver(L))
  BY DEF Field, Alt, Each, Opt, FieldsOver
<1>2. Fix \in Flat1 /\ Fix.kind = "fix"
  BY DEF Fix, Field, Flat1, FieldsOver
<1>3. <<>> \in Seq(Flat1) /\ <<>> \in Seq(Flat2) /\ <<Fix>> \in Seq(Flat1)
  BY <1>2
<1>4. \A l \in Seq(Flat1) : Each(l) \in Flat2 /\ Opt(l) \in Flat2
  BY <1>1, <1>3 DEF Flat2
<1>5. \A l \in Seq(Flat2) : Each(l) \in Fields /\ Opt(l) \in Fields
  BY <1>1, <1>3 DEF Fields
<1>6. Vec \in Flat2 /\ Bits \in Flat2
  BY <1>3, <1>4 DEF Vec, Bits
<1>7. \A l \in Seq(Flat1), m \in Seq(Flat1) : Alt(l, m) \in Flat2
  BY <1>1 DEF Flat2
<1>8. \A l \in Seq(Flat2), m \in Seq(Flat2) : Alt(l, m) \in Fields
  BY <1>1 DEF Fields
<1> QED BY <1>2, <1>4, <1>5, <1>6, <1>7, <1>8

(* Tuples of up to four elements are sequences ...                         *)
LEMMA Tuples ==
    ASSUME NEW S, NEW a \in S, NEW b \in S, NEW c \in S, NEW d \in S
    PROVE  /\ <<a>> \in Seq(S) /\ <<a, b>> \in Seq(S) /\ <<a, b, c>> \in Seq(S)
           /\ <<a, b, c, d>> \in Seq(S)
OBVIOUS

(* ... and longer ones.                                                    *)
LEMMA LongTuples ==
    ASSUME NEW S, NEW a \in S, NEW b \in S, NEW c \in S, NEW d \in S, NEW e \in S, NEW f \in S, NEW g \in S
    PROVE  /\ <<a, b, c, d, e>> \in Seq(S) /\ <<a, b, c, d, e, f>> \in Seq(S)
           /\ <<a, b, c, d, e, f, g>> \in Seq(S)
OBVIOUS

(* A layout goes on as a layout.                                           *)
LEMMA LayoutJoin ==
    ASSUME NEW l \in Seq(Fields), NEW m \in Seq(Fields), Layout(l)
    PROVE  Layout(l \o m) /\ l \o m \in Seq(Fields)
<1>1. l \o m \in Seq(Fields) /\ Range(l \o m) = Range(l) \cup Range(m)
  BY ConcatFacts
<1> QED BY <1>1 DEF Layout

(* What begins with a fixed field is a layout.                             *)
LEMMA LayoutTuple == ASSUME NEW l \in Seq(Fields), l # <<>>, l[1] = Fix PROVE Layout(l)
<1>1. 1 \in DOMAIN l
  OBVIOUS
<1> QED BY <1>1, FieldIn DEF Layout, Range

(* The structures of a DL_TTI PDU are layouts.                             *)
LEMMA DlLayouts == Layout(Type) /\ Layout(Pdcch) /\ Layout(Pdsch) /\ Layout(CsiRs) /\ Layout(Ssb) /\ Layout(Prs)
<1>0. Fix \in Fields /\ Vec \in Fields /\ Bits \in Fields /\ Fix \in Flat2
  BY FieldIn, FieldFacts
<1>1. /\ <<Fix>> \in Seq(Flat1) /\ <<Fix>> \in Seq(Flat2) /\ <<Fix, Fix>> \in Seq(Flat2)
      /\ <<Fix, Fix, Fix>> \in Seq(Flat2)
  BY <1>0, FieldIn, Tuples
<1>2. Opt(<<Fix>>) \in Flat2 /\ Opt(<<Fix>>) \in Fields
  BY <1>1, FieldIn
<1>3. <<Fix, Vec, Opt(<<Fix>>)>> \in Seq(Flat2)
  BY <1>0, <1>2, FieldIn, Tuples
<1>4. /\ Alt(<<Fix, Fix>>, <<Fix>>) \in Fields /\ Alt(<<Fix>>, <<Fix, Fix, Fix>>) \in Fields
      /\ Opt(<<Fix, Vec, Opt(<<Fix>>)>>) \in Fields /\ Each(<<Fix>>) \in Fields
  BY <1>1, <1>3, FieldIn
<1>5. Dci \in Seq(Fields)
  BY <1>0, <1>4, Tuples DEF Dci
<1>6. Layout(Pdcch)
  <2> PICK l : l = <<Fix, Bits, Alt(<<Fix>>, <<Fix, Fix, Fix>>), Fix>>
    OBVIOUS
  <2>1. l \in Seq(Fields)
    BY <1>0, <1>4, Tuples
  <2>2. Layout(l)
    BY <2>1, LayoutTuple
  <2> QED BY <1>5, <2>1, <2>2, LayoutJoin DEF Pdcch
<1>7. Layout(Pdsch)
  <2> PICK l, m : /\ l = <<Fix, Each(<<Fix>>), Fix, Alt(<<Fix, Fix>>, <<Fix>>), Fix>>
                  /\ m = <<Fix, Vec, Fix, Vec, Opt(<<Fix>>)>>
    OBVIOUS
  <2>1. l \in Seq(Fields) /\ m \in Seq(Fields)
    BY <1>0, <1>2, <1>4, LongTuples
  <2>2. PdschMaintV3 \in Seq(Fields)
    BY <1>0, LongTuples DEF PdschMaintV3
  <2>3. Layout(l)
    BY <2>1, LayoutTuple
  <2>4. l \o PdschMaintV3 \in Seq(Fields) /\ Layout(l \o PdschMaintV3)
    BY <2>1, <2>2, <2>3, LayoutJoin
  <2>5. Layout((l \o PdschMaintV3) \o m)
    BY <2>1, <2>4, LayoutJoin
  <2> QED BY <2>5 DEF Pdsch
<1>8. Layout(Type) /\ Layout(Ssb)
  <2>1. <<Fix>> \in Seq(Fields)
    BY <1>0, Tuples
  <2> QED BY <2>1, LayoutTuple DEF Type, Ssb
<1>9. Layout(CsiRs) /\ Layout(Prs)
  <2>1. <<Fix, Bits, Fix>> \in Seq(Fields) /\ <<Fix, Opt(<<Fix>>), Fix>> \in Seq(Fields)
    BY <1>0, <1>2, Tuples
  <2> QED BY <2>1, LayoutTuple DEF CsiRs, Prs
<1> QED BY <1>6, <1>7, <1>8, <1>9

(* So are those of a UL_TTI and of a TX_DATA PDU.                          *)
LEMMA UlLayouts == Layout(Prach) /\ Layout(Pusch) /\ Layout(Pucch) /\ Layout(Srs) /\ Layout(TxPdu)
<1>0. Fix \in Fields /\ Vec \in Fields /\ Fix \in Flat2 /\ Vec \in Flat2
  BY FieldIn, FieldFacts
<1>1. <<Fix>> \in Seq(Flat2) /\ <<Fix, Vec, Vec, Fix>> \in Seq(Flat2)
  BY <1>0, Tuples
<1>2. /\ Opt(<<Fix>>) \in Fields /\ Each(<<Fix>>) \in Fields
      /\ Each(<<Fix, Vec, Vec, Fix>>) \in Fields
  BY <1>1, FieldIn
<1>3. UciCorr \in Seq(Fields)
  BY <1>2, Tuples DEF UciCorr
<1>4. <<Fix>> \in Seq(Fields) /\ <<Fix, Vec>> \in Seq(Fields)
  BY <1>0, Tuples
<1>5. Layout(<<Fix>>) /\ Layout(<<Fix, Vec>>)
  BY <1>4, LayoutTuple
<1>6. Layout(Pusch)
  <2> PICK l, m : l = <<Fix, Vec, Fix, Each(<<Fix>>), Fix>> /\ m = <<Opt(<<Fix>>)>>
    OBVIOUS
  <2>1. l \in Seq(Fields) /\ m \in Seq(Fields)
    BY <1>0, <1>2, Tuples, LongTuples
  <2>2. Layout(l)
    BY <2>1, LayoutTuple
  <2>3. l \o UciCorr \in Seq(Fields) /\ Layout(l \o UciCorr)
    BY <1>3, <2>1, <2>2, LayoutJoin
  <2>4. Layout((l \o UciCorr) \o m)
    BY <2>1, <2>3, LayoutJoin
  <2> QED BY <2>4 DEF Pusch
<1>7. Layout(Pucch)
  BY <1>3, <1>4, <1>5, LayoutJoin DEF Pucch
<1> QED BY <1>5, <1>6, <1>7 DEF Prach, Srs, TxPdu

-----------------------------------------------------------------------------
(* Items of PDUs, with fixed fields for the structures in I.               *)
Holding(pdu, K, I) == /\ pdu \in Seq(PduItems(K))
                      /\ \A k \in I : \E x \in Range(pdu) : x.field.kind = "fix" /\ x.k = k

(* The items of a layout hold the structure it is the layout of.           *)
LEMMA HoldingItems ==
    ASSUME NEW l, Layout(l), NEW K, NEW k \in K
    PROVE  Holding(Items(l, k), K, {k})
<1>1. l \in Seq(Fields) /\ Len(l) \in Nat /\ DOMAIN l = 1 .. Len(l) /\ \A j \in DOMAIN l : l[j] \in Fields
  BY SeqFacts DEF Layout
<1> PICK s : s = Items(l, k)
  OBVIOUS
<1> PICK n \in Nat : n = Len(l)
  BY <1>1
<1>2. s = [j \in 1 .. n |-> [field |-> l[j], k |-> k]]
  BY <1>1 DEF Items
<1>3. ASSUME NEW j \in 1 .. n
      PROVE  s[j] \in PduItems(K) /\ s[j].field = l[j] /\ s[j].k = k /\ s[j] \in Range(s)
  <2>1. s[j] = [field |-> l[j], k |-> k] /\ l[j] \in Fields
    BY <1>1, <1>2
  <2>2. j \in DOMAIN s
    BY <1>2
  <2> QED BY <2>1, <2>2 DEF PduItems, Range
<1>4. s \in Seq(PduItems(K))
  <2>1. DOMAIN s = 1 .. n /\ s = [j \in 1 .. n |-> s[j]]
    BY <1>2
  <2>2. s \in [1 .. n -> PduItems(K)]
    BY <1>3, <2>1
  <2> QED BY <2>2
<1>5. PICK j \in DOMAIN l : l[j].kind = "fix"
  BY DEF Layout, Range
<1>6. s[j] \in Range(s) /\ s[j].field.kind = "fix" /\ s[j].k = k
  BY <1>1, <1>3, <1>5
<1> QED BY <1>4, <1>6 DEF Holding

(* Put together they hold the structures of both.                          *)
LEMMA HoldingJoin ==
    ASSUME NEW s, NEW t, NEW K, NEW I, NEW J, Holding(s, K, I), Holding(t, K, J)
    PROVE  Holding(s \o t, K, I \cup J)
<1>1. s \in Seq(PduItems(K)) /\ t \in Seq(PduItems(K))
  BY DEF Holding
<1>2. s \o t \in Seq(PduItems(K)) /\ Range(s \o t) = Range(s) \cup Range(t)
  BY <1>1, ConcatFacts
<1> QED BY <1>2 DEF Holding

(* Items that hold all their structures are those of a PDU with fixed      *)
(* fields for each.                                                        *)
LEMMA HoldingFixed ==
    ASSUME NEW pdu, NEW K \in SUBSET Nat, NEW I, Holding(pdu, K, I), K = I, K # {}
    PROVE  FixedFor(pdu, K) /\ pdu # <<>>
<1>1. FixedFor(pdu, K)
  BY DEF Holding, FixedFor, Range
<1>2. pdu # <<>>
  <2>1. PICK q \in DOMAIN pdu : TRUE
    BY DEF Holding, Range
  <2> QED BY <2>1
<1> QED BY <1>1, <1>2

(* The structures of the PDUs of each request.                             *)
KindsOf(msg) == CASE msg = "DL_TTI"  -> 0 .. 5
                  [] msg = "UL_TTI"  -> 0 .. 4
                  [] msg = "UL_DCI"  -> {1}
                  [] msg = "TX_DATA" -> {1}

(* Each request's PDUs have fixed fields for each of its structures.       *)
LEMMA PduFixed == ASSUME NEW msg \in Requests PROVE FixedFor(PduOf(msg), KindsOf(msg)) /\ PduOf(msg) # <<>>
<1>1. FixedFor(DlPdu, 0 .. 5) /\ DlPdu # <<>>
  <2> DEFINE K == 0 .. 5
  <2>1. /\ Holding(Items(Type, 0), K, {0}) /\ Holding(Items(Pdcch, 1), K, {1}) /\ Holding(Items(Pdsch, 2), K, {2})
        /\ Holding(Items(CsiRs, 3), K, {3}) /\ Holding(Items(Ssb, 4), K, {4}) /\ Holding(Items(Prs, 5), K, {5})
    BY DlLayouts, HoldingItems
  <2>2. Holding(DlPdu, K, (((({0} \cup {1}) \cup {2}) \cup {3}) \cup {4}) \cup {5})
    <3> HIDE DEF K
    <3> QED BY <2>1, HoldingJoin DEF DlPdu
  <2>3. K = (((({0} \cup {1}) \cup {2}) \cup {3}) \cup {4}) \cup {5} /\ K \in SUBSET Nat /\ K # {}
    OBVIOUS
  <2> HIDE DEF K
  <2>4. FixedFor(DlPdu, K) /\ DlPdu # <<>>
    BY <2>2, <2>3, HoldingFixed
  <2> QED BY <2>4 DEF K
<1>2. FixedFor(UlPdu, 0 .. 4) /\ UlPdu # <<>>
  <2> DEFINE K == 0 .. 4
  <2>1. /\ Holding(Items(Type, 0), K, {0}) /\ Holding(Items(Prach, 1), K, {1}) /\ Holding(Items(Pusch, 2), K, {2})
        /\ Holding(Items(Pucch, 3), K, {3}) /\ Holding(Items(Srs, 4), K, {4})
    BY DlLayouts, UlLayouts, HoldingItems
  <2>2. Holding(UlPdu, K, ((({0} \cup {1}) \cup {2}) \cup {3}) \cup {4})
    <3> HIDE DEF K
    <3> QED BY <2>1, HoldingJoin DEF UlPdu
  <2>3. K = ((({0} \cup {1}) \cup {2}) \cup {3}) \cup {4} /\ K \in SUBSET Nat /\ K # {}
    OBVIOUS
  <2> HIDE DEF K
  <2>4. FixedFor(UlPdu, K) /\ UlPdu # <<>>
    BY <2>2, <2>3, HoldingFixed
  <2> QED BY <2>4 DEF K
<1>3. /\ FixedFor(UlDciPdu, {1}) /\ UlDciPdu # <<>>
      /\ FixedFor(TxDataPdu, {1}) /\ TxDataPdu # <<>>
  <2>1. Holding(UlDciPdu, {1}, {1}) /\ Holding(TxDataPdu, {1}, {1})
    BY DlLayouts, UlLayouts, HoldingItems DEF UlDciPdu, TxDataPdu
  <2>2. {1} \in SUBSET Nat /\ {1} # {}
    OBVIOUS
  <2> QED BY <2>1, <2>2, HoldingFixed
<1> QED BY <1>1, <1>2, <1>3 DEF Requests, PduOf, KindsOf

-----------------------------------------------------------------------------
(* Those: the elements of a sequence at some places.                       *)

(* How Those goes through a sequence.                                      *)
Picks(f, s, I, S) ==
    /\ f[0] = <<>> /\ \A i \in 0 .. Len(s) : f[i] \in Seq(S)
    /\ \A i \in 0 .. Len(s) - 1 : f[i + 1] = IF i + 1 \in I THEN Append(f[i], s[i + 1]) ELSE f[i]

(* Those goes through the sequence so.                                     *)
LEMMA ThosePicks ==
    ASSUME NEW S, NEW s \in Seq(S), NEW I
    PROVE  \E f : Picks(f, s, I, S) /\ Those(s, I) = f[Len(s)]
<1> PICK n \in Nat : n = Len(s)
  OBVIOUS
<1> DEFINE X == Seq(S)
           step == [i \in Nat |-> [x \in X |-> IF i + 1 \in I /\ i < n THEN Append(x, s[i + 1]) ELSE x]]
<1>1. step \in [Nat -> [X -> X]]
  <2>1. ASSUME NEW i \in Nat, NEW x \in X
        PROVE  (IF i + 1 \in I /\ i < n THEN Append(x, s[i + 1]) ELSE x) \in X
    <3>1. i < n => s[i + 1] \in S
      OBVIOUS
    <3> QED BY <3>1
  <2> HIDE DEF X
  <2> QED BY <2>1
<1>2. <<>> \in X
  OBVIOUS
<1>3. PICK f : Steps(f, X, n, <<>>, step)
  <2>1. CanStep(X, n, <<>>, step)
    <3> HIDE DEF X, step
    <3> QED BY <1>1, <1>2 DEF CanStep
  <2> HIDE DEF step
  <2> QED BY <2>1, Iteration
<1>4. f[0] = <<>> /\ \A i \in 0 .. n : f[i] \in X
  BY <1>3 DEF Steps
<1>5. ASSUME NEW i \in 0 .. n - 1 PROVE f[i + 1] = IF i + 1 \in I THEN Append(f[i], s[i + 1]) ELSE f[i]
  <2>1. f[i] \in X /\ i \in Nat /\ i < n
    BY <1>4
  <2>2. f[i + 1] = step[i][f[i]]
    BY <1>3 DEF Steps
  <2> HIDE DEF X
  <2> QED BY <2>1, <2>2
<1>6. Picks(f, s, I, S)
  BY <1>4, <1>5 DEF Picks
<1> DEFINE Rhs(g) == [i \in 0 .. n |-> IF i = 0 THEN <<>>
                          ELSE IF i \in I THEN Append(g[i - 1], s[i]) ELSE g[i - 1]]
           Eq(g) == g = Rhs(g)
           G == [i \in 0 .. n |-> f[i]]
<1>7. Eq(G)
  <2>1. ASSUME NEW i \in 0 .. n PROVE G[i] = Rhs(G)[i]
    <3>1. CASE i = 0
      BY <1>4, <3>1
    <3>2. CASE i # 0
      <4>1. i - 1 \in 0 .. n - 1 /\ i - 1 \in 0 .. n /\ (i - 1) + 1 = i
        BY <3>2
      <4>2. G[i - 1] = f[i - 1] /\ G[i] = f[i]
        BY <4>1
      <4>3. f[i] = IF i \in I THEN Append(f[i - 1], s[i]) ELSE f[i - 1]
        BY <1>5, <4>1
      <4> QED BY <3>2, <4>2, <4>3
    <3> QED BY <3>1, <3>2
  <2>2. G = [i \in 0 .. n |-> G[i]] /\ Rhs(G) = [i \in 0 .. n |-> Rhs(G)[i]]
    OBVIOUS
  <2> HIDE DEF G, Rhs
  <2> QED BY <2>1, <2>2
<1>8. Those(s, I) = (CHOOSE g : Eq(g))[n]
  BY DEF Those
<1> PICK g : g = CHOOSE h : Eq(h)
  OBVIOUS
<1>9. g = Rhs(g)
  <2>1. Eq(g)
    <3> HIDE DEF Eq
    <3> QED BY <1>7
  <2> QED BY <2>1
<1>10. Alike(g, f, 0, n)
  <2>1. g[0] = f[0]
    <3>1. Rhs(g)[0] = <<>>
      OBVIOUS
    <3> HIDE DEF Rhs
    <3> QED BY <1>4, <1>9, <3>1
  <2>2. ASSUME NEW i \in 0 .. n - 1, g[i] = f[i] PROVE g[i + 1] = f[i + 1]
    <3> PICK b : b = i + 1
      OBVIOUS
    <3>1. b \in 0 .. n /\ b # 0 /\ b - 1 = i
      OBVIOUS
    <3>2. Rhs(g)[b] = IF b \in I THEN Append(g[i], s[b]) ELSE g[i]
      BY <3>1
    <3> HIDE DEF Rhs
    <3>3. g[b] = Rhs(g)[b]
      BY <1>9
    <3> QED BY <1>5, <2>2, <3>2, <3>3
  <2> QED BY <2>1, <2>2 DEF Alike
<1>11. g[n] = f[n]
  BY <1>10, Agreement
<1> QED BY <1>6, <1>8, <1>11

(* Those of s and of t at the same places belong together.                 *)
Paired(u, v, s, t, I) ==
    /\ Len(u) = Len(v) /\ Len(u) \in Nat
    /\ \A j \in 1 .. Len(u) : \E i \in I : i \in DOMAIN s /\ u[j] = s[i] /\ v[j] = t[i]

(* u is x with a at its end.                                               *)
Appended(u, x, a) == /\ Len(u) = Len(x) + 1 /\ u[Len(x) + 1] = a
                     /\ \A j \in 1 .. Len(x) : u[j] = x[j]
(* Append, place by place.                                                 *)
LEMMA AppendedFacts == ASSUME NEW S, NEW x \in Seq(S), NEW a \in S PROVE Appended(Append(x, a), x, a)
BY AppendProperties DEF Appended

(* ... because Those takes the same places of both.                        *)
LEMMA ThosePaired ==
    ASSUME NEW S, NEW T, NEW s \in Seq(S), NEW t \in Seq(T), Len(s) = Len(t), NEW I
    PROVE  /\ Those(s, I) \in Seq(S) /\ Those(t, I) \in Seq(T)
           /\ Paired(Those(s, I), Those(t, I), s, t, I)
<1> PICK n \in Nat : n = Len(s) /\ n = Len(t) /\ DOMAIN s = 1 .. n
  OBVIOUS
<1> PICK f : Picks(f, s, I, S) /\ Those(s, I) = f[Len(s)]
  BY ThosePicks
<1> PICK g : Picks(g, t, I, T) /\ Those(t, I) = g[Len(t)]
  BY ThosePicks
<1>0. /\ f[0] = <<>> /\ g[0] = <<>> /\ \A i \in 0 .. n : f[i] \in Seq(S) /\ g[i] \in Seq(T)
      /\ \A i \in 0 .. n - 1 : /\ f[i + 1] = IF i + 1 \in I THEN Append(f[i], s[i + 1]) ELSE f[i]
                               /\ g[i + 1] = IF i + 1 \in I THEN Append(g[i], t[i + 1]) ELSE g[i]
  BY DEF Picks
<1> DEFINE A == {i \in Nat : i <= n => Paired(f[i], g[i], s, t, I)}
<1>1. 0 \in A
  BY <1>0 DEF Paired
<1>2. ASSUME NEW i \in A PROVE i + 1 \in A
  <2> SUFFICES ASSUME i + 1 <= n PROVE Paired(f[i + 1], g[i + 1], s, t, I)
    OBVIOUS
  <2>1. i \in 0 .. n - 1 /\ i \in 0 .. n /\ i + 1 \in 1 .. n /\ Paired(f[i], g[i], s, t, I)
    OBVIOUS
  <2>2. CASE i + 1 \notin I
    BY <1>0, <2>1, <2>2
  <2>3. CASE i + 1 \in I
    <3> PICK x, y, a, b : x = f[i] /\ y = g[i] /\ a = s[i + 1] /\ b = t[i + 1]
      OBVIOUS
    <3> PICK u, v : u = f[i + 1] /\ v = g[i + 1]
      OBVIOUS
    <3>1. x \in Seq(S) /\ y \in Seq(T) /\ a \in S /\ b \in T
      BY <1>0, <2>1
    <3>2. u = Append(x, a) /\ v = Append(y, b) /\ Paired(x, y, s, t, I)
      BY <1>0, <2>1, <2>3
    <3> PICK m \in Nat : m = Len(x) /\ m = Len(y)
      BY <3>2 DEF Paired
    <3>3. /\ Len(u) = m + 1 /\ Len(v) = m + 1 /\ u[m + 1] = a /\ v[m + 1] = b
          /\ \A j \in 1 .. m : u[j] = x[j] /\ v[j] = y[j]
      <4>1. Appended(u, x, a) /\ Appended(v, y, b)
        BY <3>1, <3>2, AppendedFacts
      <4> QED BY <4>1 DEF Appended
    <3>4. ASSUME NEW j \in 1 .. m + 1 PROVE \E k \in I : k \in DOMAIN s /\ u[j] = s[k] /\ v[j] = t[k]
      <4>1. CASE j = m + 1
        BY <2>1, <2>3, <3>3, <4>1
      <4>2. CASE j # m + 1
        <5>1. j \in 1 .. m
          BY <4>2
        <5> QED BY <3>2, <3>3, <5>1 DEF Paired
      <4> QED BY <4>1, <4>2
    <3> QED BY <3>3, <3>4 DEF Paired
  <2> QED BY <2>2, <2>3
<1>3. A = Nat
  <2>1. A \in SUBSET Nat
    OBVIOUS
  <2> HIDE DEF A
  <2> QED BY <1>1, <1>2, <2>1, SetInduction
<1>4. Paired(f[n], g[n], s, t, I)
  BY <1>3
<1> QED BY <1>0, <1>4

(* Disjoint sets of places do not share elements.                          *)
Adds(x, y, z, i) == Len(x) + Len(y) = Len(z) /\ Len(x) \in 0 .. i

(* One more place goes to x, to y or to neither.                           *)
OneMore(x, y, z, x2, y2, z2) ==
    /\ Len(x) \in Nat /\ Len(y) \in Nat /\ Len(z) \in Nat
    /\ \/ Len(x2) = Len(x) + 1 /\ Len(y2) = Len(y) /\ Len(z2) = Len(z) + 1
       \/ Len(x2) = Len(x) /\ Len(y2) = Len(y) + 1 /\ Len(z2) = Len(z) + 1
       \/ Len(x2) = Len(x) /\ Len(y2) = Len(y) /\ Len(z2) = Len(z)
(* ... step by step.                                                       *)
LEMMA OneMoreAdds ==
    ASSUME NEW x, NEW y, NEW z, NEW x2, NEW y2, NEW z2, NEW i \in Nat,
           OneMore(x, y, z, x2, y2, z2), Adds(x, y, z, i)
    PROVE  Adds(x2, y2, z2, i + 1)
BY DEF OneMore, Adds

(* So the lengths add up, and none is longer than the sequence.            *)
LEMMA ThoseLength ==
    ASSUME NEW S, NEW s \in Seq(S), NEW I, NEW J, I \cap J = {}
    PROVE  /\ Len(Those(s, I)) + Len(Those(s, J)) = Len(Those(s, I \cup J))
           /\ Len(Those(s, I)) \in Nat /\ Len(Those(s, I)) <= Len(s)
<1> PICK n \in Nat : n = Len(s) /\ DOMAIN s = 1 .. n
  OBVIOUS
<1> PICK f : Picks(f, s, I, S) /\ Those(s, I) = f[Len(s)]
  BY ThosePicks
<1> PICK g : Picks(g, s, J, S) /\ Those(s, J) = g[Len(s)]
  BY ThosePicks
<1> PICK h : Picks(h, s, I \cup J, S) /\ Those(s, I \cup J) = h[Len(s)]
  BY ThosePicks
<1>0. /\ f[0] = <<>> /\ g[0] = <<>> /\ h[0] = <<>>
      /\ \A i \in 0 .. n : f[i] \in Seq(S) /\ g[i] \in Seq(S) /\ h[i] \in Seq(S)
      /\ \A i \in 0 .. n - 1 : /\ f[i + 1] = IF i + 1 \in I THEN Append(f[i], s[i + 1]) ELSE f[i]
                               /\ g[i + 1] = IF i + 1 \in J THEN Append(g[i], s[i + 1]) ELSE g[i]
                               /\ h[i + 1] = IF i + 1 \in I \/ i + 1 \in J THEN Append(h[i], s[i + 1]) ELSE h[i]
  BY DEF Picks
<1>1. ASSUME NEW i \in 0 .. n - 1 PROVE OneMore(f[i], g[i], h[i], f[i + 1], g[i + 1], h[i + 1])
  <2>1. s[i + 1] \in S /\ f[i] \in Seq(S) /\ g[i] \in Seq(S) /\ h[i] \in Seq(S)
    BY <1>0
  <2>2. \A x \in Seq(S) : Len(x) \in Nat /\ Len(Append(x, s[i + 1])) = Len(x) + 1
    BY <2>1
  <2>3. ~(i + 1 \in I /\ i + 1 \in J)
    OBVIOUS
  <2> QED BY <1>0, <2>1, <2>2, <2>3 DEF OneMore
<1> DEFINE A == {i \in Nat : i <= n => Adds(f[i], g[i], h[i], i)}
<1>2. 0 \in A
  <2>1. Len(f[0]) = 0 /\ Len(g[0]) = 0 /\ Len(h[0]) = 0
    BY <1>0
  <2>2. Adds(f[0], g[0], h[0], 0)
    BY <2>1 DEF Adds
  <2> QED BY <2>2
<1>3. ASSUME NEW i \in A PROVE i + 1 \in A
  <2> SUFFICES ASSUME i + 1 <= n PROVE Adds(f[i + 1], g[i + 1], h[i + 1], i + 1)
    OBVIOUS
  <2>1. i \in 0 .. n - 1 /\ i \in Nat /\ Adds(f[i], g[i], h[i], i)
    OBVIOUS
  <2> HIDE DEF A
  <2> QED BY <1>1, <2>1, OneMoreAdds
<1>4. A = Nat
  <2>1. A \in SUBSET Nat
    OBVIOUS
  <2> HIDE DEF A
  <2> QED BY <1>2, <1>3, <2>1, SetInduction
<1>5. Adds(f[n], g[n], h[n], n)
  BY <1>4
<1>6. Those(s, I) = f[n] /\ Those(s, J) = g[n] /\ Those(s, I \cup J) = h[n]
  OBVIOUS
<1>7. Len(f[n]) + Len(g[n]) = Len(h[n]) /\ Len(f[n]) \in 0 .. n
  BY <1>5 DEF Adds
<1>8. Len(f[n]) \in Nat /\ Len(f[n]) <= n
  BY <1>7
<1> HIDE DEF A
<1> QED BY <1>6, <1>7, <1>8, Zenon

-----------------------------------------------------------------------------
(* What a translator captures of what it read.                             *)

(* At all its places a sequence is itself.                                 *)
LEMMA ThoseAll == ASSUME NEW S, NEW s \in Seq(S), NEW I, DOMAIN s \subseteq I PROVE Those(s, I) = s
<1> PICK n \in Nat : n = Len(s) /\ DOMAIN s = 1 .. n
  OBVIOUS
<1> PICK f : Picks(f, s, I, S) /\ Those(s, I) = f[Len(s)]
  BY ThosePicks
<1>0. /\ f[0] = <<>> /\ \A i \in 0 .. n : f[i] \in Seq(S)
      /\ \A i \in 0 .. n - 1 : f[i + 1] = Append(f[i], s[i + 1])
  <2>1. \A i \in 0 .. n - 1 : i + 1 \in I
    OBVIOUS
  <2> QED BY <2>1 DEF Picks
<1> DEFINE A == {i \in Nat : i <= n => Len(f[i]) = i /\ \A j \in 1 .. i : f[i][j] = s[j]}
<1>1. 0 \in A
  BY <1>0
<1>2. ASSUME NEW i \in A PROVE i + 1 \in A
  <2> SUFFICES ASSUME i + 1 <= n PROVE Len(f[i + 1]) = i + 1 /\ \A j \in 1 .. i + 1 : f[i + 1][j] = s[j]
    OBVIOUS
  <2>1. i \in 0 .. n - 1 /\ i + 1 \in 1 .. n /\ Len(f[i]) = i /\ \A j \in 1 .. i : f[i][j] = s[j]
    OBVIOUS
  <2>2. Appended(f[i + 1], f[i], s[i + 1])
    <3>1. f[i] \in Seq(S) /\ s[i + 1] \in S /\ f[i + 1] = Append(f[i], s[i + 1])
      BY <1>0, <2>1
    <3> QED BY <3>1, AppendedFacts
  <2> QED BY <2>1, <2>2 DEF Appended
<1>3. A = Nat
  <2>1. A \in SUBSET Nat
    OBVIOUS
  <2> HIDE DEF A
  <2> QED BY <1>1, <1>2, <2>1, SetInduction
<1>4. Len(f[n]) = n /\ \A j \in 1 .. n : f[n][j] = s[j]
  BY <1>3
<1>5. f[n] \in Seq(S) /\ DOMAIN f[n] = 1 .. n
  BY <1>0, <1>4
<1> HIDE DEF A
<1>6. f[n] = s
  <2>1. f[n] = [j \in 1 .. n |-> f[n][j]] /\ s = [j \in 1 .. n |-> s[j]]
    BY <1>5
  <2> QED BY <1>4, <2>1
<1> QED BY <1>6

(* What the translator read of the PDUs of a message.                      *)
Seen(sp, pdus, K) ==
    /\ \E S : sp \in Seq(S)
    /\ pdus \in Seq(Pdus) /\ Len(sp) = Len(pdus)
    /\ \A i \in 1 .. Len(pdus) :
          /\ sp[i].type = IF 0 \in K THEN {pdus[i].type} ELSE {}
          /\ \A k \in K : k # 0 => sp[i].got[k] = {Mark(pdus[i].id, k)}

(* From an intact body the translator reads the PDUs that were written.    *)
LEMMA SeenPdus ==
    ASSUME NEW pdus \in Seq(Pdus), NEW K, NEW pdu, FixedFor(pdu, K), K \subseteq Structures \cup {0},
           FitsBuffer(Serialize(pdu, pdus))
    PROVE  Seen(PdusOf(Serialize(pdu, pdus), Len(pdus)), pdus, K)
<1> PICK w, n : w = Serialize(pdu, pdus) /\ n = Len(pdus)
  OBVIOUS
<1> PICK sp : sp = PdusOf(w, n)
  OBVIOUS
<1>1. n \in Nat /\ 0 \in Nat /\ \A k \in Structures : k \in Nat /\ k # 0
  BY DEF Structures
<1>2. /\ sp = [i \in 1 .. n |-> sp[i]] /\ DOMAIN sp = 1 .. n
      /\ \A i \in 1 .. n : sp[i].type = Got(w, i, 0) /\ \A k \in Structures : sp[i].got[k] = Got(w, i, k)
  BY DEF PdusOf
<1>3. \E S : sp \in Seq(S)
  <2> PICK S : S = {sp[i] : i \in 1 .. n}
    OBVIOUS
  <2>1. \A i \in 1 .. n : sp[i] \in S
    OBVIOUS
  <2>2. sp \in [1 .. n -> S]
    BY <1>2, <2>1
  <2>3. sp \in Seq(S)
    BY <1>1, <2>2
  <2> QED BY <2>3
<1>4. Len(sp) = n
  BY <1>1, <1>2
<1>5. \A i \in 1 .. n, k \in Nat : Got(w, i, k) = IF k \in K THEN {Value(pdus, i, k)} ELSE {}
  BY GotAsWritten
<1>6. \A i \in 1 .. n : sp[i].type = IF 0 \in K THEN {pdus[i].type} ELSE {}
  BY <1>1, <1>2, <1>5 DEF Value
<1>7. \A i \in 1 .. n, k \in K : k # 0 => sp[i].got[k] = {Mark(pdus[i].id, k)}
  BY <1>1, <1>2, <1>5 DEF Value
<1> QED BY <1>3, <1>4, <1>6, <1>7 DEF Seen

(* The PDUs of a request that are of one of the types.                     *)
OfTypes(pdus, types) == Those(pdus, {i \in DOMAIN pdus : pdus[i].type \in types})

(* Of PDUs that are no more than there is room for, exactly those of the   *)
(* types are captured, each known by its own id.                           *)
LEMMA CapturedIds ==
    ASSUME NEW sp, NEW pdus, NEW K \in SUBSET Nat, Seen(sp, pdus, K), NEW k \in K, k # 0,
           NEW cap \in Nat, Len(pdus) <= cap, NEW types, NEW I,
           I = {i \in DOMAIN pdus : IF 0 \in K THEN pdus[i].type \in types ELSE TRUE}
    PROVE  /\ Those(pdus, I) \in Seq(Pdus)
           /\ Captured(sp, types, k, cap) = [j \in 1 .. Len(Those(pdus, I)) |-> {Those(pdus, I)[j].id}]
<1> PICK S : sp \in Seq(S)
  BY DEF Seen
<1> PICK n \in Nat : n = Len(pdus)
  BY DEF Seen
<1>1. pdus \in Seq(Pdus) /\ Len(sp) = n /\ DOMAIN pdus = 1 .. n /\ DOMAIN sp = 1 .. n
  BY DEF Seen
<1>2. {i \in DOMAIN sp : sp[i].type \subseteq types} = I
  <2>1. ASSUME NEW i \in 1 .. n
        PROVE  sp[i].type \subseteq types <=> IF 0 \in K THEN pdus[i].type \in types ELSE TRUE
    <3>1. sp[i].type = IF 0 \in K THEN {pdus[i].type} ELSE {}
      BY DEF Seen
    <3> QED BY <3>1
  <2> QED BY <1>1, <2>1
<1> PICK u, v : u = Those(sp, I) /\ v = Those(pdus, I)
  OBVIOUS
<1>3. u \in Seq(S) /\ v \in Seq(Pdus) /\ Paired(u, v, sp, pdus, I)
  BY <1>1, ThosePaired
<1>4. Len(v) \in Nat /\ Len(v) <= n
  <2>1. I \cap {} = {}
    OBVIOUS
  <2> QED BY <1>1, <2>1, ThoseLength, ZenonT(60)
<1>5. AtMost(Len(u), cap) = Len(v)
  BY <1>3, <1>4 DEF AtMost, Paired
<1>6. ASSUME NEW j \in 1 .. Len(v)
      PROVE  {id \in DOMAIN Content : u[j].got[k] = {Mark(id, k)}} = {v[j].id}
  <2>1. PICK i \in I : i \in DOMAIN sp /\ u[j] = sp[i] /\ v[j] = pdus[i]
    BY <1>3 DEF Paired
  <2>2. i \in 1 .. n
    BY <1>1, <2>1
  <2>3. u[j].got[k] = {Mark(v[j].id, k)}
    BY <2>1, <2>2 DEF Seen
  <2>4. v[j].id \in DOMAIN Content
    <3>1. pdus[i] \in Pdus
      BY <1>1, <2>2
    <3> QED BY <2>1, <3>1 DEF Pdus
  <2>5. \A id \in DOMAIN Content : {Mark(v[j].id, k)} = {Mark(id, k)} <=> id = v[j].id
    BY <2>4, MarkFacts
  <2>6. \A id \in DOMAIN Content : u[j].got[k] = {Mark(id, k)} <=> id = v[j].id
    BY <2>3, <2>5, Zenon
  <2> PICK y, M : y = v[j].id /\ M = {id \in DOMAIN Content : u[j].got[k] = {Mark(id, k)}}
    OBVIOUS
  <2>7. y \in DOMAIN Content /\ \A id : id \in M <=> id \in DOMAIN Content /\ id = y
    BY <2>4, <2>6, Zenon
  <2>8. M = {y}
    BY <2>7, Zenon
  <2> QED BY <2>8
<1>7. Captured(sp, types, k, cap) =
         [i \in 1 .. AtMost(Len(u), cap) |-> {id \in DOMAIN Content : u[i].got[k] = {Mark(id, k)}}]
  BY <1>2 DEF Captured
<1> QED BY <1>3, <1>5, <1>6, <1>7

-----------------------------------------------------------------------------
(* The lists that are sent to L1.                                          *)

(* A list for L1 has one element for each PDU of s, known by its id alone. *)
Listed(list, s) ==
    /\ \E X : list \in Seq(X)
    /\ s \in Seq(Pdus) /\ Len(list) = Len(s)
    /\ \A i \in 1 .. Len(s) : list[i].id = {s[i].id}

(* What Mapped gives, whatever the mapper.                                 *)
ListOf(list, captured) ==
    /\ list = [i \in DOMAIN captured |-> list[i]]
    /\ \A i \in DOMAIN captured : list[i].id = captured[i]

(* ... for each mapper.                                                    *)
LEMMA MappedList ==
    ASSUME NEW k, NEW captured
    PROVE  /\ ListOf(Mapped(MapDl, k, captured), captured)
           /\ ListOf(Mapped(AerialMapDl, k, captured), captured)
           /\ ListOf(Mapped(MapUl, k, captured), captured)
           /\ ListOf(Mapped(AerialMapUl, k, captured), captured)
BY DEF Mapped, ListOf

(* A function on the numbers 1 to n is a sequence of length n.             *)
LEMMA FunctionIsSeq ==
    ASSUME NEW X, NEW n \in Nat, NEW f \in [1 .. n -> X]
    PROVE  f \in Seq(X) /\ Len(f) = n
OBVIOUS

(* What was captured as the PDUs of v makes a list of v.                   *)
LEMMA CapturedListed ==
    ASSUME NEW v \in Seq(Pdus), NEW captured, captured = [j \in 1 .. Len(v) |-> {v[j].id}],
           NEW list, ListOf(list, captured)
    PROVE  Listed(list, v)
<1> PICK n \in Nat : n = Len(v)
  OBVIOUS
<1>1. /\ DOMAIN captured = 1 .. n /\ list = [i \in 1 .. n |-> list[i]]
      /\ \A i \in 1 .. n : list[i].id = {v[i].id}
  BY DEF ListOf
<1> PICK X : X = {list[i] : i \in 1 .. n}
  OBVIOUS
<1>2. list \in [1 .. n -> X]
  BY <1>1
<1>3. list \in Seq(X) /\ Len(list) = n
  BY <1>2, FunctionIsSeq, Zenon
<1> QED BY <1>1, <1>3 DEF Listed

(* Lists of s and of t make a list of s and t.                             *)
LEMMA ListedJoin ==
    ASSUME NEW a, NEW b, NEW s, NEW t, Listed(a, s), Listed(b, t)
    PROVE  Listed(a \o b, s \o t) /\ Len(s \o t) = Len(s) + Len(t)
<1> PICK X : a \in Seq(X)
  BY DEF Listed
<1> PICK Y : b \in Seq(Y)
  BY DEF Listed
<1> PICK m \in Nat, n \in Nat : m = Len(s) /\ n = Len(t)
  BY DEF Listed
<1>1. s \in Seq(Pdus) /\ t \in Seq(Pdus) /\ Len(a) = m /\ Len(b) = n
  BY DEF Listed
<1>2. a \in Seq(X \cup Y) /\ b \in Seq(X \cup Y)
  BY SeqMonotone
<1>3. ASSUME NEW S, NEW p \in Seq(S), NEW q \in Seq(S), Len(p) = m, Len(q) = n
      PROVE  /\ p \o q \in Seq(S) /\ Len(p \o q) = m + n
             /\ \A i \in 1 .. m + n : (p \o q)[i] = IF i <= m THEN p[i] ELSE q[i - m]
  BY <1>3, ConcatProperties
<1>4. /\ a \o b \in Seq(X \cup Y) /\ Len(a \o b) = m + n
      /\ \A i \in 1 .. m + n : (a \o b)[i] = IF i <= m THEN a[i] ELSE b[i - m]
  BY <1>1, <1>2, <1>3
<1>5. /\ s \o t \in Seq(Pdus) /\ Len(s \o t) = m + n
      /\ \A i \in 1 .. m + n : (s \o t)[i] = IF i <= m THEN s[i] ELSE t[i - m]
  BY <1>1, <1>3
<1>6. ASSUME NEW i \in 1 .. m + n PROVE (a \o b)[i].id = {(s \o t)[i].id}
  <2>1. CASE i <= m
    <3>1. i \in 1 .. m /\ a[i].id = {s[i].id}
      BY <2>1 DEF Listed
    <3> QED BY <1>4, <1>5, <2>1, <3>1
  <2>2. CASE ~(i <= m)
    <3>1. i - m \in 1 .. n
      BY <2>2
    <3>2. b[i - m].id = {t[i - m].id}
      BY <3>1 DEF Listed
    <3> QED BY <1>4, <1>5, <2>2, <3>2
  <2> QED BY <2>1, <2>2
<1> QED BY <1>4, <1>5, <1>6 DEF Listed

(* The first of a list is a list of the first, and is the list itself      *)
(* where that fits.                                                        *)
LEMMA ListedFirst ==
    ASSUME NEW list, NEW s, Listed(list, s), NEW cap \in Nat
    PROVE  /\ Listed(FirstPdus(list, cap), SubSeq(s, 1, AtMost(Len(s), cap)))
           /\ Len(s) <= cap => FirstPdus(list, cap) = list
           /\ Len(FirstPdus(list, cap)) <= cap
<1> PICK X : list \in Seq(X)
  BY DEF Listed
<1> PICK n \in Nat : n = Len(s)
  BY DEF Listed
<1> PICK c : c = AtMost(n, cap)
  OBVIOUS
<1>1. c \in 0 .. n /\ c <= cap /\ (n <= cap => c = n)
  BY DEF AtMost
<1>2. s \in Seq(Pdus) /\ Len(list) = n
  BY DEF Listed
<1>3. ASSUME NEW S, NEW p \in Seq(S), Len(p) = n
      PROVE  /\ SubSeq(p, 1, c) \in Seq(S) /\ Len(SubSeq(p, 1, c)) = c
             /\ \A i \in 1 .. c : SubSeq(p, 1, c)[i] = p[i]
             /\ c = n => SubSeq(p, 1, c) = p
  BY <1>1, <1>3
<1> PICK a, b : a = SubSeq(list, 1, c) /\ b = SubSeq(s, 1, c)
  OBVIOUS
<1>4. /\ a \in Seq(X) /\ b \in Seq(Pdus) /\ Len(a) = c /\ Len(b) = c
      /\ \A i \in 1 .. c : a[i] = list[i] /\ b[i] = s[i]
      /\ c = n => a = list
  BY <1>2, <1>3
<1>5. \A i \in 1 .. c : i \in 1 .. n /\ list[i].id = {s[i].id}
  BY <1>1 DEF Listed
<1>6. Listed(a, b)
  <2>1. ASSUME NEW i \in 1 .. c PROVE a[i].id = {b[i].id}
    <3>1. a[i] = list[i] /\ b[i] = s[i] /\ list[i].id = {s[i].id}
      BY <1>4, <1>5
    <3> QED BY <3>1
  <2>2. \E Z : a \in Seq(Z)
    BY <1>4
  <2> QED BY <1>4, <2>1, <2>2 DEF Listed
<1>7. FirstPdus(list, cap) = a
  BY <1>2 DEF FirstPdus
<1> QED BY <1>1, <1>4, <1>6, <1>7

(* The k-th structure's list is one of the PDUs of its types.              *)
LEMMA TypeListed ==
    ASSUME NEW sp, NEW pdus, NEW K \in SUBSET Nat, Seen(sp, pdus, K), NEW k \in K, k # 0, 0 \in K,
           NEW cap \in Nat, Len(pdus) <= cap, NEW types, NEW list,
           ListOf(list, Captured(sp, types, k, cap))
    PROVE  Listed(list, OfTypes(pdus, types))
<1> PICK I : I = {i \in DOMAIN pdus : pdus[i].type \in types}
  OBVIOUS
<1> PICK v : v = Those(pdus, I)
  OBVIOUS
<1>1. v \in Seq(Pdus) /\ Captured(sp, types, k, cap) = [j \in 1 .. Len(v) |-> {v[j].id}]
  <2>1. I = {i \in DOMAIN pdus : IF 0 \in K THEN pdus[i].type \in types ELSE TRUE}
    OBVIOUS
  <2> QED BY <2>1, CapturedIds
<1>2. Listed(list, v)
  BY <1>1, CapturedListed
<1>3. v = OfTypes(pdus, types)
  BY DEF OfTypes
<1> QED BY <1>2, <1>3

(* Types that exclude one another do not share PDUs.                       *)
LEMMA OfTypesLength ==
    ASSUME NEW pdus \in Seq(Pdus), NEW T, NEW U, T \cap U = {}
    PROVE  /\ Len(OfTypes(pdus, T)) + Len(OfTypes(pdus, U)) = Len(OfTypes(pdus, T \cup U))
           /\ Len(OfTypes(pdus, T)) \in Nat /\ Len(OfTypes(pdus, T)) <= Len(pdus)
<1> PICK I, J : /\ I = {i \in DOMAIN pdus : pdus[i].type \in T}
                /\ J = {i \in DOMAIN pdus : pdus[i].type \in U}
  OBVIOUS
<1>1. I \cap J = {} /\ I \cup J = {i \in DOMAIN pdus : pdus[i].type \in T \cup U}
  OBVIOUS
<1>2. /\ Len(Those(pdus, I)) + Len(Those(pdus, J)) = Len(Those(pdus, I \cup J))
      /\ Len(Those(pdus, I)) \in Nat /\ Len(Those(pdus, I)) <= Len(pdus)
  BY <1>1, ThoseLength, ZenonT(60)
<1>3. /\ OfTypes(pdus, T) = Those(pdus, I) /\ OfTypes(pdus, U) = Those(pdus, J)
      /\ OfTypes(pdus, T \cup U) = Those(pdus, I \cup J)
  BY <1>1 DEF OfTypes
<1> QED BY <1>2, <1>3

(* So four of them are no more than the request has.                       *)
LEMMA FourTypesLength ==
    ASSUME NEW pdus \in Seq(Pdus), NEW A, NEW B, NEW C, NEW D,
           A \cap B = {}, (A \cup B) \cap C = {}, ((A \cup B) \cup C) \cap D = {}
    PROVE  /\ Len(OfTypes(pdus, A)) + Len(OfTypes(pdus, B)) + Len(OfTypes(pdus, C)) + Len(OfTypes(pdus, D))
                <= Len(pdus)
           /\ Len(OfTypes(pdus, A)) \in Nat /\ Len(OfTypes(pdus, B)) \in Nat
           /\ Len(OfTypes(pdus, C)) \in Nat /\ Len(OfTypes(pdus, D)) \in Nat
<1>1. Len(OfTypes(pdus, A)) + Len(OfTypes(pdus, B)) = Len(OfTypes(pdus, A \cup B))
  BY OfTypesLength
<1>2. Len(OfTypes(pdus, A \cup B)) + Len(OfTypes(pdus, C)) = Len(OfTypes(pdus, (A \cup B) \cup C))
  BY OfTypesLength
<1>3. Len(OfTypes(pdus, (A \cup B) \cup C)) + Len(OfTypes(pdus, D)) = Len(OfTypes(pdus, ((A \cup B) \cup C) \cup D))
  BY OfTypesLength
<1>4. ASSUME NEW T PROVE Len(OfTypes(pdus, T)) \in Nat /\ Len(OfTypes(pdus, T)) <= Len(pdus)
  <2>1. T \cap {} = {}
    OBVIOUS
  <2> QED BY <2>1, OfTypesLength
<1>5. Len(OfTypes(pdus, ((A \cup B) \cup C) \cup D)) <= Len(pdus)
  BY <1>4
<1>6. /\ Len(OfTypes(pdus, A)) \in Nat /\ Len(OfTypes(pdus, B)) \in Nat
      /\ Len(OfTypes(pdus, C)) \in Nat /\ Len(OfTypes(pdus, D)) \in Nat
      /\ Len(OfTypes(pdus, A \cup B)) \in Nat /\ Len(OfTypes(pdus, (A \cup B) \cup C)) \in Nat
  BY <1>4
<1> PICK t1, t2, t3, a, b, c, d, n :
      /\ t1 = Len(OfTypes(pdus, A \cup B)) /\ t2 = Len(OfTypes(pdus, (A \cup B) \cup C))
      /\ t3 = Len(OfTypes(pdus, ((A \cup B) \cup C) \cup D)) /\ n = Len(pdus)
      /\ a = Len(OfTypes(pdus, A)) /\ b = Len(OfTypes(pdus, B))
      /\ c = Len(OfTypes(pdus, C)) /\ d = Len(OfTypes(pdus, D))
  OBVIOUS
<1>7. a + b + c + d <= n
  BY <1>1, <1>2, <1>3, <1>5, <1>6
<1> QED BY <1>6, <1>7

(* The lists of four structures make a list of their PDUs, and none is     *)
(* cut off.                                                                *)
LEMMA FourListed ==
    ASSUME NEW pdus \in Seq(Pdus), NEW A, NEW B, NEW C, NEW D,
           A \cap B = {}, (A \cup B) \cap C = {}, ((A \cup B) \cup C) \cap D = {},
           NEW a, NEW b, NEW c, NEW d, NEW cap \in Nat, Len(pdus) <= cap,
           Listed(a, OfTypes(pdus, A)), Listed(b, OfTypes(pdus, B)),
           Listed(c, OfTypes(pdus, C)), Listed(d, OfTypes(pdus, D))
    PROVE  /\ Listed(FirstPdus(((a \o b) \o c) \o d, cap),
                     ((OfTypes(pdus, A) \o OfTypes(pdus, B)) \o OfTypes(pdus, C)) \o OfTypes(pdus, D))
           /\ Len(FirstPdus(((a \o b) \o c) \o d, cap)) <= cap
           /\ Listed(((a \o b) \o c) \o d,
                     ((OfTypes(pdus, A) \o OfTypes(pdus, B)) \o OfTypes(pdus, C)) \o OfTypes(pdus, D))
           /\ Len(((OfTypes(pdus, A) \o OfTypes(pdus, B)) \o OfTypes(pdus, C)) \o OfTypes(pdus, D)) <= Len(pdus)
<1> PICK s, t, u, v : /\ s = OfTypes(pdus, A) /\ t = OfTypes(pdus, B)
                      /\ u = OfTypes(pdus, C) /\ v = OfTypes(pdus, D)
  OBVIOUS
<1>0. Listed(a, s) /\ Listed(b, t) /\ Listed(c, u) /\ Listed(d, v)
  OBVIOUS
<1>1. Listed(a \o b, s \o t) /\ Len(s \o t) = Len(s) + Len(t)
  BY <1>0, ListedJoin
<1>2. Listed((a \o b) \o c, (s \o t) \o u) /\ Len((s \o t) \o u) = Len(s \o t) + Len(u)
  BY <1>0, <1>1, ListedJoin
<1>3. Listed(((a \o b) \o c) \o d, ((s \o t) \o u) \o v) /\ Len(((s \o t) \o u) \o v) = Len((s \o t) \o u) + Len(v)
  BY <1>0, <1>2, ListedJoin
<1>4. Len(s) + Len(t) + Len(u) + Len(v) <= Len(pdus)
  BY FourTypesLength
<1> PICK list, whole : list = ((a \o b) \o c) \o d /\ whole = ((s \o t) \o u) \o v
  OBVIOUS
<1>5. Listed(list, whole)
  BY <1>3
<1>6. Len(whole) <= cap /\ Len(whole) <= Len(pdus)
  <2>1. Len(whole) = Len(s) + Len(t) + Len(u) + Len(v)
    BY <1>1, <1>2, <1>3
  <2>2. Len(pdus) \in Nat
    OBVIOUS
  <2>3. Len(whole) \in Nat
    BY <1>5 DEF Listed
  <2> QED BY <1>4, <2>1, <2>2, <2>3
<1>7. FirstPdus(list, cap) = list /\ Len(FirstPdus(list, cap)) <= cap
  BY <1>5, <1>6, ListedFirst
<1> QED BY <1>5, <1>6, <1>7

(* What a DL_TTI and a UL_TTI mean, in the order of their structures.      *)
MeantDl(pdus) == OfTypes(pdus, {3}) \o OfTypes(pdus, {0}) \o OfTypes(pdus, {1}) \o OfTypes(pdus, {2})
MeantUl(pdus) == OfTypes(pdus, {0}) \o OfTypes(pdus, {1, 5}) \o OfTypes(pdus, {2, 3}) \o OfTypes(pdus, {4})

(* A DL_TTI as read is listed as it is meant.                              *)
LEMMA DlListed ==
    ASSUME NEW sp, NEW pdus, Seen(sp, pdus, 0 .. 5), Len(pdus) <= MaxDlPdus
    PROVE  /\ Listed(DlList(MapDl, sp), MeantDl(pdus)) /\ Listed(DlList(AerialMapDl, sp), MeantDl(pdus))
           /\ Len(MeantDl(pdus)) <= Len(pdus)
<1>1. pdus \in Seq(Pdus) /\ MaxDlPdus \in Nat
  BY LimitsAssumption DEF Seen
<1>2. ASSUME NEW k \in 1 .. 4, NEW list, ListOf(list, Captured(sp, DlTypes[k], k, MaxDlPdus))
      PROVE  Listed(list, OfTypes(pdus, DlTypes[k]))
  <2>1. 0 .. 5 \in SUBSET Nat /\ k \in 0 .. 5 /\ k # 0 /\ 0 \in 0 .. 5
    OBVIOUS
  <2> QED BY <1>1, <1>2, <2>1, TypeListed
<1>3. /\ DlTypes[1] = {0} /\ DlTypes[2] = {1} /\ DlTypes[3] = {2} /\ DlTypes[4] = {3}
      /\ 1 \in 1 .. 4 /\ 2 \in 1 .. 4 /\ 3 \in 1 .. 4 /\ 4 \in 1 .. 4
  BY DEF DlTypes
<1>4. {3} \cap {0} = {} /\ ({3} \cup {0}) \cap {1} = {} /\ (({3} \cup {0}) \cup {1}) \cap {2} = {}
  OBVIOUS
<1>5. Listed(DlList(MapDl, sp), MeantDl(pdus)) /\ Len(MeantDl(pdus)) <= Len(pdus)
  <2> DEFINE of(k) == Mapped(MapDl, k, Captured(sp, DlTypes[k], k, MaxDlPdus))
  <2>1. \A k \in 1 .. 4 : Listed(of(k), OfTypes(pdus, DlTypes[k]))
    BY <1>2, MappedList
  <2>2. DlList(MapDl, sp) = FirstPdus(of(4) \o of(1) \o of(2) \o of(3), MaxDlPdus)
    BY DEF DlList
  <2> HIDE DEF of
  <2>3. /\ Listed(of(4), OfTypes(pdus, {3})) /\ Listed(of(1), OfTypes(pdus, {0}))
        /\ Listed(of(2), OfTypes(pdus, {1})) /\ Listed(of(3), OfTypes(pdus, {2}))
    BY <1>3, <2>1
  <2> QED BY <1>1, <1>4, <2>2, <2>3, FourListed DEF MeantDl
<1>6. Listed(DlList(AerialMapDl, sp), MeantDl(pdus))
  <2> DEFINE of(k) == Mapped(AerialMapDl, k, Captured(sp, DlTypes[k], k, MaxDlPdus))
  <2>1. \A k \in 1 .. 4 : Listed(of(k), OfTypes(pdus, DlTypes[k]))
    BY <1>2, MappedList
  <2>2. DlList(AerialMapDl, sp) = FirstPdus(of(4) \o of(1) \o of(2) \o of(3), MaxDlPdus)
    BY DEF DlList
  <2> HIDE DEF of
  <2>3. /\ Listed(of(4), OfTypes(pdus, {3})) /\ Listed(of(1), OfTypes(pdus, {0}))
        /\ Listed(of(2), OfTypes(pdus, {1})) /\ Listed(of(3), OfTypes(pdus, {2}))
    BY <1>3, <2>1
  <2> QED BY <1>1, <1>4, <2>2, <2>3, FourListed DEF MeantDl
<1> QED BY <1>5, <1>6

(* The list of UL_TTI before it is cut to what L1 has room for.            *)
UlList(Map(_, _), sp) ==
    LET of(k) == Mapped(Map, k, Captured(sp, UlTypes[k], k, MaxUlPdus))
    IN  of(1) \o of(2) \o of(3) \o of(4)

(* So is a UL_TTI.                                                         *)
LEMMA UlListed ==
    ASSUME NEW sp, NEW pdus, Seen(sp, pdus, 0 .. 4), Len(pdus) <= MaxUlPdus
    PROVE  /\ Listed(UlList(MapUl, sp), MeantUl(pdus)) /\ Listed(UlList(AerialMapUl, sp), MeantUl(pdus))
           /\ Len(MeantUl(pdus)) <= Len(pdus)
<1>1. pdus \in Seq(Pdus) /\ MaxUlPdus \in Nat
  BY LimitsAssumption DEF Seen
<1>2. ASSUME NEW k \in 1 .. 4, NEW list, ListOf(list, Captured(sp, UlTypes[k], k, MaxUlPdus))
      PROVE  Listed(list, OfTypes(pdus, UlTypes[k]))
  <2>1. 0 .. 4 \in SUBSET Nat /\ k \in 0 .. 4 /\ k # 0 /\ 0 \in 0 .. 4
    OBVIOUS
  <2> QED BY <1>1, <1>2, <2>1, TypeListed
<1>3. /\ UlTypes[1] = {0} /\ UlTypes[2] = {1, 5} /\ UlTypes[3] = {2, 3} /\ UlTypes[4] = {4}
      /\ 1 \in 1 .. 4 /\ 2 \in 1 .. 4 /\ 3 \in 1 .. 4 /\ 4 \in 1 .. 4
  BY DEF UlTypes
<1> PICK A, B, C, D : A = {0} /\ B = {1, 5} /\ C = {2, 3} /\ D = {4}
  OBVIOUS
<1>4. A \cap B = {} /\ (A \cup B) \cap C = {} /\ ((A \cup B) \cup C) \cap D = {}
  OBVIOUS
<1>m. MeantUl(pdus) = ((OfTypes(pdus, A) \o OfTypes(pdus, B)) \o OfTypes(pdus, C)) \o OfTypes(pdus, D)
  BY DEF MeantUl
<1>5. Listed(UlList(MapUl, sp), MeantUl(pdus)) /\ Len(MeantUl(pdus)) <= Len(pdus)
  <2> DEFINE of(k) == Mapped(MapUl, k, Captured(sp, UlTypes[k], k, MaxUlPdus))
  <2>1. \A k \in 1 .. 4 : Listed(of(k), OfTypes(pdus, UlTypes[k]))
    BY <1>2, MappedList
  <2>2. UlList(MapUl, sp) = of(1) \o of(2) \o of(3) \o of(4)
    BY DEF UlList
  <2> HIDE DEF of
  <2>3. /\ Listed(of(1), OfTypes(pdus, A)) /\ Listed(of(2), OfTypes(pdus, B))
        /\ Listed(of(3), OfTypes(pdus, C)) /\ Listed(of(4), OfTypes(pdus, D))
    BY <1>3, <2>1
  <2> PICK whole : whole = ((OfTypes(pdus, A) \o OfTypes(pdus, B)) \o OfTypes(pdus, C)) \o OfTypes(pdus, D)
    OBVIOUS
  <2> PICK a, b, c, d : a = of(1) /\ b = of(2) /\ c = of(3) /\ d = of(4)
    OBVIOUS
  <2>4. /\ Listed(FirstPdus(((a \o b) \o c) \o d, MaxUlPdus), whole)
        /\ Listed(((a \o b) \o c) \o d, whole) /\ Len(whole) <= Len(pdus)
    BY <1>1, <1>4, <2>3, FourListed
  <2> QED BY <1>m, <2>2, <2>4
<1>6. Listed(UlList(AerialMapUl, sp), MeantUl(pdus))
  <2> DEFINE of(k) == Mapped(AerialMapUl, k, Captured(sp, UlTypes[k], k, MaxUlPdus))
  <2>1. \A k \in 1 .. 4 : Listed(of(k), OfTypes(pdus, UlTypes[k]))
    BY <1>2, MappedList
  <2>2. UlList(AerialMapUl, sp) = of(1) \o of(2) \o of(3) \o of(4)
    BY DEF UlList
  <2> HIDE DEF of
  <2>3. /\ Listed(of(1), OfTypes(pdus, A)) /\ Listed(of(2), OfTypes(pdus, B))
        /\ Listed(of(3), OfTypes(pdus, C)) /\ Listed(of(4), OfTypes(pdus, D))
    BY <1>3, <2>1
  <2> PICK whole : whole = ((OfTypes(pdus, A) \o OfTypes(pdus, B)) \o OfTypes(pdus, C)) \o OfTypes(pdus, D)
    OBVIOUS
  <2> PICK a, b, c, d : a = of(1) /\ b = of(2) /\ c = of(3) /\ d = of(4)
    OBVIOUS
  <2>4. /\ Listed(FirstPdus(((a \o b) \o c) \o d, MaxUlPdus), whole)
        /\ Listed(((a \o b) \o c) \o d, whole) /\ Len(whole) <= Len(pdus)
    BY <1>1, <1>4, <2>3, FourListed
  <2> QED BY <1>m, <2>2, <2>4
<1> QED BY <1>5, <1>6

(* Where a PDU has no type all of them are meant.                          *)
LEMMA AllListed ==
    ASSUME NEW sp, NEW pdus, Seen(sp, pdus, {1}), NEW cap \in Nat, Len(pdus) <= cap,
           NEW list, ListOf(list, Captured(sp, {}, 1, cap))
    PROVE  Listed(list, pdus)
<1>1. pdus \in Seq(Pdus)
  BY DEF Seen
<1> PICK I : I = DOMAIN pdus
  OBVIOUS
<1>2. Those(pdus, I) = pdus
  BY <1>1, ThoseAll
<1>3. I = {i \in DOMAIN pdus : IF 0 \in {1} THEN pdus[i].type \in {} ELSE TRUE}
  <2>1. 0 \notin {1}
    OBVIOUS
  <2> QED BY <2>1, Zenon
<1>4. {1} \in SUBSET Nat /\ 1 \in {1} /\ 1 # 0
  OBVIOUS
<1>5. Captured(sp, {}, 1, cap) = [j \in 1 .. Len(Those(pdus, I)) |-> {Those(pdus, I)[j].id}]
  BY <1>3, <1>4, CapturedIds
<1> QED BY <1>1, <1>2, <1>5, CapturedListed

(* The list of UL_DCI.                                                     *)
DciList(sp) == Mapped(MapDl, 1, Captured(sp, {}, 1, MaxDlPdus))

(* A UL_DCI as read is listed as it is meant, as far as L1 has room.       *)
LEMMA DciListed ==
    ASSUME NEW sp, NEW pdus, Seen(sp, pdus, {1}), Len(pdus) <= MaxDlPdus
    PROVE  /\ Listed(DciList(sp), pdus)
           /\ Listed(FirstPdus(DciList(sp), MaxCoresets), SubSeq(pdus, 1, AtMost(Len(pdus), MaxCoresets)))
<1>1. MaxDlPdus \in Nat /\ MaxCoresets \in Nat
  BY LimitsAssumption
<1>2. Listed(DciList(sp), pdus)
  <2>1. ListOf(DciList(sp), Captured(sp, {}, 1, MaxDlPdus))
    BY MappedList DEF DciList
  <2> QED BY <1>1, <2>1, AllListed
<1> QED BY <1>1, <1>2, ListedFirst

(* The list of TX_DATA, the blocks of it that fit, and what it means.      *)
TbList(sp, total) == Mapped(LAMBDA k, c : [kind |-> "TB"], 1, Captured(sp, {}, 1, total))
TbFits(list)      == {i \in DOMAIN list : \A id \in list[i].id : Content[id].tb <= MaxTb}
MeantTb(pdus)     == Those(pdus, {i \in DOMAIN pdus : Content[pdus[i].id].tb <= MaxTb})

(* A TX_DATA as read is listed as it is meant: without the blocks that     *)
(* are too large.                                                          *)
LEMMA TbListed ==
    ASSUME NEW sp, NEW pdus, Seen(sp, pdus, {1}), Len(pdus) <= MaxTxPdus
    PROVE  LET list == TbList(sp, Len(pdus))
           IN  Listed(FirstPdus(Those(list, TbFits(list)), MaxTxPdus), MeantTb(pdus))
<1> PICK n \in Nat : n = Len(pdus)
  BY DEF Seen
<1>1. pdus \in Seq(Pdus) /\ DOMAIN pdus = 1 .. n
  BY DEF Seen
<1> PICK list : list = TbList(sp, n)
  OBVIOUS
<1>2. Listed(list, pdus)
  <2>1. ListOf(list, Captured(sp, {}, 1, n))
    BY DEF TbList, Mapped, ListOf
  <2> QED BY <2>1, AllListed
<1> PICK X : list \in Seq(X)
  BY <1>2 DEF Listed
<1>3. Len(list) = n /\ DOMAIN list = 1 .. n /\ \A i \in 1 .. n : list[i].id = {pdus[i].id}
  BY <1>2 DEF Listed
<1> PICK I : I = {i \in DOMAIN pdus : Content[pdus[i].id].tb <= MaxTb}
  OBVIOUS
<1>4. TbFits(list) = I
  BY <1>1, <1>3 DEF TbFits
<1> PICK u, v : u = Those(list, I) /\ v = Those(pdus, I)
  OBVIOUS
<1>5. u \in Seq(X) /\ v \in Seq(Pdus) /\ Paired(u, v, list, pdus, I)
  BY <1>1, <1>3, ThosePaired
<1>6. Listed(u, v)
  <2>1. ASSUME NEW j \in 1 .. Len(v) PROVE u[j].id = {v[j].id}
    <3>1. j \in 1 .. Len(u)
      BY <1>5 DEF Paired
    <3>2. PICK i \in I : i \in DOMAIN list /\ u[j] = list[i] /\ v[j] = pdus[i]
      BY <1>5, <3>1, Zenon DEF Paired
    <3>3. list[i].id = {pdus[i].id}
      BY <1>3, <3>2, Zenon
    <3> QED BY <3>2, <3>3, Zenon
  <2>2. Len(u) = Len(v) /\ \E Z : u \in Seq(Z)
    BY <1>5 DEF Paired
  <2> QED BY <1>5, <2>1, <2>2 DEF Listed
<1>7. Len(v) \in Nat /\ Len(v) <= n
  <2>1. I \cap {} = {}
    OBVIOUS
  <2> QED BY <1>1, <2>1, ThoseLength
<1>8. MaxTxPdus \in Nat /\ Len(v) <= MaxTxPdus
  BY <1>7, LimitsAssumption
<1>9. FirstPdus(u, MaxTxPdus) = u
  BY <1>6, <1>8, ListedFirst
<1> QED BY <1>4, <1>6, <1>9 DEF MeantTb

-----------------------------------------------------------------------------
(* A request on its way, and what becomes of it.                           *)

(* A request on its way, as OCUDU-L2 put it there.                         *)
Hows == {"none", "invalid", "cut", "extra"}
Asked(m, req) ==
    /\ m.msg \in Requests /\ m.pdus \in Seq(Pdus) /\ Len(m.pdus) <= Room(m.msg)
    /\ m.how \in Hows /\ (m.how = "cut" => m.pdus # <<>>)
    /\ FitsBuffer(Serialize(PduOf(m.msg), m.pdus))
    /\ req.valid = (m.how # "invalid") /\ req.total = Len(m.pdus)
    /\ req.wire = Damaged(Wire(Serialize(PduOf(m.msg), m.pdus)), m.how)

(* What the translator reads of it.                                        *)
ReadOf(m, req) == ReadPdus(PduOf(m.msg), req.total, req.wire)

(* How the walk over a request ends, and what it has read, by what befell  *)
(* the request.                                                            *)
LEMMA ReadRequest ==
    ASSUME NEW m, NEW req, Asked(m, req)
    PROVE  /\ m.how = "none" => /\ WalkOk(ReadOf(m, req), req.wire)
                                /\ Seen(ReadOf(m, req).pdus, m.pdus, KindsOf(m.msg))
           /\ m.how = "cut" => ~WalkOk(ReadOf(m, req), req.wire) /\ req.total > 0
           /\ m.how = "extra" => /\ ~WalkOk(ReadOf(m, req), req.wire)
                                 /\ req.total > 0 \/ Seen(ReadOf(m, req).pdus, <<>>, KindsOf(m.msg))
<1> PICK pdu, pdus, w, wire : /\ pdu = PduOf(m.msg) /\ pdus = m.pdus
                              /\ w = Serialize(pdu, pdus) /\ wire = Wire(w)
  OBVIOUS
<1> PICK K : K = KindsOf(m.msg)
  OBVIOUS
<1>1. FixedFor(pdu, K) /\ pdu # <<>> /\ pdus \in Seq(Pdus) /\ FitsBuffer(w)
  BY PduFixed DEF Asked
<1>2. K \subseteq Structures \cup {0}
  BY DEF Asked, Requests, KindsOf, Structures
<1>3. CASE m.how = "none"
  <2>1. req.wire = wire /\ req.total = Len(pdus)
    BY <1>3 DEF Asked, Damaged
  <2>2. WalkOk(ReadPdus(pdu, Len(pdus), wire), wire) /\ ReadPdus(pdu, Len(pdus), wire).pdus = PdusOf(w, Len(pdus))
    BY <1>1, ReadIntact
  <2>3. Seen(PdusOf(w, Len(pdus)), pdus, K)
    BY <1>1, <1>2, SeenPdus
  <2> QED BY <1>3, <2>1, <2>2, <2>3 DEF ReadOf
<1>4. CASE m.how = "cut"
  <2>1. req.wire = SubSeq(wire, 1, Len(wire) - 1) /\ req.total = Len(pdus) /\ pdus # <<>>
    BY <1>4 DEF Asked, Damaged
  <2>2. ~WalkOk(ReadPdus(pdu, Len(pdus), req.wire), req.wire)
    BY <1>1, <2>1, ReadCut
  <2>3. Len(pdus) > 0
    BY <1>1, <2>1
  <2> QED BY <1>4, <2>1, <2>2, <2>3 DEF ReadOf
<1>5. CASE m.how = "extra"
  <2>1. req.wire = Append(wire, 0) /\ req.total = Len(pdus)
    BY <1>5 DEF Asked, Damaged
  <2> PICK s : s = ReadPdus(pdu, Len(pdus), req.wire)
    OBVIOUS
  <2>2. ~WalkOk(s, req.wire) /\ s.pdus = PdusOf(w, Len(pdus))
    BY <1>1, <2>1, ReadExtra
  <2>3. s = ReadOf(m, req)
    BY <2>1 DEF ReadOf
  <2>4. CASE Len(pdus) > 0
    BY <1>5, <2>1, <2>2, <2>3, <2>4
  <2>5. CASE ~(Len(pdus) > 0)
    <3>1. pdus = <<>>
      BY <1>1, <2>5
    <3>2. Seen(s.pdus, pdus, K)
      BY <1>1, <1>2, <2>2, SeenPdus
    <3> QED BY <1>5, <2>2, <2>3, <3>1, <3>2
  <2> QED BY <2>4, <2>5
<1> QED BY <1>3, <1>4, <1>5

(* Whole, or nothing of it.                                                *)
Faithful(out, m) ==
    \/ out = Nothing
    \/ /\ \E time, pdus : out = <<[msg |-> m.msg, time |-> time, pdus |-> pdus]>>
       /\ Listed(out[1].pdus, IF m.how = "none" THEN Meant(m) ELSE <<>>)
       /\ m.how = "none" \/ m.msg = "DL_TTI"

(* A message with the right list is faithful.                              *)
LEMMA MessageFaithful ==
    ASSUME NEW m, NEW req, NEW pdus,
           Listed(pdus, IF m.how = "none" THEN Meant(m) ELSE <<>>), m.how = "none" \/ m.msg = "DL_TTI"
    PROVE  Faithful(Message(m.msg, req, pdus), m)
BY DEF Faithful, Message

(* A list of no PDU is empty.                                              *)
LEMMA EmptyListed ==
    ASSUME NEW list, NEW s, Listed(list, s), Len(s) <= 0
    PROVE  list = <<>> /\ s = <<>>
BY DEF Listed

(* DL_TTI is translated whole, or sent empty, or not sent.                 *)
LEMMA DlFaithful ==
    ASSUME NEW m, NEW req, Asked(m, req), m.msg = "DL_TTI"
    PROVE  Faithful(DlTti(req), m) /\ Faithful(AerialDlTti(req), m)
<1> PICK s : s = ReadPdus(DlPdu, req.total, req.wire)
  OBVIOUS
<1> PICK K : K = 0 .. 5
  OBVIOUS
<1>1. s = ReadOf(m, req) /\ KindsOf(m.msg) = K /\ Room(m.msg) = MaxDlPdus /\ m.how \in Hows
  BY DEF Asked, ReadOf, PduOf, KindsOf, Room
<1>2. req.valid = (m.how # "invalid") /\ Len(m.pdus) <= MaxDlPdus /\ m.pdus \in Seq(Pdus)
  BY <1>1 DEF Asked
<1>3. CASE m.how = "invalid"
  BY <1>2, <1>3 DEF DlTti, AerialDlTti, DlTtiOf, Faithful
<1> PICK kept : kept = Kept(req, s)
  OBVIOUS
<1>4. CASE m.how = "none"
  <2>1. Seen(kept, m.pdus, K)
    BY <1>1, <1>4, ReadRequest DEF Kept
  <2>2. Listed(DlList(MapDl, kept), MeantDl(m.pdus)) /\ Listed(DlList(AerialMapDl, kept), MeantDl(m.pdus))
    BY <1>2, <2>1, DlListed
  <2>3. Meant(m) = MeantDl(m.pdus)
    BY DEF Meant, MeantDl, OfTypes
  <2>4. /\ DlTti(req) = Message(m.msg, req, DlList(MapDl, kept))
        /\ AerialDlTti(req) = Message(m.msg, req, DlList(AerialMapDl, kept))
    BY <1>2, <1>4 DEF DlTti, AerialDlTti, DlTtiOf, AerialDlPdu
  <2> QED BY <1>4, <2>2, <2>3, <2>4, MessageFaithful
<1>5. CASE m.how \in {"cut", "extra"}
  <2>1. Seen(kept, <<>>, K)
    <3>1. ASSUME ~WalkOk(s, req.wire), req.total > 0 PROVE Seen(kept, <<>>, K)
      <4>1. kept = <<>>
        BY <3>1 DEF Kept
      <4>2. <<>> \in Seq(Pdus) /\ <<>> \in Seq({}) /\ Len(<<>>) = 0 /\ 1 .. 0 = {}
        OBVIOUS
      <4> QED BY <4>1, <4>2 DEF Seen
    <3>2. ASSUME ~(req.total > 0), Seen(s.pdus, <<>>, K) PROVE Seen(kept, <<>>, K)
      BY <3>2 DEF Kept
    <3> QED BY <1>1, <1>5, <3>1, <3>2, ReadRequest
  <2>2. MaxDlPdus \in Nat /\ Len(<<>>) = 0
    BY LimitsAssumption
  <2> PICK e : e = <<>>
    OBVIOUS
  <2>3. /\ Listed(DlList(MapDl, kept), MeantDl(e)) /\ Listed(DlList(AerialMapDl, kept), MeantDl(e))
        /\ Len(MeantDl(e)) <= 0
    BY <2>1, <2>2, DlListed
  <2>4. Listed(DlList(MapDl, kept), <<>>) /\ Listed(DlList(AerialMapDl, kept), <<>>)
    BY <2>3, EmptyListed
  <2>5. /\ DlTti(req) = Message(m.msg, req, DlList(MapDl, kept))
        /\ AerialDlTti(req) = Message(m.msg, req, DlList(AerialMapDl, kept))
    BY <1>2, <1>5 DEF DlTti, AerialDlTti, DlTtiOf, AerialDlPdu
  <2> QED BY <1>5, <2>4, <2>5, MessageFaithful
<1> QED BY <1>1, <1>3, <1>4, <1>5 DEF Hows

(* UL_TTI is translated whole or not sent.                                 *)
LEMMA UlFaithful ==
    ASSUME NEW m, NEW req, Asked(m, req), m.msg = "UL_TTI"
    PROVE  Faithful(UlTti(req), m) /\ Faithful(AerialUlTti(req), m)
<1> PICK s : s = ReadPdus(UlPdu, req.total, req.wire)
  OBVIOUS
<1> PICK K : K = 0 .. 4
  OBVIOUS
<1>1. s = ReadOf(m, req) /\ KindsOf(m.msg) = K /\ Room(m.msg) = MaxUlPdus /\ m.how \in Hows
  BY DEF Asked, ReadOf, PduOf, KindsOf, Room
<1>2. req.valid = (m.how # "invalid") /\ Len(m.pdus) <= MaxUlPdus /\ m.pdus \in Seq(Pdus)
  BY <1>1 DEF Asked
<1> PICK l, al : l = UlList(MapUl, s.pdus) /\ al = UlList(AerialMapUl, s.pdus)
  OBVIOUS
<1> PICK bad : bad = (~req.valid \/ (req.total > 0 /\ ~WalkOk(s, req.wire)))
  OBVIOUS
<1>3. /\ UlTti(req) = IF bad \/ l = <<>> THEN Nothing ELSE Message(m.msg, req, FirstPdus(l, MaxUlPdus))
      /\ AerialUlTti(req) = IF bad \/ al = <<>> THEN Nothing ELSE Message(m.msg, req, FirstPdus(al, MaxUlPdus))
  BY DEF UlTti, AerialUlTti, UlTtiOf, UlList, AerialUlPdu
<1>4. CASE bad
  BY <1>3, <1>4 DEF Faithful
<1>5. CASE m.how = "none"
  <2>1. Seen(s.pdus, m.pdus, K)
    BY <1>1, <1>5, ReadRequest
  <2>2. /\ Listed(l, MeantUl(m.pdus)) /\ Listed(al, MeantUl(m.pdus))
        /\ Len(MeantUl(m.pdus)) <= Len(m.pdus)
    BY <1>2, <2>1, UlListed
  <2> PICK whole : whole = MeantUl(m.pdus)
    OBVIOUS
  <2>3. MaxUlPdus \in Nat /\ Len(whole) <= MaxUlPdus
    <3>1. Len(whole) \in Nat /\ Len(m.pdus) \in Nat
      BY <1>2, <2>2 DEF Listed
    <3> QED BY <1>2, <2>2, <3>1, LimitsAssumption
  <2>4. FirstPdus(l, MaxUlPdus) = l /\ FirstPdus(al, MaxUlPdus) = al
    BY <2>2, <2>3, ListedFirst
  <2>5. Meant(m) = whole
    BY DEF Meant, MeantUl, OfTypes
  <2>6. Faithful(Message(m.msg, req, l), m) /\ Faithful(Message(m.msg, req, al), m)
    BY <1>5, <2>2, <2>5, MessageFaithful
  <2> QED BY <1>3, <2>4, <2>6, ZenonT(60) DEF Faithful
<1>6. CASE m.how = "extra" /\ ~bad
  <2>1. Seen(s.pdus, <<>>, K)
    BY <1>1, <1>2, <1>6, ReadRequest
  <2> PICK e : e = <<>>
    OBVIOUS
  <2>2. MaxUlPdus \in Nat /\ Len(e) = 0
    BY LimitsAssumption
  <2>3. Listed(l, MeantUl(e)) /\ Listed(al, MeantUl(e)) /\ Len(MeantUl(e)) <= 0
    BY <2>1, <2>2, UlListed
  <2>4. l = <<>> /\ al = <<>>
    BY <2>3, EmptyListed
  <2> QED BY <1>3, <2>4 DEF Faithful
<1>7. m.how = "cut" \/ m.how = "invalid" => bad
  BY <1>1, <1>2, ReadRequest
<1> QED BY <1>1, <1>4, <1>5, <1>6, <1>7 DEF Hows

(* So is UL_DCI.                                                           *)
LEMMA DciFaithful ==
    ASSUME NEW m, NEW req, Asked(m, req), m.msg = "UL_DCI"
    PROVE  Faithful(UlDci(req), m) /\ Faithful(AerialUlDci(req), m)
<1> PICK s : s = ReadPdus(UlDciPdu, req.total, req.wire)
  OBVIOUS
<1>1. s = ReadOf(m, req) /\ KindsOf(m.msg) = {1} /\ Room(m.msg) = MaxDlPdus /\ m.how \in Hows
  BY DEF Asked, ReadOf, PduOf, KindsOf, Room
<1>2. req.valid = (m.how # "invalid") /\ Len(m.pdus) <= MaxDlPdus /\ m.pdus \in Seq(Pdus)
  BY <1>1 DEF Asked
<1> PICK l : l = DciList(s.pdus)
  OBVIOUS
<1> PICK bad : bad = (~req.valid \/ (req.total > 0 /\ ~WalkOk(s, req.wire)))
  OBVIOUS
<1>3. /\ UlDci(req) = IF bad \/ l = <<>> THEN Nothing ELSE Message(m.msg, req, FirstPdus(l, MaxCoresets))
      /\ AerialUlDci(req) = UlDci(req)
  BY DEF UlDci, AerialUlDci, DciList
<1>4. CASE bad
  BY <1>3, <1>4 DEF Faithful
<1>5. CASE m.how = "none"
  <2>1. Seen(s.pdus, m.pdus, {1})
    BY <1>1, <1>5, ReadRequest
  <2>2. Listed(FirstPdus(l, MaxCoresets), SubSeq(m.pdus, 1, AtMost(Len(m.pdus), MaxCoresets)))
    BY <1>2, <2>1, DciListed
  <2>3. Meant(m) = SubSeq(m.pdus, 1, AtMost(Len(m.pdus), MaxCoresets))
    BY DEF Meant
  <2>4. Faithful(Message(m.msg, req, FirstPdus(l, MaxCoresets)), m)
    BY <1>5, <2>2, <2>3, MessageFaithful
  <2> QED BY <1>3, <2>4 DEF Faithful
<1>6. CASE m.how = "extra" /\ ~bad
  <2>1. Seen(s.pdus, <<>>, {1})
    BY <1>1, <1>2, <1>6, ReadRequest
  <2> PICK e : e = <<>>
    OBVIOUS
  <2>2. MaxDlPdus \in Nat /\ Len(e) = 0
    BY LimitsAssumption
  <2>3. Listed(l, e)
    BY <2>1, <2>2, DciListed
  <2>4. l = <<>>
    BY <2>2, <2>3, EmptyListed
  <2> QED BY <1>3, <2>4 DEF Faithful
<1>7. m.how = "cut" \/ m.how = "invalid" => bad
  BY <1>1, <1>2, ReadRequest
<1> QED BY <1>1, <1>4, <1>5, <1>6, <1>7 DEF Hows

(* So is TX_DATA.                                                          *)
LEMMA TxFaithful ==
    ASSUME NEW m, NEW req, Asked(m, req), m.msg = "TX_DATA"
    PROVE  Faithful(TxData(req), m) /\ Faithful(AerialTxData(req), m)
<1> PICK s : s = ReadPdus(TxDataPdu, req.total, req.wire)
  OBVIOUS
<1>1. s = ReadOf(m, req) /\ KindsOf(m.msg) = {1} /\ Room(m.msg) = MaxTxPdus /\ m.how \in Hows
  BY DEF Asked, ReadOf, PduOf, KindsOf, Room
<1>2. /\ req.valid = (m.how # "invalid") /\ Len(m.pdus) <= MaxTxPdus /\ m.pdus \in Seq(Pdus)
      /\ req.total = Len(m.pdus)
  BY <1>1 DEF Asked
<1> PICK l : l = TbList(s.pdus, req.total)
  OBVIOUS
<1> PICK bad : bad = (~req.valid \/ ~WalkOk(s, req.wire))
  OBVIOUS
<1>3. /\ TxData(req) = IF bad THEN Nothing
                       ELSE Message(m.msg, req, FirstPdus(Those(l, TbFits(l)), MaxTxPdus))
      /\ AerialTxData(req) = TxData(req)
  BY DEF TxData, AerialTxData, TbList, TbFits
<1>4. CASE bad
  BY <1>3, <1>4 DEF Faithful
<1>5. CASE m.how = "none"
  <2>1. Seen(s.pdus, m.pdus, {1})
    BY <1>1, <1>5, ReadRequest
  <2>2. Listed(FirstPdus(Those(l, TbFits(l)), MaxTxPdus), MeantTb(m.pdus))
    BY <1>2, <2>1, TbListed
  <2>3. Meant(m) = MeantTb(m.pdus)
    BY DEF Meant, MeantTb
  <2>4. Faithful(Message(m.msg, req, FirstPdus(Those(l, TbFits(l)), MaxTxPdus)), m)
    BY <1>5, <2>2, <2>3, MessageFaithful
  <2> QED BY <1>3, <2>4 DEF Faithful
<1>6. m.how \in {"cut", "extra", "invalid"} => bad
  BY <1>1, <1>2, ReadRequest
<1> QED BY <1>1, <1>4, <1>5, <1>6 DEF Hows

(* Every request is translated faithfully, by either pair.                 *)
LEMMA TranslateFaithful ==
    ASSUME NEW m, NEW req, Asked(m, req)
    PROVE  Faithful(Translate(m.msg, req), m)
<1>1. /\ m.msg = "DL_TTI" => Faithful(OaiTranslate(m.msg, req), m) /\ Faithful(AerialTranslate(m.msg, req), m)
      /\ m.msg = "UL_TTI" => Faithful(OaiTranslate(m.msg, req), m) /\ Faithful(AerialTranslate(m.msg, req), m)
      /\ m.msg = "UL_DCI" => Faithful(OaiTranslate(m.msg, req), m) /\ Faithful(AerialTranslate(m.msg, req), m)
      /\ m.msg = "TX_DATA" => Faithful(OaiTranslate(m.msg, req), m) /\ Faithful(AerialTranslate(m.msg, req), m)
  BY DlFaithful, UlFaithful, DciFaithful, TxFaithful DEF OaiTranslate, AerialTranslate
<1> QED BY <1>1 DEF Translate, Asked, Requests

(* ... as the invariant says it.                                           *)
WholeOrNothingOf(m, got) ==
    LET ids == [i \in DOMAIN got.pdus |-> got.pdus[i].id]
    IN  /\ got.msg = m.msg
        /\ IF m.how = "none"
           THEN ids = [i \in DOMAIN Meant(m) |-> {Meant(m)[i].id}]
           ELSE m.msg = "DL_TTI" /\ ids = <<>>

(* A list of s shows the ids of s.                                         *)
LEMMA ListedIds ==
    ASSUME NEW list, NEW s, Listed(list, s)
    PROVE  [i \in DOMAIN list |-> list[i].id] = [i \in DOMAIN s |-> {s[i].id}]
<1> PICK n \in Nat : n = Len(s)
  BY DEF Listed
<1>1. DOMAIN list = 1 .. n /\ DOMAIN s = 1 .. n
  BY DEF Listed
<1>2. \A i \in 1 .. n : list[i].id = {s[i].id}
  BY DEF Listed
<1> QED BY <1>1, <1>2

(* What is faithful is whole or nothing.                                   *)
LEMMA FaithfulMeans ==
    ASSUME NEW out, NEW m, Faithful(out, m), out # Nothing
    PROVE  WholeOrNothingOf(m, out[1])
<1> PICK time, pdus : out = <<[msg |-> m.msg, time |-> time, pdus |-> pdus]>>
  BY DEF Faithful
<1>1. out[1].msg = m.msg /\ out[1].pdus = pdus
  OBVIOUS
<1>2. Listed(pdus, IF m.how = "none" THEN Meant(m) ELSE <<>>)
  BY <1>1 DEF Faithful
<1>3. CASE m.how = "none"
  <2>1. Listed(pdus, Meant(m))
    BY <1>2, <1>3
  <2> QED BY <1>1, <1>3, <2>1, ListedIds DEF WholeOrNothingOf
<1>4. CASE m.how # "none"
  <2>1. Listed(pdus, <<>>)
    BY <1>2, <1>4
  <2>2. pdus = <<>>
    <3>1. Len(<<>>) <= 0
      OBVIOUS
    <3> QED BY <2>1, <3>1, EmptyListed
  <2>3. [i \in DOMAIN pdus |-> pdus[i].id] = <<>>
    BY <2>2
  <2>4. m.msg = "DL_TTI"
    BY <1>4 DEF Faithful
  <2> QED BY <1>1, <1>4, <2>3, <2>4 DEF WholeOrNothingOf
<1> QED BY <1>3, <1>4

(* Inductive: the request on its way is one that OCUDU-L2 asked.           *)
RequestsAsked == ring # <<>> => Asked(ring[1].meant, ring[1].req)
WholeInv == RequestsAsked /\ WholeOrNothing

(* OCUDU-L2 asks so.                                                       *)
LEMMA AskedRequest ==
    ASSUME NEW msg \in DOMAIN Lists, NEW pdus \in Lists[msg], NEW how \in {"none", "invalid", "cut", "extra"},
           L2Request(msg, pdus, how)
    PROVE  ring'[1].meant.pdus = pdus /\ Asked(ring'[1].meant, ring'[1].req)
<1> PICK w : w = Serialize(PduOf(msg), pdus)
  OBVIOUS
<1> PICK m, req :
      /\ m = [msg |-> msg, at |-> heard[1].at + Ahead, pdus |-> pdus, how |-> how]
      /\ req = [valid |-> how # "invalid", mu |-> mu, count |-> heard[1].count + Ahead,
                total |-> Len(pdus), wire |-> Damaged(Wire(w), how)]
  OBVIOUS
<1>1. FitsBuffer(w) /\ ring' = <<[meant |-> m, req |-> req]>> /\ (how = "cut" => pdus # <<>>)
  BY DEF L2Request
<1>2. msg \in Requests /\ pdus \in Seq(Pdus) /\ Len(pdus) <= Room(msg)
  BY ListsAssumption DEF Pdus
<1>3. m.msg = msg /\ m.pdus = pdus /\ m.how = how
  OBVIOUS
<1>4. req.valid = (how # "invalid") /\ req.total = Len(pdus) /\ req.wire = Damaged(Wire(w), how)
  OBVIOUS
<1>5. Asked(m, req)
  BY <1>1, <1>2, <1>3, <1>4 DEF Asked, Hows
<1>6. ring'[1].meant = m /\ ring'[1].req = req
  BY <1>1
<1> QED BY <1>3, <1>5, <1>6

(* A request reaches L1 whole or not at all (the walkers, the ending       *)
(* checks of the translators and the lists they fill), whatever the lists  *)
(* of PDUs are, as long as each fits OCUDU-L2's buffer and the nFAPI       *)
(* message.  Inductive with: a request on its way is as OCUDU-L2 put it    *)
(* there.                                                                  *)
THEOREM WholeOrNothingHolds == Spec => []WholeOrNothing
<1>1. Init => WholeInv
  BY DEF Init, WholeInv, RequestsAsked, WholeOrNothing
<1>2. ASSUME WholeInv, [Next]_vars PROVE WholeInv'
  <2>1. ASSUME UNCHANGED <<ring, inbox>> PROVE WholeInv'
    <3>1. ring' = ring /\ inbox' = inbox
      BY <2>1
    <3>2. RequestsAsked'
      BY <1>2, <3>1 DEF WholeInv, RequestsAsked
    <3>3. WholeOrNothing'
      BY <1>2, <3>1 DEF WholeInv, WholeOrNothing
    <3> QED BY <3>2, <3>3 DEF WholeInv
  <2>2. CASE L1Slot \/ L2Note \/ L2Done \/ UNCHANGED vars
    BY <2>1, <2>2 DEF L1Slot, L2Note, L2Done, vars
  <2>3. CASE \E msg \in DOMAIN Kinds, cut \in BOOLEAN : L1Report(msg, cut)
    BY <2>1, <2>3 DEF L1Report
  <2>4. ASSUME inbox' = <<>>, ring' = ring PROVE WholeInv'
    BY <1>2, <2>4 DEF WholeInv, RequestsAsked, WholeOrNothing
  <2>5. CASE L1Drop
    BY <2>4, <2>5 DEF L1Drop
  <2>6. CASE \E outcome \in [1 .. MaxUlPdus -> Outcomes] : L1Receive(outcome)
    BY <2>4, <2>6 DEF L1Receive
  <2>7. CASE Forward
    <3> PICK m, req, out : m = ring[1].meant /\ req = ring[1].req /\ out = Translate(m.msg, req)
      OBVIOUS
    <3>1. /\ ring # <<>> /\ ring' = <<>>
          /\ inbox' = IF out = Nothing THEN <<>> ELSE <<[meant |-> m, got |-> out[1]]>>
      BY <2>7 DEF Forward
    <3>2. Faithful(out, m)
      BY <1>2, <3>1, TranslateFaithful DEF WholeInv, RequestsAsked
    <3>3. CASE out = Nothing
      BY <3>1, <3>3 DEF WholeInv, RequestsAsked, WholeOrNothing
    <3>4. CASE out # Nothing
      <4>1. WholeOrNothingOf(m, out[1])
        BY <3>2, <3>4, FaithfulMeans
      <4>2. inbox'[1].meant = m /\ inbox'[1].got = out[1]
        BY <3>1, <3>4
      <4>3. WholeOrNothing'
        BY <4>1, <4>2 DEF WholeOrNothing, WholeOrNothingOf
      <4> QED BY <3>1, <4>3 DEF WholeInv, RequestsAsked
    <3> QED BY <3>3, <3>4
  <2>8. ASSUME NEW msg \in DOMAIN Lists, NEW pdus \in Lists[msg],
               NEW how \in {"none", "invalid", "cut", "extra"}, L2Request(msg, pdus, how)
        PROVE  WholeInv'
    <3>1. Asked(ring'[1].meant, ring'[1].req) /\ inbox = <<>> /\ inbox' = inbox
      BY <2>8, AskedRequest DEF L2Request
    <3> QED BY <3>1 DEF WholeInv, RequestsAsked, WholeOrNothing
  <2> QED BY <1>2, <2>2, <2>3, <2>5, <2>6, <2>7, <2>8 DEF Next
<1>3. WholeInv => WholeOrNothing
  BY DEF WholeInv
<1> QED BY <1>1, <1>2, <1>3, PTL DEF Spec

-----------------------------------------------------------------------------
(* Time: SFN and slot against the count of slots.                          *)

(* A frame has slots, and the numerology latched from CONFIG.request is    *)
(* the cell's.                                                             *)
LEMMA FrameFacts ==
    ASSUME NEW m \in Numerologies
    PROVE  SlotsPerFrame(m) \in Nat \ {0} /\ Numerology(m) = m /\ AerialNumerology(m) = m
<1>1. m \in 0 .. 4
  BY TimeAssumption
<1>2. 2 ^ 0 = 1 /\ 2 ^ 1 = 2 /\ 2 ^ 2 = 4 /\ 2 ^ 3 = 8 /\ 2 ^ 4 = 16
  OBVIOUS
<1>3. m = 0 \/ m = 1 \/ m = 2 \/ m = 3 \/ m = 4
  BY <1>1
<1>4. SlotsPerFrame(m) \in {Subframes, Subframes * 2, Subframes * 4, Subframes * 8, Subframes * 16}
  <2>1. Subframes * 1 = Subframes
    BY SlotsAssumption
  <2>2. 2 ^ m = 1 \/ 2 ^ m = 2 \/ 2 ^ m = 4 \/ 2 ^ m = 8 \/ 2 ^ m = 16
    BY <1>2, <1>3
  <2> QED BY <2>1, <2>2 DEF SlotsPerFrame
<1>5. SlotsPerFrame(m) \in Nat \ {0}
  BY <1>4, SlotsAssumption
<1> QED BY <1>1, <1>5 DEF Numerology, AerialNumerology

(* The time of the slot at, counted from the start of L1's clock: s slots  *)
(* make a frame, and f frames a turn of the frame number.                  *)
SlotTime(at, s, f) == [sfn |-> (at \div s) % f, slot |-> at % s]

(* Counting on from a slot: whole turns first ...                          *)
LEMMA CountedOn ==
    ASSUME NEW s \in Nat, NEW at \in Nat, NEW ahead \in Nat, NEW r \in Nat, NEW u \in Nat, NEW q \in Nat,
           at = s * (u + q) + r
    PROVE  at + ahead = s * u + (q * s + r + ahead)
<1>1. s * (u + q) = s * u + s * q /\ q * s = s * q
  OBVIOUS
<1>2. s * q \in Nat /\ s * u \in Nat
  OBVIOUS
<1> QED BY <1>1, <1>2

(* ... and whole frames added up.                                          *)
LEMMA MultiplesAdd ==
    ASSUME NEW s \in Nat, NEW u \in Nat, NEW k \in Nat, NEW t \in Nat
    PROVE  s * u + (s * k + t) = s * (u + k) + t
<1>1. s * (u + k) = s * u + s * k
  OBVIOUS
<1>2. s * k \in Nat /\ s * u \in Nat
  OBVIOUS
<1> QED BY <1>1, <1>2

(* A remainder is a number below the divisor.                              *)
LEMMA InRange == ASSUME NEW s \in Nat, NEW t \in 0 .. s - 1 PROVE t \in Nat /\ t < s
OBVIOUS

(* z is slot t of frame number g, counted from 0.                          *)
Counted(z, s, f, y, t, h, g) ==
    /\ s \in Nat \ {0} /\ f \in Nat \ {0} /\ z \in Nat
    /\ y \in Nat /\ t \in Nat /\ t < s /\ z = s * y + t
    /\ h \in Nat /\ g \in Nat /\ g < f /\ y = f * h + g

(* ... and that is its time.                                               *)
LEMMA SlotTimeIs ==
    ASSUME NEW s, NEW f, NEW z, NEW y, NEW t, NEW h, NEW g, Counted(z, s, f, y, t, h, g)
    PROVE  SlotTime(z, s, f) = [sfn |-> g, slot |-> t]
<1> USE DEF Counted
<1>1. y \in Int /\ h \in Int
  OBVIOUS
<1>2. z % s = t
  BY <1>1, DivisionUnique, Zenon
<1>3. z \div s = y
  BY <1>1, DivisionUnique, Zenon
<1>4. y % f = g
  BY <1>1, DivisionUnique, Zenon
<1> QED BY <1>2, <1>3, <1>4, Zenon DEF SlotTime

(* Counting on from the time of a slot, with the frame number wrapped,     *)
(* leads to the time of the slot counted on.                               *)
LEMMA SlotTimeAhead ==
    ASSUME NEW s \in Nat \ {0}, NEW f \in Nat \ {0}, NEW at \in Nat, NEW ahead \in Nat, NEW c,
           c = SlotTime(at, s, f).sfn * s + SlotTime(at, s, f).slot + ahead
    PROVE  SlotTime(c, s, f) = SlotTime(at + ahead, s, f)
<1>0. s \in Nat /\ f \in Nat
  OBVIOUS
<1>1. PICK x, r : x = at \div s /\ r = at % s
  OBVIOUS
<1>2. at = s * x + r /\ r \in 0 .. s - 1 /\ x \in Nat
  BY <1>1, Division, Zenon
<1>3. PICK p, q : p = x \div f /\ q = x % f
  OBVIOUS
<1>4. x = f * p + q /\ q \in 0 .. f - 1 /\ p \in Nat
  BY <1>2, <1>3, Division, Zenon
<1>5. c = q * s + r + ahead
  <2>1. SlotTime(at, s, f) = [sfn |-> q, slot |-> r]
    BY <1>1, <1>3, Zenon DEF SlotTime
  <2>2. SlotTime(at, s, f).sfn = q /\ SlotTime(at, s, f).slot = r
    BY <2>1
  <2> QED BY <2>2
<1>6. r \in Nat /\ q \in Nat
  BY <1>0, <1>2, <1>4, InRange, Zenon
<1>7. c \in Nat
  <2>1. q * s \in Nat
    BY <1>6
  <2> QED BY <1>5, <1>6, <2>1
<1>8. PICK k, t : k = c \div s /\ t = c % s
  OBVIOUS
<1>9. c = s * k + t /\ t \in 0 .. s - 1 /\ k \in Nat
  BY <1>7, <1>8, Division, Zenon
<1>10. PICK e, g : e = k \div f /\ g = k % f
  OBVIOUS
<1>11. k = f * e + g /\ g \in 0 .. f - 1 /\ e \in Nat
  BY <1>9, <1>10, Division, Zenon
<1>12. t \in Nat /\ t < s /\ g \in Nat /\ g < f
  BY <1>0, <1>9, <1>11, InRange, Zenon
<1>13. PICK u \in Nat : u = f * p
  BY <1>0, <1>4
<1>14. at + ahead = s * (u + k) + t
  <2>1. at = s * (u + q) + r
    BY <1>2, <1>4, <1>13, Zenon
  <2>2. at + ahead = s * u + (q * s + r + ahead)
    BY <1>0, <1>6, <1>13, <2>1, CountedOn
  <2>3. s * u + (s * k + t) = s * (u + k) + t
    BY <1>0, <1>9, <1>12, <1>13, MultiplesAdd
  <2> QED BY <1>5, <1>9, <2>2, <2>3, Zenon
<1>15. u + k = f * (p + e) + g
  <2>1. f * p + (f * e + g) = f * (p + e) + g
    BY <1>0, <1>4, <1>11, <1>12, MultiplesAdd
  <2> QED BY <1>11, <1>13, <2>1, Zenon
<1>16. at + ahead \in Nat /\ p + e \in Nat /\ u + k \in Nat
  BY <1>4, <1>9, <1>11
<1>17. SlotTime(at + ahead, s, f) = [sfn |-> g, slot |-> t]
  <2>1. PICK z \in Nat, h \in Nat, y \in Nat : z = at + ahead /\ h = p + e /\ y = u + k
    BY <1>16
  <2>2. z = s * y + t /\ y = f * h + g
    BY <1>14, <1>15, <2>1, Zenon
  <2>3. Counted(z, s, f, y, t, h, g)
    BY <1>12, <2>2 DEF Counted
  <2>4. SlotTime(z, s, f) = [sfn |-> g, slot |-> t]
    BY <2>3, SlotTimeIs
  <2> QED BY <2>1, <2>4
<1>18. SlotTime(c, s, f) = [sfn |-> g, slot |-> t]
  BY <1>8, <1>10, Zenon DEF SlotTime
<1> QED BY <1>17, <1>18, Zenon

(* Whatever is sent to L1 is for the slot of the request.                  *)
TimedBy(out, req) == out = Nothing \/ out[1].time = Time(req.count, req.mu)

(* ... by either pair.                                                     *)
LEMMA TranslateTime ==
    ASSUME NEW msg, NEW req
    PROVE  TimedBy(Translate(msg, req), req)
<1>1. ASSUME NEW k, NEW pdus PROVE TimedBy(Message(k, req, pdus), req)
  BY DEF TimedBy, Message
<1>2. TimedBy(Nothing, req)
  BY DEF TimedBy
<1>3. TimedBy(DlTti(req), req) /\ TimedBy(AerialDlTti(req), req)
  BY <1>1, <1>2 DEF DlTti, AerialDlTti, DlTtiOf
<1>4. TimedBy(UlTti(req), req) /\ TimedBy(AerialUlTti(req), req)
  BY <1>1, <1>2 DEF UlTti, AerialUlTti, UlTtiOf
<1>5. TimedBy(UlDci(req), req) /\ TimedBy(AerialUlDci(req), req)
  BY <1>1, <1>2 DEF UlDci, AerialUlDci
<1>6. TimedBy(TxData(req), req) /\ TimedBy(AerialTxData(req), req)
  BY <1>1, <1>2 DEF TxData, AerialTxData
<1>7. TimedBy(OaiTranslate(msg, req), req)
  BY <1>2, <1>3, <1>4, <1>5, <1>6 DEF OaiTranslate
<1>8. TimedBy(AerialTranslate(msg, req), req)
  BY <1>2, <1>3, <1>4, <1>5, <1>6 DEF AerialTranslate
<1> QED BY <1>7, <1>8 DEF Translate

(* Inductive: what OCUDU-L2 heard of and what it asks for are counts of    *)
(* slots.                                                                  *)
HeardRight == heard # <<>> => /\ heard[1].at \in Nat
                              /\ heard[1].count = Count(TimeOf(heard[1].at), mu)
RequestTimed == ring # <<>> => Time(ring[1].req.count, ring[1].req.mu) = TimeOf(ring[1].meant.at)
SlotInv ==
    /\ mu \in Numerologies /\ now \in Nat
    /\ HeardRight /\ RequestTimed /\ SlotAgreement

(* A SLOT.indication counts the slot L1 meant.                             *)
LEMMA TranslatedCount ==
    ASSUME mu \in Numerologies, NEW time
    PROVE  TranslateSlot(time)[1].count = Count(time, mu)
<1>1. Numerology(mu) = mu /\ AerialNumerology(mu) = mu
  BY FrameFacts
<1> QED BY <1>1 DEF TranslateSlot, SlotIndication, AerialSlotIndication

(* What OCUDU-L2 counts on from it is translated to the slot it means.     *)
LEMMA AskedAhead ==
    ASSUME mu \in Numerologies, NEW at \in Nat, NEW count, count = Count(TimeOf(at), mu)
    PROVE  Time(count + Ahead, mu) = TimeOf(at + Ahead)
<1>1. PICK s \in Nat \ {0} : s = SlotsPerFrame(mu)
  BY FrameFacts
<1>2. \A x : TimeOf(x) = SlotTime(x, s, Frames) /\ Time(x, mu) = SlotTime(x, s, Frames)
  BY <1>1, Zenon DEF TimeOf, Time, SlotTime
<1>3. count = SlotTime(at, s, Frames).sfn * s + SlotTime(at, s, Frames).slot
  BY <1>1, <1>2 DEF Count
<1>4. PICK c : c = SlotTime(at, s, Frames).sfn * s + SlotTime(at, s, Frames).slot + Ahead
  OBVIOUS
<1>5. SlotTime(c, s, Frames) = SlotTime(at + Ahead, s, Frames)
  BY <1>4, SlotTimeAhead, SlotsAssumption, TimeAssumption
<1>6. c = count + Ahead
  BY <1>3, <1>4
<1> QED BY <1>2, <1>5, <1>6

(* L1 acts on a request in the slot OCUDU-L2 meant (slot_indication.c      *)
(* against the SFN and slot of the request translators), for every         *)
(* numerology, distance and number of frames.  Inductive with: what        *)
(* OCUDU-L2 heard last is the count of an earlier slot, and the count of   *)
(* a request on its way is that of the slot it is meant for.               *)
THEOREM SlotAgreementHolds == Spec => []SlotAgreement
<1>1. Init => SlotInv
  BY DEF Init, SlotInv, HeardRight, RequestTimed, SlotAgreement
<1>2. ASSUME SlotInv, [Next]_vars PROVE SlotInv'
  <2>1. mu' = mu /\ \A x : TimeOf(x)' = TimeOf(x)
    <3>1. mu' = mu
      BY <1>2 DEF Next, vars, L1Slot, Forward, L1Drop, L2Note, L2Done, L2Request, L1Receive, L1Report
    <3> QED BY <3>1 DEF TimeOf
  <2>2. ASSUME UNCHANGED <<now, heard, ring>>, inbox' \in {inbox, <<>>} PROVE SlotInv'
    <3>1. now' = now /\ heard' = heard /\ ring' = ring
      BY <2>2
    <3>2. HeardRight'
      BY <1>2, <2>1, <3>1 DEF SlotInv, HeardRight, TimeOf
    <3>3. RequestTimed'
      BY <1>2, <2>1, <3>1 DEF SlotInv, RequestTimed, TimeOf
    <3>4. SlotAgreement'
      BY <1>2, <2>1, <2>2 DEF SlotInv, SlotAgreement, TimeOf
    <3> QED BY <1>2, <2>1, <3>1, <3>2, <3>3, <3>4 DEF SlotInv
  <2>3. CASE L1Drop \/ L2Note \/ L2Done \/ UNCHANGED vars
    <3>1. UNCHANGED <<now, heard, ring>> /\ inbox' \in {inbox, <<>>}
      BY <2>3 DEF L1Drop, L2Note, L2Done, vars
    <3> QED BY <2>2, <3>1
  <2>4. CASE \E msg \in DOMAIN Kinds, cut \in BOOLEAN : L1Report(msg, cut)
    <3>1. UNCHANGED <<now, heard, ring>> /\ inbox' \in {inbox, <<>>}
      BY <2>4 DEF L1Report
    <3> QED BY <2>2, <3>1
  <2>5. CASE \E outcome \in [1 .. MaxUlPdus -> Outcomes] : L1Receive(outcome)
    <3>1. UNCHANGED <<now, heard, ring>> /\ inbox' \in {inbox, <<>>}
      BY <2>5 DEF L1Receive
    <3> QED BY <2>2, <3>1
  <2>6. CASE L1Slot
    <3>1. now' = now + 1 /\ ring' = ring /\ inbox' = inbox
      BY <2>6 DEF L1Slot
    <3>2. \/ heard' = heard
          \/ heard' = <<[at |-> now + 1, count |-> TranslateSlot(TimeOf(now + 1))[1].count]>>
      BY <2>6 DEF L1Slot
    <3>3. TranslateSlot(TimeOf(now + 1))[1].count = Count(TimeOf(now + 1), mu)
      BY <1>2, TranslatedCount DEF SlotInv
    <3>4. \/ heard' = heard
          \/ heard'[1].at = now + 1 /\ heard'[1].count = Count(TimeOf(now + 1), mu)
      BY <3>2, <3>3
    <3>5. HeardRight'
      BY <1>2, <2>1, <3>4 DEF SlotInv, HeardRight, TimeOf
    <3>6. RequestTimed'
      BY <1>2, <2>1, <3>1 DEF SlotInv, RequestTimed, TimeOf
    <3>7. SlotAgreement'
      BY <1>2, <2>1, <3>1 DEF SlotInv, SlotAgreement, TimeOf
    <3> QED BY <1>2, <2>1, <3>1, <3>5, <3>6, <3>7 DEF SlotInv
  <2>7. CASE Forward
    <3>1. PICK m, req, out : m = ring[1].meant /\ req = ring[1].req /\ out = Translate(m.msg, req)
      OBVIOUS
    <3>2. /\ ring # <<>> /\ ring' = <<>> /\ now' = now /\ heard' = heard
          /\ inbox' = IF out = Nothing THEN <<>> ELSE <<[meant |-> m, got |-> out[1]]>>
      BY <2>7, <3>1 DEF Forward
    <3>3. TimedBy(out, req)
      BY <3>1, TranslateTime
    <3>4. inbox' # <<>> => inbox'[1].got.time = TimeOf(inbox'[1].meant.at)
      <4>1. out # Nothing => out[1].time = Time(req.count, req.mu)
        BY <3>3 DEF TimedBy
      <4>2. Time(req.count, req.mu) = TimeOf(m.at)
        BY <1>2, <3>1, <3>2 DEF SlotInv, RequestTimed
      <4>3. inbox' = <<>> \/ (out # Nothing /\ inbox'[1].meant = m /\ inbox'[1].got = out[1])
        BY <3>2
      <4> QED BY <4>1, <4>2, <4>3
    <3>5. SlotAgreement'
      BY <2>1, <3>4 DEF SlotAgreement, TimeOf
    <3>6. HeardRight'
      BY <1>2, <2>1, <3>2 DEF SlotInv, HeardRight, TimeOf
    <3> QED BY <1>2, <2>1, <3>2, <3>5, <3>6 DEF SlotInv, RequestTimed
  <2>8. ASSUME NEW msg \in DOMAIN Lists, NEW pdus \in Lists[msg],
               NEW how \in {"none", "invalid", "cut", "extra"}, L2Request(msg, pdus, how)
        PROVE  SlotInv'
    <3>1. /\ heard # <<>> /\ now' = now /\ heard' = heard /\ inbox' = inbox
          /\ ring'[1].meant.at = heard[1].at + Ahead
          /\ ring'[1].req.mu = mu /\ ring'[1].req.count = heard[1].count + Ahead
      BY <2>8 DEF L2Request
    <3>2. Time(heard[1].count + Ahead, mu) = TimeOf(heard[1].at + Ahead)
      BY <1>2, <3>1, AskedAhead DEF SlotInv, HeardRight
    <3>3. RequestTimed'
      BY <2>1, <3>1, <3>2 DEF RequestTimed, TimeOf
    <3>4. HeardRight'
      BY <1>2, <2>1, <3>1 DEF SlotInv, HeardRight, TimeOf
    <3>5. SlotAgreement'
      BY <1>2, <2>1, <3>1 DEF SlotInv, SlotAgreement, TimeOf
    <3> QED BY <1>2, <2>1, <3>1, <3>3, <3>4, <3>5 DEF SlotInv
  <2> QED BY <1>2, <2>3, <2>4, <2>5, <2>6, <2>7, <2>8 DEF Next
<1>3. SlotInv => SlotAgreement
  BY DEF SlotInv
<1> QED BY <1>1, <1>2, <1>3, PTL DEF Spec

-----------------------------------------------------------------------------
(* Indications: what OCUDU-L2 is told.                                     *)

(* What an indication of L1 reports on.                                    *)
Reports(ind, n) ==
    /\ n \in Nat /\ DOMAIN ind.reports = 1 .. n /\ Len(ind.reports) = n
    /\ \A i \in 1 .. n : ind.reports[i].harq \in Seq(Nat) /\ ind.reports[i].cqi \in Nat

(* A report to OCUDU-L2 says what L1 measured.                             *)
TrueReport(g, r, msg) ==
    /\ msg # "RACH" => g.handle = r.handle
    /\ msg = "CRC" => (g.ok <=> r.crc = 0)
    /\ msg = "CRC" => (g.sinr > 0 <=> r.cqi > 128)
    /\ msg = "UCI" /\ r.uci = "F01" =>
           \A h \in DOMAIN g.harq : /\ g.harq[h] = 1 <=> r.harq[h] = 0
                                    /\ g.harq[h] = 0 <=> r.harq[h] = 1

(* A message to OCUDU-L2 says it of every grant, for the right slot.       *)
TrueMessage(got, ind) ==
    /\ ~ind.cut
    /\ got.count = Count(ind.time, mu)
    /\ Len(got.reports) = Len(ind.reports)
    /\ \A k \in DOMAIN got.reports : TrueReport(got.reports[k], ind.reports[k], ind.msg)

(* ... or there is none.                                                   *)
TrueOrNothing(out, ind) == out = Nothing \/ (out = <<out[1]>> /\ TrueMessage(out[1], ind))

(* The reports of a message that is sent unless it is broken.              *)
Reported(reports, ind) ==
    /\ reports = [i \in DOMAIN ind.reports |-> reports[i]]
    /\ \A i \in DOMAIN ind.reports : TrueReport(reports[i], ind.reports[i], ind.msg)

(* A message with true reports is true, and it is sent only when the       *)
(* indication is complete.                                                 *)
LEMMA SentReports ==
    ASSUME NEW ind, NEW n, Reports(ind, n), NEW reports, Reported(reports, ind),
           NEW broken, ~broken => ~ind.cut
    PROVE  TrueOrNothing(Unless(broken, <<[msg |-> ind.msg, count |-> Count(ind.time, mu),
                                           reports |-> reports]>>), ind)
<1>1. DOMAIN reports = 1 .. n /\ Len(reports) = n /\ Len(ind.reports) = n
  BY DEF Reports, Reported
<1>2. \A i \in 1 .. n : TrueReport(reports[i], ind.reports[i], ind.msg)
  BY DEF Reports, Reported
<1>3. PICK got : got = [msg |-> ind.msg, count |-> Count(ind.time, mu), reports |-> reports]
  OBVIOUS
<1>4. got.count = Count(ind.time, mu) /\ got.reports = reports
  BY <1>3
<1>5. ~ind.cut => TrueMessage(got, ind)
  BY <1>1, <1>2, <1>4 DEF TrueMessage
<1>6. CASE broken
  BY <1>6 DEF Unless, TrueOrNothing
<1>7. CASE ~broken
  <2>1. <<got>>[1] = got
    OBVIOUS
  <2> QED BY <1>3, <1>5, <1>7, <2>1 DEF Unless, TrueOrNothing
<1> QED BY <1>6, <1>7

(* CRC: decoded or not, and a signal above the noise or not.               *)
LEMMA CrcReported ==
    ASSUME NEW ind, NEW n, Reports(ind, n), ind.msg = "CRC"
    PROVE  Reported([i \in DOMAIN ind.reports |-> CrcReport(ind.reports[i])], ind)
<1>1. ASSUME NEW r, r.cqi \in Nat PROVE TrueReport(CrcReport(r), r, "CRC")
  <2>1. PICK c \in Nat : c = r.cqi
    BY <1>1
  <2>2. SinrMetric(c) > 0 <=> c > 128
    BY DEF SinrMetric
  <2>3. /\ CrcReport(r).handle = r.handle /\ CrcReport(r).sinr = SinrMetric(c)
        /\ CrcReport(r).ok = (r.crc = 0)
    BY <2>1 DEF CrcReport
  <2> QED BY <2>1, <2>2, <2>3 DEF TrueReport
<1>2. \A i \in DOMAIN ind.reports : ind.reports[i].cqi \in Nat
  BY DEF Reports
<1> QED BY <1>1, <1>2 DEF Reported

(* RX_DATA: the handle of the grant.                                       *)
LEMMA RxReported ==
    ASSUME NEW ind, ind.msg = "RX_DATA"
    PROVE  Reported([i \in DOMAIN ind.reports |-> RxReport(ind.reports[i])], ind)
BY DEF Reported, TrueReport, RxReport

(* UCI: an acknowledgement is one, a negative one is one.                  *)
LEMMA UciReported ==
    ASSUME NEW ind, NEW n, Reports(ind, n), ind.msg = "UCI"
    PROVE  Reported([i \in DOMAIN ind.reports |-> UciReport(ind.reports[i])], ind)
<1>1. ASSUME NEW r, r.harq \in Seq(Nat) PROVE TrueReport(UciReport(r), r, "UCI")
  <2>1. PICK g : g = UciReport(r)
    OBVIOUS
  <2>2. g.handle = r.handle
    BY <2>1 DEF UciReport
  <2>3. ASSUME r.uci = "F01", NEW h \in DOMAIN g.harq
        PROVE  (g.harq[h] = 1 <=> r.harq[h] = 0) /\ (g.harq[h] = 0 <=> r.harq[h] = 1)
    <3>1. PICK m \in Nat : m = Len(r.harq) /\ DOMAIN r.harq = 1 .. m
      BY <1>1
    <3>2. g.harq = [i \in 1 .. AtMost(m, 2) |-> HarqVal(r.harq[i])]
      BY <2>1, <2>3, <3>1 DEF UciReport
    <3>3. h \in 1 .. AtMost(m, 2) /\ g.harq[h] = HarqVal(r.harq[h])
      BY <2>3, <3>2
    <3>4. h \in 1 .. m
      BY <3>1, <3>3 DEF AtMost
    <3>5. PICK v \in Nat : v = r.harq[h]
      BY <1>1, <3>1, <3>4
    <3>6. (HarqVal(v) = 1 <=> v = 0) /\ (HarqVal(v) = 0 <=> v = 1)
      <4>1. CASE v < 3
        <5>1. v = 0 \/ v = 1 \/ v = 2
          BY <4>1
        <5> QED BY <4>1, <5>1 DEF HarqVal
      <4> QED BY <4>1 DEF HarqVal
    <3> QED BY <3>3, <3>5, <3>6
  <2> QED BY <2>1, <2>2, <2>3 DEF TrueReport
<1>2. \A i \in DOMAIN ind.reports : ind.reports[i].harq \in Seq(Nat)
  BY DEF Reports
<1> QED BY <1>1, <1>2 DEF Reported

(* RACH reports no grant.                                                  *)
LEMMA RachReported ==
    ASSUME NEW ind, ind.msg = "RACH"
    PROVE  Reported([i \in DOMAIN ind.reports |-> [ta |-> TimingAdvance(ind.reports[i].ta, mu)]], ind)
BY DEF Reported, TrueReport

(* SRS: the handle of the grant.                                           *)
LEMMA SrsReported ==
    ASSUME NEW ind, ind.msg = "SRS"
    PROVE  Reported([i \in DOMAIN ind.reports |->
                      [handle |-> ind.reports[i].handle,
                       ta |-> IF ind.reports[i].ta = InvalidTa THEN <<>>
                              ELSE <<TimingAdvance(ind.reports[i].ta, mu)>>]], ind)
BY DEF Reported, TrueReport

(* Every indication is translated truly or not at all, by either pair.     *)
LEMMA IndicationTrue ==
    ASSUME NEW ind, NEW n, Reports(ind, n), mu \in Numerologies
    PROVE  TrueOrNothing(TranslateToL2(ind), ind)
<1>1. Numerology(mu) = mu /\ AerialNumerology(mu) = mu
  BY FrameFacts
<1>2. TrueOrNothing(Nothing, ind)
  BY DEF TrueOrNothing
<1>3. ASSUME ind.msg = "CRC" PROVE TrueOrNothing(CrcIndication(ind, mu), ind)
  BY <1>3, CrcReported, SentReports DEF CrcIndication, Put
<1>4. ASSUME ind.msg = "RX_DATA"
      PROVE  TrueOrNothing(RxDataIndication(ind, mu), ind) /\ TrueOrNothing(AerialRxDataIndication(ind, mu), ind)
  BY <1>4, RxReported, SentReports DEF RxDataIndication, AerialRxDataIndication, RxDataOf, Put
<1>5. ASSUME ind.msg = "UCI"
      PROVE  TrueOrNothing(UciIndication(ind, mu), ind) /\ TrueOrNothing(AerialUciIndication(ind, mu), ind)
  BY <1>5, UciReported, SentReports DEF UciIndication, AerialUciIndication, UciOf, Put
<1>6. ASSUME ind.msg = "RACH" PROVE TrueOrNothing(RachIndication(ind, mu), ind)
  BY <1>6, RachReported, SentReports DEF RachIndication, Put
<1>7. ASSUME ind.msg = "SRS" PROVE TrueOrNothing(AerialSrsIndication(ind, mu), ind)
  BY <1>7, SrsReported, SentReports DEF AerialSrsIndication, Put
<1>8. TrueOrNothing(OaiTranslateToL2(ind, mu), ind)
  BY <1>2, <1>3, <1>4, <1>5, <1>6 DEF OaiTranslateToL2
<1>9. TrueOrNothing(AerialTranslateToL2(ind, mu), ind)
  BY <1>2, <1>3, <1>4, <1>5, <1>6, <1>7
     DEF AerialTranslateToL2, AerialCrcIndication, AerialRachIndication
<1> QED BY <1>1, <1>8, <1>9 DEF TranslateToL2

(* What a UL_TTI means is no more than it asks for.                        *)
LEMMA MeantUlLength ==
    ASSUME NEW pdus \in Seq(Pdus)
    PROVE  Len(MeantUl(pdus)) <= Len(pdus)
<1>1. ASSUME NEW s \in Seq(Pdus) PROVE \E a : Listed(a, s)
  <2>1. PICK captured : captured = [j \in 1 .. Len(s) |-> {s[j].id}]
    OBVIOUS
  <2>2. PICK list : list = [j \in 1 .. Len(s) |-> [id |-> captured[j]]]
    OBVIOUS
  <2>3. ListOf(list, captured)
    <3>1. DOMAIN captured = 1 .. Len(s)
      BY <2>1
    <3> QED BY <2>2, <3>1 DEF ListOf
  <2> QED BY <2>1, <2>3, CapturedListed
<1>2. ASSUME NEW T PROVE OfTypes(pdus, T) \in Seq(Pdus)
  BY ThosePaired DEF OfTypes
<1>3. PICK A, B, C, D : A = {0} /\ B = {1, 5} /\ C = {2, 3} /\ D = {4}
  OBVIOUS
<1>4. A \cap B = {} /\ (A \cup B) \cap C = {} /\ ((A \cup B) \cup C) \cap D = {}
  BY <1>3
<1>5. PICK a, b, c, d : /\ Listed(a, OfTypes(pdus, A)) /\ Listed(b, OfTypes(pdus, B))
                        /\ Listed(c, OfTypes(pdus, C)) /\ Listed(d, OfTypes(pdus, D))
  BY <1>1, <1>2
<1>6. PICK whole : whole = ((OfTypes(pdus, A) \o OfTypes(pdus, B)) \o OfTypes(pdus, C)) \o OfTypes(pdus, D)
  OBVIOUS
<1>7. PICK cap \in Nat : Len(pdus) <= cap
  OBVIOUS
<1>8. Len(whole) <= Len(pdus)
  BY <1>4, <1>5, <1>6, <1>7, FourListed
<1> QED BY <1>3, <1>6, <1>8 DEF MeantUl

(* What L1 got, for the slots it can be told of.                           *)
Given(got) ==
    \E n \in Nat : DOMAIN got.pdus = 1 .. n /\ (got.msg = "UL_TTI" => n <= MaxUlPdus)

(* So L1 is given no more uplink PDUs than it can be told of.              *)
LEMMA TranslateGiven ==
    ASSUME NEW m, NEW req, Asked(m, req), NEW out, out = Translate(m.msg, req), out # Nothing
    PROVE  Given(out[1])
<1>1. Faithful(out, m)
  BY TranslateFaithful
<1>2. PICK time, pdus : out = <<[msg |-> m.msg, time |-> time, pdus |-> pdus]>>
  BY <1>1 DEF Faithful
<1>3. out[1].msg = m.msg /\ out[1].pdus = pdus
  BY <1>2
<1>4. PICK s : s = IF m.how = "none" THEN Meant(m) ELSE <<>>
  OBVIOUS
<1>5. Listed(pdus, s)
  BY <1>1, <1>3, <1>4 DEF Faithful
<1>6. PICK n \in Nat : n = Len(pdus) /\ n = Len(s) /\ DOMAIN pdus = 1 .. n
  BY <1>5 DEF Listed
<1>7. ASSUME m.msg = "UL_TTI" PROVE n <= MaxUlPdus
  <2>1. m.pdus \in Seq(Pdus) /\ Len(m.pdus) <= MaxUlPdus /\ Len(m.pdus) \in Nat /\ MaxUlPdus \in Nat
    BY <1>7, LimitsAssumption DEF Asked, Room
  <2>2. Meant(m) = MeantUl(m.pdus)
    BY <1>7 DEF Meant, MeantUl, OfTypes
  <2>3. CASE m.how = "none"
    BY <1>4, <1>6, <2>1, <2>2, <2>3, MeantUlLength
  <2>4. CASE m.how # "none"
    BY <1>4, <1>6, <2>1, <2>4
  <2> QED BY <2>3, <2>4
<1> QED BY <1>3, <1>6, <1>7 DEF Given

(* What L1 received, and what it measured of each.                         *)
Received(got) == \E n \in Nat : DOMAIN got = 1 .. n /\ got = [i \in 1 .. n |-> got[i]]
                                /\ \A i \in 1 .. n : got[i].outcome \in Outcomes

(* L1 reports on what it received.                                         *)
LEMMA ReportedOn ==
    ASSUME NEW a, Received(a), NEW I, NEW those, those = Those(a, I),
           NEW ind, ind.reports = [i \in DOMAIN those |-> Report(those[i])]
    PROVE  \E n : Reports(ind, n)
<1>1. PICK m \in Nat : DOMAIN a = 1 .. m /\ a = [i \in 1 .. m |-> a[i]]
                       /\ \A i \in 1 .. m : a[i].outcome \in Outcomes
  BY DEF Received
<1>2. PICK X : X = {a[i] : i \in 1 .. m}
  OBVIOUS
<1>3. a \in Seq(X)
  BY <1>1, <1>2
<1>4. those \in Seq(X)
  BY <1>3, ThosePaired
<1>5. PICK n \in Nat : n = Len(those) /\ DOMAIN those = 1 .. n
  BY <1>4
<1>6. ASSUME NEW i \in 1 .. n
      PROVE  ind.reports[i].harq \in Seq(Nat) /\ ind.reports[i].cqi \in Nat
  <2>1. those[i] \in X
    BY <1>4, <1>5
  <2>2. those[i].outcome \in Outcomes
    BY <1>1, <1>2, <2>1
  <2>3. those[i].outcome.harq \in Seq(Nat) /\ those[i].outcome.cqi \in Nat
    BY <2>2, OutcomesAssumption
  <2>4. ind.reports[i] = Report(those[i])
    BY <1>5
  <2>5. /\ Report(those[i]).harq = those[i].outcome.harq
        /\ Report(those[i]).cqi = those[i].outcome.cqi
    BY DEF Report
  <2> QED BY <2>3, <2>4, <2>5, Zenon
<1>7. DOMAIN ind.reports = 1 .. n /\ Len(ind.reports) = n
  BY <1>5
<1> QED BY <1>6, <1>7 DEF Reports

(* Inductive: what L1 has been given, has received and OCUDU-L2 has been   *)
(* told of.                                                                *)
InboxGiven  == inbox # <<>> => Given(inbox[1].got)
FeedbackInv ==
    /\ mu \in Numerologies
    /\ RequestsAsked /\ InboxGiven /\ Received(air) /\ FeedbackTruth

(* The invariant, message by message.                                      *)
LEMMA TruthIs ==
    FeedbackTruth <=> \A i \in DOMAIN told : \A j \in DOMAIN told[i].got :
                          TrueMessage(told[i].got[j], told[i].ind)
BY DEF FeedbackTruth, TrueMessage, TrueReport

(* At first L1 has received nothing.                                       *)
LEMMA NothingReceived == Received(<<>>)
<1>1. 0 \in Nat /\ DOMAIN <<>> = 1 .. 0 /\ <<>> = [i \in 1 .. 0 |-> <<>>[i]] /\ 1 .. 0 = {}
  OBVIOUS
<1> QED BY <1>1 DEF Received

(* L1 measures each PDU it was given.                                      *)
LEMMA ReceivedOfInbox ==
    ASSUME NEW outcome \in [1 .. MaxUlPdus -> Outcomes], InboxGiven, L1Receive(outcome)
    PROVE  Received(air')
<1>1. inbox # <<>> /\ inbox[1].got.msg = "UL_TTI"
  BY DEF L1Receive
<1>2. PICK n \in Nat : DOMAIN inbox[1].got.pdus = 1 .. n /\ n <= MaxUlPdus
  BY <1>1 DEF InboxGiven, Given
<1>3. MaxUlPdus \in Nat
  BY LimitsAssumption
<1>4. PICK new : new = air'
  OBVIOUS
<1>5. new = [i \in 1 .. n |->
                [at |-> now, handle |-> inbox[1].got.pdus[i].id,
                 kind |-> (CHOOSE f \in inbox[1].got.pdus[i].fields : TRUE).kind,
                 outcome |-> outcome[i]]]
  BY <1>2, <1>4 DEF L1Receive
<1>6. DOMAIN new = 1 .. n /\ new = [i \in 1 .. n |-> new[i]]
  BY <1>5
<1>7. \A i \in 1 .. n : new[i].outcome = outcome[i]
  BY <1>5
<1>8. \A i \in 1 .. n : i \in 1 .. MaxUlPdus
  BY <1>2, <1>3
<1>9. \A i \in 1 .. n : new[i].outcome \in Outcomes
  BY <1>7, <1>8
<1>10. Received(new)
  BY <1>6, <1>9 DEF Received
<1> QED BY <1>4, <1>10

(* What OCUDU-L2 is told is true.                                          *)
LEMMA ReportTrue ==
    ASSUME NEW msg, NEW cut, mu \in Numerologies, Received(air), L1Report(msg, cut)
    PROVE  \A i \in DOMAIN told' : \A j \in DOMAIN told'[i].got :
              TrueMessage(told'[i].got[j], told'[i].ind)
<1>1. PICK I : I = {i \in DOMAIN air : air[i].kind \in Kinds[msg]}
  OBVIOUS
<1>2. PICK those : those = Those(air, I)
  OBVIOUS
<1>3. PICK ind : ind = [msg |-> msg, time |-> TimeOf(those[1].at), cut |-> cut,
                        reports |-> [i \in DOMAIN those |-> Report(those[i])]]
  OBVIOUS
<1>4. PICK out : out = TranslateToL2(ind)
  OBVIOUS
<1>5. told' = <<[ind |-> ind, got |-> out]>>
  BY <1>1, <1>2, <1>3, <1>4 DEF L1Report
<1>6. ind.reports = [i \in DOMAIN those |-> Report(those[i])]
  BY <1>3
<1>7. \E n : Reports(ind, n)
  BY <1>2, <1>6, ReportedOn
<1>8. TrueOrNothing(out, ind)
  BY <1>4, <1>7, IndicationTrue
<1>9. ASSUME NEW j \in DOMAIN out PROVE TrueMessage(out[j], ind)
  <2>1. out # Nothing
    <3>1. DOMAIN <<>> = {}
      OBVIOUS
    <3> QED BY <1>9, <3>1 DEF Nothing
  <2>2. out = <<out[1]>> /\ TrueMessage(out[1], ind)
    BY <1>8, <2>1 DEF TrueOrNothing
  <2>3. PICK x : x = out[1]
    OBVIOUS
  <2>4. DOMAIN <<x>> = {1}
    OBVIOUS
  <2>5. j = 1
    BY <1>9, <2>2, <2>3, <2>4
  <2> QED BY <2>2, <2>5
<1>10. DOMAIN told' = {1} /\ told'[1].ind = ind /\ told'[1].got = out
  BY <1>5
<1> QED BY <1>9, <1>10

(* OCUDU-L2 is told of every grant of an indication or of none, and what   *)
(* L1 measured (the indication translators of both pairs).  Inductive      *)
(* with: L1 was given no more uplink PDUs than the message has room for,   *)
(* so each it received has an outcome.                                     *)
THEOREM FeedbackTruthHolds == Spec => []FeedbackTruth
<1>1. Init => FeedbackInv
  BY NothingReceived DEF Init, FeedbackInv, RequestsAsked, InboxGiven, FeedbackTruth
<1>2. ASSUME FeedbackInv, [Next]_vars PROVE FeedbackInv'
  <2>1. mu' = mu
    BY <1>2 DEF Next, vars, L1Slot, Forward, L1Drop, L2Note, L2Done, L2Request, L1Receive, L1Report
  <2>1a. \A got, ind : TrueMessage(got, ind)' <=> TrueMessage(got, ind)
    BY <2>1 DEF TrueMessage
  <2>1b. (FeedbackTruth <=> \A i \in DOMAIN told : \A j \in DOMAIN told[i].got :
                                TrueMessage(told[i].got[j], told[i].ind))'
    BY TruthIs, PTL
  <2>2. ASSUME UNCHANGED ring \/ ring' = <<>> PROVE RequestsAsked'
    BY <1>2, <2>2 DEF FeedbackInv, RequestsAsked
  <2>3. ASSUME UNCHANGED inbox \/ inbox' = <<>> PROVE InboxGiven'
    BY <1>2, <2>3 DEF FeedbackInv, InboxGiven
  <2>4. ASSUME UNCHANGED air \/ air' = <<>> PROVE Received(air')
    BY <1>2, <2>4, NothingReceived DEF FeedbackInv
  <2>5. ASSUME UNCHANGED told \/ told' = <<>> PROVE FeedbackTruth'
    <3>1. CASE UNCHANGED told
      <4>1. \A i \in DOMAIN told : \A j \in DOMAIN told[i].got :
                TrueMessage(told[i].got[j], told[i].ind)
        BY <1>2, TruthIs DEF FeedbackInv
      <4> QED BY <2>1a, <2>1b, <3>1, <4>1
    <3>2. CASE told' = <<>>
      BY <3>2 DEF FeedbackTruth
    <3> QED BY <2>5, <3>1, <3>2
  <2>6. CASE L1Slot \/ L1Drop \/ L2Note \/ L2Done \/ UNCHANGED vars
    <3>1. /\ UNCHANGED ring /\ (UNCHANGED inbox \/ inbox' = <<>>)
          /\ UNCHANGED air \/ air' = <<>>
          /\ UNCHANGED told \/ told' = <<>>
      BY <2>6 DEF L1Slot, L1Drop, L2Note, L2Done, vars
    <3> QED BY <1>2, <2>1, <2>2, <2>3, <2>4, <2>5, <3>1 DEF FeedbackInv
  <2>7. CASE Forward
    <3>1. PICK m, req, out : m = ring[1].meant /\ req = ring[1].req /\ out = Translate(m.msg, req)
      OBVIOUS
    <3>2. /\ ring # <<>> /\ ring' = <<>> /\ UNCHANGED <<air, told>>
          /\ inbox' = IF out = Nothing THEN <<>> ELSE <<[meant |-> m, got |-> out[1]]>>
      BY <2>7, <3>1 DEF Forward
    <3>3. Asked(m, req)
      BY <1>2, <3>1, <3>2 DEF FeedbackInv, RequestsAsked
    <3>4. out # Nothing => Given(out[1])
      BY <3>1, <3>3, TranslateGiven
    <3>5. inbox' = <<>> \/ (out # Nothing /\ inbox'[1].got = out[1])
      BY <3>2
    <3>6. InboxGiven'
      BY <3>4, <3>5 DEF InboxGiven
    <3> QED BY <1>2, <2>1, <2>2, <2>4, <2>5, <3>2, <3>6 DEF FeedbackInv
  <2>8. ASSUME NEW msg \in DOMAIN Lists, NEW pdus \in Lists[msg],
               NEW how \in {"none", "invalid", "cut", "extra"}, L2Request(msg, pdus, how)
        PROVE  FeedbackInv'
    <3>1. Asked(ring'[1].meant, ring'[1].req) /\ UNCHANGED <<inbox, air, told>>
      BY <2>8, AskedRequest DEF L2Request
    <3> QED BY <1>2, <2>1, <2>3, <2>4, <2>5, <3>1 DEF FeedbackInv, RequestsAsked
  <2>9. ASSUME NEW outcome \in [1 .. MaxUlPdus -> Outcomes], L1Receive(outcome)
        PROVE  FeedbackInv'
    <3>1. Received(air')
      BY <1>2, <2>9, ReceivedOfInbox DEF FeedbackInv
    <3>2. inbox' = <<>> /\ UNCHANGED <<ring, told>>
      BY <2>9 DEF L1Receive
    <3> QED BY <1>2, <2>1, <2>2, <2>3, <2>5, <3>1, <3>2 DEF FeedbackInv
  <2>10. ASSUME NEW msg \in DOMAIN Kinds, NEW cut \in BOOLEAN, L1Report(msg, cut)
         PROVE  FeedbackInv'
    <3>1. \A i \in DOMAIN told' : \A j \in DOMAIN told'[i].got :
              TrueMessage(told'[i].got[j], told'[i].ind)
      BY <1>2, <2>10, ReportTrue DEF FeedbackInv
    <3>2. FeedbackTruth'
      BY <2>1a, <2>1b, <3>1
    <3>3. UNCHANGED <<ring, inbox, air>>
      BY <2>10 DEF L1Report
    <3> QED BY <1>2, <2>1, <2>2, <2>3, <2>4, <3>2, <3>3 DEF FeedbackInv
  <2> QED BY <1>2, <2>6, <2>7, <2>8, <2>9, <2>10 DEF Next
<1>3. FeedbackInv => FeedbackTruth
  BY DEF FeedbackInv
<1> QED BY <1>1, <1>2, <1>3, PTL DEF Spec

-----------------------------------------------------------------------------
(* The mappers: what L1 reads in the fields of a PDU.                      *)

(* What OCUDU-L2 may mean by a PDU.                                        *)
Meaning(c) ==
    /\ c.mib \in [1 .. 3 -> Nat] /\ c.dci \in Seq({0, 1})
    /\ c.rb \in [1 .. 2 -> Nat] /\ c.crb \in [1 .. 2 -> Nat]
    /\ c.codewords \in Nat /\ c.layers \in Nat /\ c.bg \in Nat /\ c.dfts \in BOOLEAN

(* All content is of that form.                                            *)
LEMMA ContentMeaning == ASSUME NEW id \in DOMAIN Content PROVE Meaning(Content[id])
<1> PICK c : c = Content[id]
  OBVIOUS
<1>1. /\ c.mib \in [1 .. 3 -> Nat] /\ c.dci \in Seq({0, 1})
      /\ c.rb \in [1 .. 2 -> Nat] /\ c.crb \in [1 .. 2 -> Nat]
      /\ {c.codewords, c.layers, c.bg, c.rate, c.tb} \subseteq Nat /\ c.dfts \in BOOLEAN
  BY ContentAssumption, Zenon
<1>2. c.codewords \in Nat /\ c.layers \in Nat /\ c.bg \in Nat
  BY <1>1, Zenon
<1> QED BY <1>1, <1>2, Zenon DEF Meaning

(* The MIB, read from the other end.                                       *)
LEMMA SsbAsMeant == ASSUME NEW c, Meaning(c) PROVE AsMeant(MapSsb(c), c)
<1>1. PICK m1 \in Nat, m2 \in Nat, m3 \in Nat : c.mib[1] = m1 /\ c.mib[2] = m2 /\ c.mib[3] = m3
  BY SMTT(60) DEF Meaning
<1>2. Len(c.mib) = 3
  <2>1. c.mib = [i \in 1 .. 3 |-> c.mib[i]]
    BY DEF Meaning
  <2>2. DOMAIN c.mib = 1 .. 3
    BY <2>1
  <2> QED BY <2>2
<1>3. Reverse(c.mib) = [i \in 1 .. 3 |-> c.mib[(3 - i) + 1]]
  BY <1>2 DEF Reverse
<1>4. Reverse(c.mib)[1] = m3 /\ Reverse(c.mib)[2] = m2 /\ Reverse(c.mib)[3] = m1
  BY <1>1, <1>3
<1>5. MapSsb(c).kind = "SSB" /\ MapSsb(c).bchPayload = Reverse(c.mib)
  BY DEF MapSsb
<1> QED BY <1>1, <1>4, <1>5 DEF AsMeant, Sum

(* The bits of a DCI, each in its place of the word as long as they fit;   *)
(* never one outside the word.                                             *)
LEMMA PdcchAsMeant == ASSUME NEW c, Meaning(c) PROVE AsMeant(FillPdcch(c), c)
<1>1. PICK n \in Nat : n = Len(c.dci) /\ DOMAIN c.dci = 1 .. n
  BY DEF Meaning
<1>0. DciBits \in Nat
  BY LimitsAssumption
<1>2. PICK m \in Nat : m = AtMost(n, DciBits)
  BY <1>0, <1>1 DEF AtMost
<1>3. m <= n /\ m <= DciBits /\ (n <= DciBits => m = n)
  BY <1>0, <1>1, <1>2 DEF AtMost
<1>4. PICK ones : ones = {i \in 1 .. m : c.dci[i] = 1}
  OBVIOUS
<1>5. /\ FillPdcch(c).kind = "PDCCH" /\ FillPdcch(c).bits = n
      /\ FillPdcch(c).word = {m - k : k \in ones}
      /\ c.mapping = 2 => FillPdcch(c).cceRegMappingType = 0
  BY <1>1, <1>2, <1>4 DEF FillPdcch
<1>6. {m - k : k \in ones} \subseteq 0 .. DciBits - 1
  <2> SUFFICES ASSUME NEW k \in ones PROVE m - k \in 0 .. DciBits - 1
    OBVIOUS
  <2>1. k \in 1 .. m
    BY <1>4
  <2> QED BY <1>0, <1>2, <1>3, <2>1
<1>7. ASSUME n <= DciBits, NEW k \in 1 .. n PROVE n - k \in {m - j : j \in ones} <=> c.dci[k] = 1
  <2>0. m = n
    BY <1>3, <1>7
  <2>1. ASSUME NEW j \in ones, n - k = n - j PROVE k = j
    BY <1>1, <1>4, <2>0, <2>1
  <2> QED BY <1>1, <1>4, <2>0, <2>1
<1>8. n <= DciBits =>
         \A k \in DOMAIN c.dci : FillPdcch(c).bits - k \in FillPdcch(c).word <=> c.dci[k] = 1
  BY <1>1, <1>5, <1>7
<1> QED BY <1>1, <1>5, <1>6, <1>8 DEF AsMeant

(* A base graph L1 can use, whatever was given.                            *)
LEMMA BaseGraphs == ASSUME NEW c PROVE BaseGraph(c) \in {1, 2}
BY DEF BaseGraph

(* A start and a length mean the PRBs of the range.                        *)
LEMMA PrbsAsMeant ==
    ASSUME NEW c, Meaning(c), NEW f, f.rbStart = c.rb[1], f.rbSize = Length(c.rb)
    PROVE  SamePrbs(f, c)
<1>1. PICK a \in Nat, b \in Nat : a = c.rb[1] /\ b = c.rb[2]
  BY DEF Meaning
<1>2. f.rbStart = a /\ f.rbSize = b - a
  BY <1>1 DEF Length
<1>3. a + (b - a) - 1 = b - 1
  OBVIOUS
<1> QED BY <1>1, <1>2, <1>3 DEF SamePrbs, Prbs

(* PDSCH: its PRBs, at least one layer, one or two codewords.              *)
LEMMA PdschAsMeant == ASSUME NEW c, Meaning(c) PROVE AsMeant(MapPdsch(c), c)
<1>1. PICK f : f = MapPdsch(c)
  OBVIOUS
<1>2. /\ f.kind = "PDSCH" /\ f.rbStart = c.rb[1] /\ f.rbSize = Length(c.rb)
      /\ f.nrOfCodewords = Positive(AtMost(c.codewords, 2))
      /\ f.nrOfLayers = Positive(c.layers) /\ f.ldpcBaseGraph = BaseGraph(c)
  BY <1>1 DEF MapPdsch
<1>3. SamePrbs(f, c)
  BY <1>2, PrbsAsMeant
<1>4. f.nrOfLayers > 0 /\ f.nrOfCodewords \in 1 .. 2
  BY <1>2, SMTT(60) DEF Meaning, Positive, AtMost
<1>5. f.ldpcBaseGraph \in {1, 2}
  BY <1>2, BaseGraphs
<1> QED BY <1>1, <1>2, <1>3, <1>4, <1>5 DEF AsMeant

(* PUSCH: its PRBs, at least one layer, and transform precoding the other  *)
(* way round.                                                              *)
LEMMA PuschAsMeant == ASSUME NEW c, Meaning(c) PROVE AsMeant(MapPusch(c), c)
<1>1. PICK f : f = MapPusch(c)
  OBVIOUS
<1>2. /\ f.kind = "PUSCH" /\ f.rbStart = c.rb[1] /\ f.rbSize = Length(c.rb)
      /\ f.transformPrecoding = (IF c.dfts THEN 0 ELSE 1)
      /\ f.nrOfLayers = Positive(c.layers) /\ f.ldpcBaseGraph = BaseGraph(c)
  BY <1>1 DEF MapPusch
<1>3. SamePrbs(f, c)
  BY <1>2, PrbsAsMeant
<1>4. f.nrOfLayers > 0
  BY <1>2 DEF Meaning, Positive
<1>5. f.transformPrecoding = 0 <=> c.dfts
  BY <1>2 DEF Meaning
<1>6. f.ldpcBaseGraph \in {1, 2}
  BY <1>2, BaseGraphs
<1> QED BY <1>1, <1>2, <1>3, <1>4, <1>5, <1>6 DEF AsMeant

(* PUCCH: not both kinds of hopping.                                       *)
LEMMA PucchAsMeant == ASSUME NEW c, Meaning(c) PROVE AsMeant(MapPucch(c), c)
<1>1. PICK f : f = MapPucch(c)
  OBVIOUS
<1>2. /\ f.kind = "PUCCH" /\ f.prbSize = c.rb[2] - c.rb[1]
      /\ f.groupHop = (IF c.hopping = 1 THEN 1 ELSE 0)
      /\ f.sequenceHop = (IF c.hopping = 2 THEN 1 ELSE 0)
  BY <1>1 DEF MapPucch, Length
<1> QED BY <1>1, <1>2 DEF AsMeant

(* Of the others nothing changes its meaning.                              *)
LEMMA OthersAsMeant ==
    ASSUME NEW c
    PROVE  AsMeant(MapPrach(c), c) /\ AsMeant(MapSrs(c), c) /\ AsMeant([kind |-> "TB"], c)
BY DEF AsMeant, MapPrach, MapSrs

(* The range of resource blocks of a CSI-RS.                               *)
LEMMA CrbBounds == ASSUME NEW c, Meaning(c) PROVE c.crb[1] \in Nat /\ c.crb[2] \in Nat
<1> PICK f : f = c.crb
  OBVIOUS
<1>1. f \in [1 .. 2 -> Nat]
  BY Zenon DEF Meaning
<1>2. f[1] \in Nat /\ f[2] \in Nat
  BY <1>1
<1> QED BY <1>2

(* CSI-RS for OAI: the resource blocks of the range.                       *)
LEMMA CsiRsAsMeant == ASSUME NEW c, Meaning(c), pair # "AERIAL" PROVE AsMeant(MapCsiRs(c), c)
<1>1. PICK a \in Nat, b \in Nat : a = c.crb[1] /\ b = c.crb[2]
  BY CrbBounds
<1>2. MapCsiRs(c).kind = "CSI_RS" /\ MapCsiRs(c).startRb = a /\ MapCsiRs(c).nrOfRbs = b - a
  BY <1>1 DEF MapCsiRs, Length
<1>3. Prbs(a, b - a) \subseteq a .. b - 1
  BY DEF Prbs
<1> QED BY <1>1, <1>2, <1>3 DEF AsMeant

(* Rounding down to a multiple of 4.                                       *)
LEMMA FourOf ==
    ASSUME NEW x \in Int
    PROVE  (x \div 4) * 4 <= x /\ ((x \div 4) * 4) % 4 = 0 /\ (x \div 4) * 4 \in Int
OBVIOUS

(* The clamp stays within what was asked and within the carrier, in whole  *)
(* groups of 4.                                                            *)
LEMMA ClampFacts ==
    ASSUME NEW a \in Nat, NEW n \in Int, NEW r, r = ClampRbs(a, n)
    PROVE  /\ r \in Int /\ r % 4 = 0
           /\ r = 0 \/ (r <= n /\ r <= Carrier - a)
<1>1. Carrier \in Nat /\ ~(Carrier <= 0)
  BY LimitsAssumption
<1>2. CASE a >= Carrier
  <2>1. r = 0
    BY <1>1, <1>2 DEF ClampRbs
  <2> QED BY <2>1
<1>3. CASE ~(a >= Carrier)
  <2>1. PICK y \in Int : y = Carrier - a
    BY <1>1
  <2>n. AtMost(n, y) \in Int
    BY DEF AtMost
  <2>m. PICK x \in Int : x = AtMost(n, y)
    BY <2>n
  <2>2. x <= n /\ x <= Carrier - a
    BY <1>1, <2>1, <2>m DEF AtMost
  <2>3. r = (x \div 4) * 4
    BY <1>1, <1>3, <2>1, <2>m DEF ClampRbs
  <2>4. r <= x /\ r % 4 = 0 /\ r \in Int
    BY <2>3, FourOf
  <2> QED BY <1>1, <2>2, <2>4
<1> QED BY <1>2, <1>3

(* CSI-RS for Aerial: also within the carrier.                             *)
LEMMA AerialCsiRsAsMeant == ASSUME NEW c, Meaning(c) PROVE AsMeant(AerialMapCsiRs(c), c)
<1>1. PICK a \in Nat, b \in Nat : a = c.crb[1] /\ b = c.crb[2]
  BY CrbBounds
<1>2. PICK n : n = ClampRbs(a, b - a)
  OBVIOUS
<1>3. PICK f : f = AerialMapCsiRs(c)
  OBVIOUS
<1>4. f.kind = "CSI_RS" /\ f.startRb = a /\ f.nrOfRbs = n
  BY <1>1, <1>2, <1>3 DEF AerialMapCsiRs, MapCsiRs, Length
<1>5. b - a \in Int /\ Carrier \in Nat
  BY LimitsAssumption
<1>6. n \in Int /\ n % 4 = 0 /\ (n = 0 \/ (n <= b - a /\ n <= Carrier - a))
  BY <1>2, <1>5, ClampFacts
<1>7. Prbs(a, n) \subseteq a .. b - 1 /\ Prbs(a, n) \subseteq 0 .. Carrier - 1
  BY <1>5, <1>6 DEF Prbs
<1> QED BY <1>1, <1>3, <1>4, <1>6, <1>7 DEF AsMeant

-----------------------------------------------------------------------------
(* Lists of PDUs whose fields mean what was meant.                         *)

(* A PDU for L1 whose fields mean what OCUDU-L2 meant, and a list of such. *)
Fit(p) == \A f \in p.fields : \E id \in p.id : AsMeant(f, Content[id])
FitList(list) == \E X : list \in Seq(X) /\ \A p \in X : Fit(p)

(* A list fits if each element does ...                                    *)
LEMMA EachFit ==
    ASSUME NEW n \in Nat, NEW list, list = [i \in 1 .. n |-> list[i]], \A i \in 1 .. n : Fit(list[i])
    PROVE  FitList(list)
<1>1. PICK X : X = {list[i] : i \in 1 .. n}
  OBVIOUS
<1>2. list \in Seq(X)
  BY <1>1
<1>3. \A p \in X : Fit(p)
  BY <1>1
<1> QED BY <1>2, <1>3 DEF FitList

(* ... and only then.                                                      *)
LEMMA FitEach == ASSUME NEW list, FitList(list), NEW i \in DOMAIN list PROVE Fit(list[i])
<1>1. PICK X : list \in Seq(X) /\ \A p \in X : Fit(p)
  BY DEF FitList
<1>2. list[i] \in X
  BY <1>1
<1> QED BY <1>1, <1>2

(* Fitting lists put together fit.                                         *)
LEMMA FitJoin == ASSUME NEW a, NEW b, FitList(a), FitList(b) PROVE FitList(a \o b)
<1>1. PICK X : a \in Seq(X) /\ \A p \in X : Fit(p)
  BY DEF FitList
<1>2. PICK Y : b \in Seq(Y) /\ \A p \in Y : Fit(p)
  BY DEF FitList
<1>3. a \in Seq(X \cup Y) /\ b \in Seq(X \cup Y)
  BY <1>1, <1>2, SeqMonotone
<1>4. a \o b \in Seq(X \cup Y)
  BY <1>3
<1>5. \A p \in X \cup Y : Fit(p)
  BY <1>1, <1>2
<1> QED BY <1>4, <1>5 DEF FitList

(* The first of a fitting list fit.                                        *)
LEMMA FitFirst == ASSUME NEW list, FitList(list), NEW cap \in Nat PROVE FitList(FirstPdus(list, cap))
<1>1. PICK X : list \in Seq(X) /\ \A p \in X : Fit(p)
  BY DEF FitList
<1>2. PICK n \in Nat : n = Len(list)
  BY <1>1
<1>3. PICK c : c = AtMost(n, cap)
  OBVIOUS
<1>4. c \in 0 .. n
  BY <1>3 DEF AtMost
<1>5. SubSeq(list, 1, c) \in Seq(X)
  BY <1>1, <1>2, <1>4
<1>6. FirstPdus(list, cap) = SubSeq(list, 1, c)
  BY <1>2, <1>3 DEF FirstPdus
<1> QED BY <1>1, <1>5, <1>6 DEF FitList

(* Some of a fitting list fit.                                             *)
LEMMA FitThose == ASSUME NEW list, FitList(list), NEW I PROVE FitList(Those(list, I))
<1>1. PICK X : list \in Seq(X) /\ \A p \in X : Fit(p)
  BY DEF FitList
<1>2. Those(list, I) \in Seq(X)
  BY <1>1, ThosePaired
<1> QED BY <1>1, <1>2 DEF FitList

(* The lists of four structures, as far as there is room.                  *)
LEMMA FitFour ==
    ASSUME NEW a, NEW b, NEW c, NEW d, FitList(a), FitList(b), FitList(c), FitList(d), NEW cap \in Nat
    PROVE  FitList(FirstPdus(a \o b \o c \o d, cap))
<1>1. FitList(a \o b)
  BY FitJoin
<1>2. FitList((a \o b) \o c)
  BY <1>1, FitJoin
<1>3. FitList(((a \o b) \o c) \o d)
  BY <1>2, FitJoin
<1> QED BY <1>3, FitFirst

(* What is captured are PDUs of OCUDU-L2, whatever was read.               *)
CapturedSets(captured) ==
    \E n \in Nat : DOMAIN captured = 1 .. n /\ \A i \in 1 .. n : captured[i] \subseteq DOMAIN Content

(* ... nor of what type.                                                   *)
LEMMA CapturedContent ==
    ASSUME NEW S, NEW sp \in Seq(S), NEW types, NEW k, NEW cap \in Nat
    PROVE  CapturedSets(Captured(sp, types, k, cap))
<1>1. PICK I : I = {i \in DOMAIN sp : sp[i].type \subseteq types}
  OBVIOUS
<1>2. PICK those : those = Those(sp, I)
  OBVIOUS
<1>3. those \in Seq(S)
  BY <1>2, ThosePaired
<1>4. PICK n \in Nat : n = AtMost(Len(those), cap)
  <2>1. Len(those) \in Nat
    BY <1>3
  <2> QED BY <2>1 DEF AtMost
<1>5. Captured(sp, types, k, cap) = [i \in 1 .. n |-> {id \in DOMAIN Content : those[i].got[k] = {Mark(id, k)}}]
  BY <1>1, <1>2, <1>4 DEF Captured
<1>6. PICK captured : captured = Captured(sp, types, k, cap)
  OBVIOUS
<1>7. DOMAIN captured = 1 .. n /\ \A i \in 1 .. n : captured[i] \subseteq DOMAIN Content
  BY <1>5, <1>6
<1> QED BY <1>6, <1>7 DEF CapturedSets

(* The list of what is captured, mapped by g.                              *)
ListBy(list, captured, g) ==
    list = [i \in DOMAIN captured |-> [id |-> captured[i], fields |-> {g[id] : id \in captured[i]}]]

(* If g gives fields that mean what was meant, the list fits.              *)
LEMMA MappedFit ==
    ASSUME NEW captured, CapturedSets(captured), NEW g, NEW list, ListBy(list, captured, g),
           \A id \in DOMAIN Content : AsMeant(g[id], Content[id])
    PROVE  FitList(list)
<1>1. PICK n \in Nat : DOMAIN captured = 1 .. n /\ \A i \in 1 .. n : captured[i] \subseteq DOMAIN Content
  BY DEF CapturedSets
<1>2. list = [i \in 1 .. n |-> [id |-> captured[i], fields |-> {g[id] : id \in captured[i]}]]
  BY <1>1 DEF ListBy
<1>3. list = [i \in 1 .. n |-> list[i]]
  BY <1>2
<1>4. ASSUME NEW i \in 1 .. n PROVE Fit(list[i])
  <2>1. list[i].id = captured[i] /\ list[i].fields = {g[id] : id \in captured[i]}
    BY <1>2
  <2>2. ASSUME NEW f \in list[i].fields PROVE \E id \in list[i].id : AsMeant(f, Content[id])
    <3>1. PICK id \in captured[i] : f = g[id]
      BY <2>1
    <3>2. id \in DOMAIN Content
      BY <1>1
    <3> QED BY <2>1, <3>1, <3>2
  <2> QED BY <2>2 DEF Fit
<1> QED BY <1>3, <1>4, EachFit

(* Each mapper's PDUs mean what OCUDU-L2 meant.                            *)
LEMMA MappersFit ==
    ASSUME NEW k \in 1 .. 4, NEW captured, CapturedSets(captured)
    PROVE  /\ pair # "AERIAL" \/ k # 3 => FitList(Mapped(MapDl, k, captured))
           /\ FitList(Mapped(AerialMapDl, k, captured))
           /\ FitList(Mapped(MapUl, k, captured))
           /\ FitList(Mapped(AerialMapUl, k, captured))
<1>1. ASSUME NEW id \in DOMAIN Content
      PROVE  /\ pair # "AERIAL" \/ k # 3 => AsMeant(MapDl(k, Content[id]), Content[id])
             /\ AsMeant(AerialMapDl(k, Content[id]), Content[id])
             /\ AsMeant(MapUl(k, Content[id]), Content[id])
  <2>1. PICK c : c = Content[id]
    OBVIOUS
  <2>2. Meaning(c)
    BY <2>1, ContentMeaning
  <2>3. /\ AsMeant(MapSsb(c), c) /\ AsMeant(FillPdcch(c), c) /\ AsMeant(MapPdsch(c), c)
        /\ pair # "AERIAL" => AsMeant(MapCsiRs(c), c)
        /\ AsMeant(AerialMapCsiRs(c), c)
        /\ AsMeant(MapPrach(c), c) /\ AsMeant(MapPusch(c), c) /\ AsMeant(MapPucch(c), c) /\ AsMeant(MapSrs(c), c)
    BY <2>2, SsbAsMeant, PdcchAsMeant, PdschAsMeant, CsiRsAsMeant, AerialCsiRsAsMeant,
       PuschAsMeant, PucchAsMeant, OthersAsMeant
  <2>4. k = 1 \/ k = 2 \/ k = 3 \/ k = 4
    OBVIOUS
  <2>5. /\ pair # "AERIAL" \/ k # 3 => AsMeant(MapDl(k, c), c)
        /\ AsMeant(AerialMapDl(k, c), c) /\ AsMeant(MapUl(k, c), c)
    BY <2>3, <2>4 DEF MapDl, MapUl, AerialMapDl
  <2> QED BY <2>1, <2>5
<1>2. PICK dl, adl, ul : /\ dl = [id \in DOMAIN Content |-> MapDl(k, Content[id])]
                         /\ adl = [id \in DOMAIN Content |-> AerialMapDl(k, Content[id])]
                         /\ ul = [id \in DOMAIN Content |-> MapUl(k, Content[id])]
  OBVIOUS
<1>3. \A i \in DOMAIN captured : captured[i] \subseteq DOMAIN Content
  BY DEF CapturedSets
<1>4. /\ ListBy(Mapped(MapDl, k, captured), captured, dl)
      /\ ListBy(Mapped(AerialMapDl, k, captured), captured, adl)
      /\ ListBy(Mapped(MapUl, k, captured), captured, ul)
      /\ ListBy(Mapped(AerialMapUl, k, captured), captured, ul)
  <2>1. \A i \in DOMAIN captured : /\ {MapDl(k, Content[id]) : id \in captured[i]} = {dl[id] : id \in captured[i]}
                                   /\ {AerialMapDl(k, Content[id]) : id \in captured[i]} = {adl[id] : id \in captured[i]}
                                   /\ {MapUl(k, Content[id]) : id \in captured[i]} = {ul[id] : id \in captured[i]}
    BY <1>2, <1>3
  <2> QED BY <2>1 DEF ListBy, Mapped, AerialMapUl
<1>5. \A id \in DOMAIN Content : /\ pair # "AERIAL" \/ k # 3 => AsMeant(dl[id], Content[id])
                                 /\ AsMeant(adl[id], Content[id]) /\ AsMeant(ul[id], Content[id])
  BY <1>1, <1>2
<1>6. pair # "AERIAL" \/ k # 3 => FitList(Mapped(MapDl, k, captured))
  BY <1>4, <1>5, MappedFit
<1>7. FitList(Mapped(AerialMapDl, k, captured))
  BY <1>4, <1>5, MappedFit
<1>8. FitList(Mapped(MapUl, k, captured)) /\ FitList(Mapped(AerialMapUl, k, captured))
  BY <1>4, <1>5, MappedFit
<1> QED BY <1>6, <1>7, <1>8

(* A translator's message fits, if there is one.                           *)
Fitted(out) == out = Nothing \/ FitList(out[1].pdus)

(* A message with a fitting list is fitted.                                *)
LEMMA MessageFitted == ASSUME NEW msg, NEW req, NEW pdus, FitList(pdus) PROVE Fitted(Message(msg, req, pdus))
BY DEF Fitted, Message

(* Nothing is fitted.                                                      *)
LEMMA NothingFitted == Fitted(Nothing)
BY DEF Fitted

(* The empty list fits.                                                    *)
LEMMA EmptyFits == FitList(<<>>)
<1>1. PICK X : X = {}
  OBVIOUS
<1>2. <<>> \in Seq(X)
  OBVIOUS
<1>3. \A p \in X : Fit(p)
  BY <1>1
<1> QED BY <1>2, <1>3 DEF FitList

(* The lists of all translators but TX_DATA fit, of whatever was read.     *)
LEMMA ListsFit ==
    ASSUME NEW S, NEW sp \in Seq(S)
    PROVE  /\ pair # "AERIAL" => FitList(DlList(MapDl, sp))
           /\ FitList(DlList(AerialMapDl, sp))
           /\ FitList(FirstPdus(UlList(MapUl, sp), MaxUlPdus))
           /\ FitList(FirstPdus(UlList(AerialMapUl, sp), MaxUlPdus))
           /\ FitList(FirstPdus(DciList(sp), MaxCoresets))
<1>1. MaxDlPdus \in Nat /\ MaxUlPdus \in Nat /\ MaxCoresets \in Nat
  BY LimitsAssumption
<1>2. 1 \in 1 .. 4 /\ 2 \in 1 .. 4 /\ 3 \in 1 .. 4 /\ 4 \in 1 .. 4
  OBVIOUS
<1>3. ASSUME NEW k \in 1 .. 4, NEW types, NEW cap \in Nat, NEW captured, captured = Captured(sp, types, k, cap)
      PROVE  /\ pair # "AERIAL" \/ k # 3 => FitList(Mapped(MapDl, k, captured))
             /\ FitList(Mapped(AerialMapDl, k, captured))
             /\ FitList(Mapped(MapUl, k, captured))
             /\ FitList(Mapped(AerialMapUl, k, captured))
  <2>1. CapturedSets(captured)
    BY <1>3, CapturedContent
  <2> QED BY <2>1, MappersFit
<1>4. ASSUME pair # "AERIAL" PROVE FitList(DlList(MapDl, sp))
  <2> DEFINE of(k) == Mapped(MapDl, k, Captured(sp, DlTypes[k], k, MaxDlPdus))
  <2>1. \A k \in 1 .. 4 : FitList(of(k))
    BY <1>1, <1>3, <1>4
  <2>2. DlList(MapDl, sp) = FirstPdus(of(4) \o of(1) \o of(2) \o of(3), MaxDlPdus)
    BY DEF DlList
  <2> HIDE DEF of
  <2> QED BY <1>1, <1>2, <2>1, <2>2, FitFour
<1>5. FitList(DlList(AerialMapDl, sp))
  <2> DEFINE of(k) == Mapped(AerialMapDl, k, Captured(sp, DlTypes[k], k, MaxDlPdus))
  <2>1. \A k \in 1 .. 4 : FitList(of(k))
    BY <1>1, <1>3
  <2>2. DlList(AerialMapDl, sp) = FirstPdus(of(4) \o of(1) \o of(2) \o of(3), MaxDlPdus)
    BY DEF DlList
  <2> HIDE DEF of
  <2> QED BY <1>1, <1>2, <2>1, <2>2, FitFour
<1>6. FitList(FirstPdus(UlList(MapUl, sp), MaxUlPdus))
  <2> DEFINE of(k) == Mapped(MapUl, k, Captured(sp, UlTypes[k], k, MaxUlPdus))
  <2>1. \A k \in 1 .. 4 : FitList(of(k))
    BY <1>1, <1>3
  <2>2. UlList(MapUl, sp) = of(1) \o of(2) \o of(3) \o of(4)
    BY DEF UlList
  <2> HIDE DEF of
  <2> QED BY <1>1, <1>2, <2>1, <2>2, FitFour
<1>7. FitList(FirstPdus(UlList(AerialMapUl, sp), MaxUlPdus))
  <2> DEFINE of(k) == Mapped(AerialMapUl, k, Captured(sp, UlTypes[k], k, MaxUlPdus))
  <2>1. \A k \in 1 .. 4 : FitList(of(k))
    BY <1>1, <1>3
  <2>2. UlList(AerialMapUl, sp) = of(1) \o of(2) \o of(3) \o of(4)
    BY DEF UlList
  <2> HIDE DEF of
  <2> QED BY <1>1, <1>2, <2>1, <2>2, FitFour
<1>8. FitList(FirstPdus(DciList(sp), MaxCoresets))
  <2>1. 1 # 3
    OBVIOUS
  <2>2. FitList(DciList(sp))
    BY <1>1, <1>2, <1>3, <2>1 DEF DciList
  <2> QED BY <1>1, <2>2, FitFirst
<1> QED BY <1>4, <1>5, <1>6, <1>7, <1>8

(* The list of TX_DATA fits.                                               *)
LEMMA TbFit ==
    ASSUME NEW S, NEW sp \in Seq(S), NEW total \in Nat, NEW list, list = TbList(sp, total), NEW I
    PROVE  FitList(FirstPdus(Those(list, I), MaxTxPdus))
<1>1. PICK captured : captured = Captured(sp, {}, 1, total)
  OBVIOUS
<1>2. CapturedSets(captured)
  BY <1>1, CapturedContent
<1>3. PICK g : g = [id \in DOMAIN Content |-> [kind |-> "TB"]]
  OBVIOUS
<1>4. \A id \in DOMAIN Content : AsMeant(g[id], Content[id])
  BY <1>3, OthersAsMeant
<1>5. ListBy(list, captured, g)
  <2>1. \A i \in DOMAIN captured : captured[i] \subseteq DOMAIN Content
    BY <1>2 DEF CapturedSets
  <2>2. \A i \in DOMAIN captured : {[kind |-> "TB"] : id \in captured[i]} = {g[id] : id \in captured[i]}
    BY <1>3, <2>1
  <2>3. list = [i \in DOMAIN captured |->
                  [id |-> captured[i], fields |-> {[kind |-> "TB"] : id \in captured[i]}]]
    BY <1>1 DEF TbList, Mapped
  <2> QED BY <2>2, <2>3 DEF ListBy
<1>6. FitList(list)
  BY <1>2, <1>4, <1>5, MappedFit
<1>7. FitList(Those(list, I)) /\ MaxTxPdus \in Nat
  BY <1>6, FitThose, LimitsAssumption
<1> QED BY <1>7, FitFirst

(* An intact request is read as a sequence of PDUs.                        *)
LEMMA ReadSequence ==
    ASSUME NEW m, NEW req, Asked(m, req), m.how = "none"
    PROVE  /\ req.total \in Nat /\ \E S : ReadOf(m, req).pdus \in Seq(S)
           /\ WalkOk(ReadOf(m, req), req.wire)
<1>1. Seen(ReadOf(m, req).pdus, m.pdus, KindsOf(m.msg)) /\ WalkOk(ReadOf(m, req), req.wire)
  BY ReadRequest
<1>2. req.total = Len(m.pdus) /\ m.pdus \in Seq(Pdus)
  BY DEF Asked
<1> QED BY <1>1, <1>2 DEF Seen

(* An intact request is translated with the fields that were meant ...     *)
LEMMA IntactFitted ==
    ASSUME NEW m, NEW req, Asked(m, req), m.how = "none"
    PROVE  Fitted(Translate(m.msg, req))
<1>1. PICK s : s = ReadOf(m, req)
  OBVIOUS
<1>2. req.total \in Nat /\ WalkOk(s, req.wire)
  BY <1>1, ReadSequence
<1>3. PICK S : s.pdus \in Seq(S)
  BY <1>1, ReadSequence
<1>4. ASSUME m.msg = "DL_TTI"
      PROVE  /\ pair # "AERIAL" => Fitted(DlTti(req))
             /\ Fitted(AerialDlTti(req))
  <2>1. s = ReadPdus(DlPdu, req.total, req.wire) /\ Kept(req, s) = s.pdus
    BY <1>1, <1>2, <1>4 DEF ReadOf, PduOf, Kept
  <2>2. DlTti(req) = Nothing \/ DlTti(req) = Message("DL_TTI", req, DlList(MapDl, s.pdus))
    BY <2>1 DEF DlTti, DlTtiOf
  <2>3. AerialDlTti(req) = Nothing \/ AerialDlTti(req) = Message("DL_TTI", req, DlList(AerialMapDl, s.pdus))
    BY <2>1 DEF AerialDlTti, DlTtiOf, AerialDlPdu
  <2>4. (pair # "AERIAL" => FitList(DlList(MapDl, s.pdus))) /\ FitList(DlList(AerialMapDl, s.pdus))
    BY <1>3, ListsFit
  <2> QED BY <2>2, <2>3, <2>4, MessageFitted, NothingFitted
<1>5. ASSUME m.msg = "UL_TTI" PROVE Fitted(UlTti(req)) /\ Fitted(AerialUlTti(req))
  <2>1. s = ReadPdus(UlPdu, req.total, req.wire)
    BY <1>1, <1>5 DEF ReadOf, PduOf
  <2>2. \/ UlTti(req) = Nothing
        \/ UlTti(req) = Message("UL_TTI", req, FirstPdus(UlList(MapUl, s.pdus), MaxUlPdus))
    BY <2>1 DEF UlTti, UlTtiOf, UlList
  <2>3. \/ AerialUlTti(req) = Nothing
        \/ AerialUlTti(req) = Message("UL_TTI", req, FirstPdus(UlList(AerialMapUl, s.pdus), MaxUlPdus))
    BY <2>1 DEF AerialUlTti, UlTtiOf, UlList, AerialUlPdu
  <2>4. /\ FitList(FirstPdus(UlList(MapUl, s.pdus), MaxUlPdus))
        /\ FitList(FirstPdus(UlList(AerialMapUl, s.pdus), MaxUlPdus))
    BY <1>3, ListsFit
  <2> QED BY <2>2, <2>3, <2>4, MessageFitted, NothingFitted
<1>6. ASSUME m.msg = "UL_DCI" PROVE Fitted(UlDci(req)) /\ Fitted(AerialUlDci(req))
  <2>1. s = ReadPdus(UlDciPdu, req.total, req.wire)
    BY <1>1, <1>6 DEF ReadOf, PduOf
  <2>2. UlDci(req) = Nothing \/ UlDci(req) = Message("UL_DCI", req, FirstPdus(DciList(s.pdus), MaxCoresets))
    BY <2>1 DEF UlDci, DciList
  <2>3. FitList(FirstPdus(DciList(s.pdus), MaxCoresets))
    BY <1>3, ListsFit
  <2> QED BY <2>2, <2>3, MessageFitted, NothingFitted DEF AerialUlDci
<1>7. ASSUME m.msg = "TX_DATA" PROVE Fitted(TxData(req)) /\ Fitted(AerialTxData(req))
  <2>1. s = ReadPdus(TxDataPdu, req.total, req.wire)
    BY <1>1, <1>7 DEF ReadOf, PduOf
  <2>2. PICK list : list = TbList(s.pdus, req.total)
    OBVIOUS
  <2>3. \/ TxData(req) = Nothing
        \/ TxData(req) = Message("TX_DATA", req, FirstPdus(Those(list, TbFits(list)), MaxTxPdus))
    BY <2>1, <2>2 DEF TxData, TbList, TbFits
  <2>4. FitList(FirstPdus(Those(list, TbFits(list)), MaxTxPdus))
    BY <1>2, <1>3, <2>2, TbFit
  <2> QED BY <2>3, <2>4, MessageFitted, NothingFitted DEF AerialTxData
<1>8. pair = "OAI" => Fitted(OaiTranslate(m.msg, req))
  BY <1>4, <1>5, <1>6, <1>7, NothingFitted DEF OaiTranslate
<1>9. Fitted(AerialTranslate(m.msg, req))
  BY <1>4, <1>5, <1>6, <1>7, NothingFitted DEF AerialTranslate
<1> QED BY <1>8, <1>9 DEF Translate

(* ... and another with none.                                              *)
LEMMA TranslateFitted ==
    ASSUME NEW m, NEW req, Asked(m, req)
    PROVE  Fitted(Translate(m.msg, req))
<1>1. CASE m.how = "none"
  BY <1>1, IntactFitted
<1>2. CASE m.how # "none"
  <2>1. PICK out : out = Translate(m.msg, req)
    OBVIOUS
  <2>2. Faithful(out, m)
    BY <2>1, TranslateFaithful
  <2>3. out = Nothing \/ Listed(out[1].pdus, <<>>)
    BY <1>2, <2>2 DEF Faithful
  <2>4. Len(<<>>) <= 0
    OBVIOUS
  <2>5. out = Nothing \/ out[1].pdus = <<>>
    BY <2>3, <2>4, EmptyListed
  <2>6. Fitted(out)
    BY <2>5, EmptyFits DEF Fitted
  <2> QED BY <2>1, <2>6
<1> QED BY <1>1, <1>2

(* Inductive: what L1 has been given means what OCUDU-L2 meant.            *)
InboxFits == inbox # <<>> => FitList(inbox[1].got.pdus)
MeaningInv == RequestsAsked /\ InboxFits

(* A fitting inbox is what the invariant says.                             *)
LEMMA FitsMean == InboxFits => ReadAsMeant
<1>1. ASSUME InboxFits, inbox # <<>>, NEW i \in DOMAIN inbox[1].got.pdus PROVE Fit(inbox[1].got.pdus[i])
  BY <1>1, FitEach DEF InboxFits
<1> QED BY <1>1 DEF ReadAsMeant, Fit

(* The fields L1 reads of a PDU mean what OCUDU-L2 meant (the mappers of   *)
(* the request translators of both pairs), for every content.  Inductive   *)
(* with: a request on its way is as OCUDU-L2 put it there, so that it is   *)
(* read PDU by PDU or not passed on.                                       *)
THEOREM ReadAsMeantHolds == Spec => []ReadAsMeant
<1>1. Init => MeaningInv
  BY DEF Init, MeaningInv, RequestsAsked, InboxFits
<1>2. ASSUME MeaningInv, [Next]_vars PROVE MeaningInv'
  <2>1. pair' = pair
    BY <1>2 DEF Next, vars, L1Slot, Forward, L1Drop, L2Note, L2Done, L2Request, L1Receive, L1Report
  <2>2. \A f, c : AsMeant(f, c)' = AsMeant(f, c)
    BY <2>1 DEF AsMeant
  <2>3. \A list : FitList(list)' <=> FitList(list)
    BY <2>2 DEF FitList, Fit
  <2>4. ASSUME UNCHANGED inbox \/ inbox' = <<>> PROVE InboxFits'
    BY <1>2, <2>3, <2>4 DEF MeaningInv, InboxFits
  <2>5. ASSUME UNCHANGED ring \/ ring' = <<>> PROVE RequestsAsked'
    BY <1>2, <2>5 DEF MeaningInv, RequestsAsked
  <2>6. CASE L1Slot \/ L1Drop \/ L2Note \/ L2Done \/ UNCHANGED vars
    <3>1. UNCHANGED ring /\ (UNCHANGED inbox \/ inbox' = <<>>)
      BY <2>6 DEF L1Slot, L1Drop, L2Note, L2Done, vars
    <3> QED BY <2>4, <2>5, <3>1 DEF MeaningInv
  <2>7. CASE \E outcome \in [1 .. MaxUlPdus -> Outcomes] : L1Receive(outcome)
    <3>1. UNCHANGED ring /\ inbox' = <<>>
      BY <2>7 DEF L1Receive
    <3> QED BY <2>4, <2>5, <3>1 DEF MeaningInv
  <2>8. CASE \E msg \in DOMAIN Kinds, cut \in BOOLEAN : L1Report(msg, cut)
    <3>1. UNCHANGED <<ring, inbox>>
      BY <2>8 DEF L1Report
    <3> QED BY <2>4, <2>5, <3>1 DEF MeaningInv
  <2>9. CASE Forward
    <3>1. PICK m, req, out : m = ring[1].meant /\ req = ring[1].req /\ out = Translate(m.msg, req)
      OBVIOUS
    <3>2. /\ ring # <<>> /\ ring' = <<>>
          /\ inbox' = IF out = Nothing THEN <<>> ELSE <<[meant |-> m, got |-> out[1]]>>
      BY <2>9, <3>1 DEF Forward
    <3>3. Asked(m, req)
      BY <1>2, <3>1, <3>2 DEF MeaningInv, RequestsAsked
    <3>4. out # Nothing => FitList(out[1].pdus)
      BY <3>1, <3>3, TranslateFitted DEF Fitted
    <3>5. inbox' = <<>> \/ (out # Nothing /\ inbox'[1].got = out[1])
      BY <3>2
    <3>6. InboxFits'
      BY <2>3, <3>4, <3>5 DEF InboxFits
    <3> QED BY <2>5, <3>2, <3>6 DEF MeaningInv
  <2>10. ASSUME NEW msg \in DOMAIN Lists, NEW pdus \in Lists[msg],
                NEW how \in {"none", "invalid", "cut", "extra"}, L2Request(msg, pdus, how)
         PROVE  MeaningInv'
    <3>1. Asked(ring'[1].meant, ring'[1].req) /\ UNCHANGED inbox
      BY <2>10, AskedRequest DEF L2Request
    <3> QED BY <2>4, <3>1 DEF MeaningInv, RequestsAsked
  <2> QED BY <1>2, <2>6, <2>7, <2>8, <2>9, <2>10 DEF Next
<1>3. MeaningInv => ReadAsMeant
  BY FitsMean DEF MeaningInv
<1> QED BY <1>1, <1>2, <1>3, PTL DEF Spec
=============================================================================
