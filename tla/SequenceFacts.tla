--------------------------- MODULE SequenceFacts ---------------------------
(***************************************************************************)
(* What the proofs need to know of the sequences that model free lists,    *)
(* slot records, rings and queues: what an operation does to the indices,  *)
(* to the set of the elements (Range), to the absence of duplicates        *)
(* (IsInjective), and to which of the elements are of one kind (SomeIn).   *)
(* At the end, division and induction on the natural numbers, for what is  *)
(* defined by a recursive function.                                        *)
(***************************************************************************)
EXTENDS Integers, Sequences, FiniteSets, Functions,
        FiniteSetTheorems, SequenceTheorems, WellFoundedInduction, TLAPS

(* The elements of a sequence after one was put at its end.                *)
LEMMA AppendAt ==
    ASSUME NEW S, NEW s \in Seq(S), NEW x \in S
    PROVE  /\ DOMAIN s = 1 .. Len(s) /\ Len(s) \in Nat
           /\ DOMAIN Append(s, x) = 1 .. Len(s) + 1
           /\ Append(s, x)[Len(s) + 1] = x
           /\ \A i \in 1 .. Len(s) : Append(s, x)[i] = s[i] /\ i \in 1 .. Len(s) + 1
           /\ \A i \in 1 .. Len(s) + 1 : i \in 1 .. Len(s) \/ i = Len(s) + 1
<1>1. Append(s, x) \in Seq(S) /\ Len(Append(s, x)) = Len(s) + 1 /\ Len(s) \in Nat
  BY AppendProperties, LenProperties
<1>2. Append(s, x)[Len(s) + 1] = x /\ \A i \in 1 .. Len(s) : Append(s, x)[i] = s[i]
  BY AppendProperties
<1>3. DOMAIN s = 1 .. Len(s) /\ DOMAIN Append(s, x) = 1 .. Len(s) + 1
  BY <1>1, LenProperties
<1> QED BY <1>1, <1>2, <1>3

(* The elements of a sequence after the first was taken.                   *)
LEMMA TailAt ==
    ASSUME NEW S, NEW s \in Seq(S), s # <<>>
    PROVE  /\ DOMAIN s = 1 .. Len(s) /\ Len(s) \in Nat \ {0}
           /\ Tail(s) \in Seq(S) /\ Len(Tail(s)) = Len(s) - 1
           /\ DOMAIN Tail(s) = 1 .. Len(s) - 1
           /\ \A i \in 1 .. Len(s) - 1 : Tail(s)[i] = s[i + 1] /\ i + 1 \in 1 .. Len(s)
           /\ 1 \in DOMAIN s /\ Head(s) = s[1] /\ Head(s) \in S
<1>1. /\ Len(s) \in Nat /\ Len(s) # 0 /\ DOMAIN s = 1 .. Len(s)
      /\ Tail(s) \in Seq(S) /\ Len(Tail(s)) = Len(s) - 1
      /\ \A i \in 1 .. Len(s) - 1 : Tail(s)[i] = s[i + 1]
      /\ Head(s) = s[1] /\ Head(s) \in S
  BY EmptySeq, HeadTailProperties, LenProperties
<1>2. DOMAIN Tail(s) = 1 .. Len(s) - 1
  BY <1>1, LenProperties
<1> QED BY <1>1, <1>2

(* The head of a sequence without duplicates is not in the rest.           *)
LEMMA TailFacts ==
    ASSUME NEW S, NEW s \in Seq(S), s # <<>>
    PROVE  /\ Range(s) = Range(Tail(s)) \cup {Head(s)}
           /\ IsInjective(s) => IsInjective(Tail(s)) /\ Head(s) \notin Range(Tail(s))
<1> DEFINE t == Tail(s)
           n == Len(s)
<1>1. /\ DOMAIN s = 1 .. n /\ n \in Nat /\ n # 0
      /\ t \in Seq(S) /\ Len(t) = n - 1
      /\ \A i \in 1 .. n - 1 : t[i] = s[i + 1]
      /\ Head(s) = s[1]
  BY EmptySeq, HeadTailProperties, LenProperties
<1>2. DOMAIN t = 1 .. n - 1
  BY <1>1, LenProperties
<1> HIDE DEF t, n
<1>3. \A i \in 1 .. n - 1 : i + 1 \in 1 .. n /\ i + 1 # 1
  BY <1>1
<1>4. \A j \in 1 .. n : j = 1 \/ (j - 1 \in 1 .. n - 1 /\ s[j] = t[j - 1])
  BY <1>1
<1>5. 1 \in 1 .. n
  BY <1>1
<1>6. Range(s) = Range(t) \cup {s[1]}
  <2>1. ASSUME NEW x \in Range(t) PROVE x \in Range(s)
    <3> PICK i \in 1 .. n - 1 : x = t[i]
      BY <1>2 DEF Range
    <3>1. i + 1 \in 1 .. n /\ x = s[i + 1]
      BY <1>1, <1>3
    <3> QED BY <1>1, <3>1 DEF Range
  <2>2. ASSUME NEW x \in Range(s) PROVE x \in Range(t) \cup {s[1]}
    <3> PICK j \in 1 .. n : x = s[j]
      BY <1>1 DEF Range
    <3>1. x = s[1] \/ (j - 1 \in 1 .. n - 1 /\ x = t[j - 1])
      BY <1>4
    <3> QED BY <1>2, <3>1 DEF Range
  <2>3. s[1] \in Range(s)
    BY <1>1, <1>5 DEF Range
  <2> QED BY <2>1, <2>2, <2>3
<1>7. ASSUME IsInjective(s) PROVE IsInjective(t) /\ s[1] \notin Range(t)
  <2>1. \A i, j \in 1 .. n : s[i] = s[j] => i = j
    BY <1>1, <1>7 DEF IsInjective
  <2>2. ASSUME NEW i \in 1 .. n - 1, NEW j \in 1 .. n - 1, t[i] = t[j] PROVE i = j
    <3>1. i + 1 = j + 1
      BY <1>1, <1>3, <2>1, <2>2
    <3> QED BY <3>1
  <2>3. ASSUME NEW i \in 1 .. n - 1 PROVE t[i] # s[1]
    BY <1>1, <1>3, <1>5, <2>1
  <2> QED BY <1>2, <2>2, <2>3 DEF IsInjective, Range
<1> QED BY <1>1, <1>6, <1>7 DEF t

(* Popping the top of a stack removes exactly that element. *)
LEMMA PopFacts ==
    ASSUME NEW S, NEW s \in Seq(S), s # <<>>
    PROVE  LET t == SubSeq(s, 1, Len(s) - 1)
               x == s[Len(s)]
           IN  /\ t \in Seq(S)
               /\ Len(t) = Len(s) - 1
               /\ x \in S
               /\ Range(s) = Range(t) \cup {x}
               /\ IsInjective(s) => IsInjective(t) /\ x \notin Range(t)
<1> DEFINE t == SubSeq(s, 1, Len(s) - 1)
           x == s[Len(s)]
<1>0. Len(s) \in Nat /\ Len(s) > 0
  BY EmptySeq, LenProperties
<1>1. Len(s) \in Nat /\ Len(s) > 0 /\ DOMAIN s = 1 .. Len(s)
  BY <1>0, LenProperties
<1>2. /\ t \in Seq(S) /\ Len(t) = Len(s) - 1 /\ DOMAIN t = 1 .. Len(s) - 1
      /\ \A i \in 1 .. Len(s) - 1 : t[i] = s[i]
  <2>1. t \in Seq(S) /\ Len(t) = Len(s) - 1 /\ \A i \in 1 .. Len(s) - 1 : t[i] = s[i]
    BY <1>1, SubSeqProperties
  <2> QED BY <2>1, LenProperties
<1>3. x \in S
  BY <1>1, ElementOfSeq
<1>4. Range(s) = Range(t) \cup {x}
  <2>1. ASSUME NEW i \in 1 .. Len(s) PROVE i \in 1 .. Len(s) - 1 \/ i = Len(s)
    BY <1>0
  <2>2. 1 .. Len(s) - 1 \subseteq 1 .. Len(s) /\ Len(s) \in 1 .. Len(s)
    BY <1>0
  <2> HIDE DEF t
  <2> QED BY <1>1, <1>2, <2>1, <2>2 DEF Range
<1>5. ASSUME IsInjective(s) PROVE IsInjective(t) /\ x \notin Range(t)
  <2>1. \A i \in 1 .. Len(s) - 1 : i \in 1 .. Len(s) /\ i # Len(s)
    BY <1>0
  <2>2. Len(s) \in 1 .. Len(s)
    BY <1>0
  <2> HIDE DEF t
  <2> QED BY <1>1, <1>2, <1>5, <2>1, <2>2 DEF IsInjective, Range
<1> QED BY <1>2, <1>3, <1>4, <1>5

(* Appending a new element keeps a sequence free of duplicates. *)
LEMMA AppendFacts ==
    ASSUME NEW S, NEW s \in Seq(S), NEW x \in S
    PROVE  /\ Append(s, x) \in Seq(S)
           /\ Len(Append(s, x)) = Len(s) + 1
           /\ Range(Append(s, x)) = Range(s) \cup {x}
           /\ IsInjective(s) /\ x \notin Range(s) => IsInjective(Append(s, x))
<1> DEFINE t == Append(s, x)
<1>1. /\ t \in Seq(S) /\ Len(t) = Len(s) + 1 /\ t[Len(s) + 1] = x
      /\ \A i \in 1 .. Len(s) : t[i] = s[i]
  BY AppendProperties
<1>2. DOMAIN t = 1 .. Len(s) + 1 /\ DOMAIN s = 1 .. Len(s) /\ Len(s) \in Nat
  BY <1>1, LenProperties
<1>3. \A i \in 1 .. Len(s) + 1 : i \in 1 .. Len(s) \/ i = Len(s) + 1
  BY <1>2
<1>4. 1 .. Len(s) \subseteq 1 .. Len(s) + 1 /\ Len(s) + 1 \in 1 .. Len(s) + 1
  BY <1>2
<1> HIDE DEF t
<1>5. Range(t) = Range(s) \cup {x}
  BY <1>1, <1>2, <1>3, <1>4 DEF Range
<1>6. ASSUME IsInjective(s), x \notin Range(s) PROVE IsInjective(t)
  BY <1>1, <1>2, <1>3, <1>6 DEF IsInjective, Range
<1> QED BY <1>1, <1>5, <1>6 DEF t

(* Pushing a disjoint record onto the stack keeps it free of duplicates. *)
LEMMA ConcatFacts ==
    ASSUME NEW S, NEW s \in Seq(S), NEW t \in Seq(S)
    PROVE  /\ s \o t \in Seq(S)
           /\ Range(s \o t) = Range(s) \cup Range(t)
           /\ IsInjective(s) /\ IsInjective(t) /\ Range(s) \cap Range(t) = {}
                 => IsInjective(s \o t)
<1> DEFINE u == s \o t
           m == Len(s)
           n == Len(t)
<1>1. /\ u \in Seq(S) /\ Len(u) = m + n
      /\ \A i \in 1 .. m + n : u[i] = IF i <= m THEN s[i] ELSE t[i - m]
  BY ConcatProperties
<1>2. DOMAIN u = 1 .. m + n /\ DOMAIN s = 1 .. m /\ DOMAIN t = 1 .. n
  BY <1>1, LenProperties
<1>3. m \in Nat /\ n \in Nat
  BY LenProperties
<1>4. Range(u) = Range(s) \cup Range(t)
  BY RangeConcatenation
<1>5. ASSUME IsInjective(s), IsInjective(t), Range(s) \cap Range(t) = {}
      PROVE  IsInjective(u)
  <2> HIDE DEF u, m, n
  <2>1. \A i \in 1 .. m + n : \/ i \in 1 .. m /\ u[i] = s[i]
                              \/ i - m \in 1 .. n /\ u[i] = t[i - m]
    BY <1>1, <1>3
  <2>2. \A i \in 1 .. m : s[i] \in Range(s)
    BY <1>2 DEF Range
  <2>3. \A i \in 1 .. n : t[i] \in Range(t)
    BY <1>2 DEF Range
  <2>4. \A i, j \in 1 .. m : s[i] = s[j] => i = j
    BY <1>2, <1>5 DEF IsInjective
  <2>5. \A i, j \in 1 .. n : t[i] = t[j] => i = j
    BY <1>2, <1>5 DEF IsInjective
  <2>6. ASSUME NEW a \in 1 .. m + n, NEW b \in 1 .. m + n, u[a] = u[b]
        PROVE  a = b
    <3>1. CASE a \in 1 .. m /\ u[a] = s[a] /\ b \in 1 .. m /\ u[b] = s[b]
      BY <2>4, <2>6, <3>1
    <3>2. CASE a - m \in 1 .. n /\ u[a] = t[a - m] /\ b - m \in 1 .. n /\ u[b] = t[b - m]
      <4>1. a - m = b - m
        BY <2>5, <2>6, <3>2
      <4> QED BY <1>3, <4>1
    <3>3. CASE a \in 1 .. m /\ u[a] = s[a] /\ b - m \in 1 .. n /\ u[b] = t[b - m]
      BY <1>5, <2>2, <2>3, <2>6, <3>3
    <3>4. CASE a - m \in 1 .. n /\ u[a] = t[a - m] /\ b \in 1 .. m /\ u[b] = s[b]
      BY <1>5, <2>2, <2>3, <2>6, <3>4
    <3> QED BY <2>1, <3>1, <3>2, <3>3, <3>4
  <2> QED BY <1>2, <2>6 DEF IsInjective
<1> QED BY <1>1, <1>4, <1>5

(* The empty sequence. *)
LEMMA EmptyFacts ==
    ASSUME NEW S
    PROVE  /\ <<>> \in Seq(S)
           /\ Len(<<>>) = 0
           /\ Range(<<>>) = {}
           /\ IsInjective(<<>>)
<1>1. <<>> \in Seq(S) /\ Len(<<>>) = 0
  BY EmptySeq
<1>2. DOMAIN <<>> = {}
  BY <1>1, LenProperties
<1> QED BY <1>1, <1>2 DEF Range, IsInjective

-----------------------------------------------------------------------------
(* A member of R is in s, and no more than one is.                         *)
SomeIn(s, R)      == \E i \in DOMAIN s : s[i] \in R
AtMostOneIn(s, R) == \A i, j \in DOMAIN s : s[i] \in R /\ s[j] \in R => i = j

(* The empty sequence holds nothing.                                       *)
LEMMA NoneInEmpty == \A R : ~SomeIn(<<>>, R) /\ AtMostOneIn(<<>>, R)
<1>1. DOMAIN <<>> = {}
  OBVIOUS
<1> QED BY <1>1 DEF SomeIn, AtMostOneIn

(* Holding a member of a set, and of a larger one.                         *)
LEMMA NoneInMore ==
    ASSUME NEW s
    PROVE  /\ \A Q, R : Q \subseteq R /\ ~SomeIn(s, R) => ~SomeIn(s, Q)
           /\ \A R : ~SomeIn(s, R) => AtMostOneIn(s, R)
BY DEF SomeIn, AtMostOneIn

(* What a sequence holds after its end got x.                              *)
LEMMA InAppended ==
    ASSUME NEW S, NEW s \in Seq(S), NEW x \in S
    PROVE  /\ Append(s, x) \in Seq(S)
           /\ \A R : SomeIn(Append(s, x), R) <=> SomeIn(s, R) \/ x \in R
           /\ \A R : AtMostOneIn(s, R) /\ ~(SomeIn(s, R) /\ x \in R) => AtMostOneIn(Append(s, x), R)
<1> PICK t : t = Append(s, x)
  OBVIOUS
<1> PICK n : n = Len(s)
  OBVIOUS
<1>1. /\ DOMAIN s = 1 .. n /\ n \in Nat /\ DOMAIN t = 1 .. n + 1 /\ t[n + 1] = x
      /\ \A i \in 1 .. n : t[i] = s[i] /\ i \in 1 .. n + 1
      /\ \A i \in 1 .. n + 1 : i \in 1 .. n \/ i = n + 1
  BY AppendAt
<1>2. n + 1 \in 1 .. n + 1
  BY <1>1
<1>3. ASSUME NEW R PROVE SomeIn(t, R) <=> SomeIn(s, R) \/ x \in R
  BY <1>1, <1>2 DEF SomeIn
<1>4. ASSUME NEW R, AtMostOneIn(s, R), ~(SomeIn(s, R) /\ x \in R) PROVE AtMostOneIn(t, R)
  <2>1. ASSUME NEW i \in 1 .. n, s[i] \in R PROVE x \notin R
    BY <1>1, <1>4, <2>1 DEF SomeIn
  <2> QED BY <1>1, <1>4, <2>1 DEF AtMostOneIn
<1>5. t \in Seq(S)
  BY AppendProperties
<1> QED BY <1>3, <1>4, <1>5

(* What it holds after its first was taken.                                *)
LEMMA InTail ==
    ASSUME NEW S, NEW s \in Seq(S), s # <<>>
    PROVE  /\ Tail(s) \in Seq(S) /\ Head(s) \in S
           /\ \A R : SomeIn(s, R) <=> Head(s) \in R \/ SomeIn(Tail(s), R)
           /\ \A R : AtMostOneIn(s, R) => /\ AtMostOneIn(Tail(s), R)
                                       /\ ~(Head(s) \in R /\ SomeIn(Tail(s), R))
<1> PICK t : t = Tail(s)
  OBVIOUS
<1> PICK n : n = Len(s)
  OBVIOUS
<1>1. /\ DOMAIN s = 1 .. n /\ n \in Nat \ {0} /\ t \in Seq(S) /\ DOMAIN t = 1 .. n - 1
      /\ \A i \in 1 .. n - 1 : t[i] = s[i + 1] /\ i + 1 \in 1 .. n
      /\ 1 \in DOMAIN s /\ Head(s) = s[1] /\ Head(s) \in S
  BY TailAt
<1>2. \A i \in 1 .. n : i = 1 \/ (i - 1 \in 1 .. n - 1 /\ (i - 1) + 1 = i)
  BY <1>1
<1>3. ASSUME NEW R PROVE SomeIn(s, R) <=> s[1] \in R \/ SomeIn(t, R)
  <2>1. ASSUME NEW i \in 1 .. n, s[i] \in R PROVE s[1] \in R \/ SomeIn(t, R)
    <3>1. CASE i = 1
      BY <2>1, <3>1
    <3>2. CASE i - 1 \in 1 .. n - 1 /\ (i - 1) + 1 = i
      <4>1. t[i - 1] = s[i]
        BY <1>1, <3>2
      <4> QED BY <1>1, <2>1, <3>2, <4>1 DEF SomeIn
    <3> QED BY <1>2, <3>1, <3>2
  <2>2. SomeIn(t, R) => SomeIn(s, R)
    BY <1>1 DEF SomeIn
  <2>3. s[1] \in R => SomeIn(s, R)
    BY <1>1 DEF SomeIn
  <2>4. SomeIn(s, R) => s[1] \in R \/ SomeIn(t, R)
    BY <1>1, <2>1 DEF SomeIn
  <2> QED BY <2>2, <2>3, <2>4
<1>4. ASSUME NEW R, AtMostOneIn(s, R) PROVE AtMostOneIn(t, R) /\ ~(s[1] \in R /\ SomeIn(t, R))
  <2>1. ASSUME NEW i \in 1 .. n - 1, NEW j \in 1 .. n - 1, t[i] \in R, t[j] \in R PROVE i = j
    <3>1. i + 1 = j + 1
      BY <1>1, <1>4, <2>1 DEF AtMostOneIn
    <3> QED BY <3>1
  <2>2. ASSUME NEW i \in 1 .. n - 1, t[i] \in R, s[1] \in R PROVE FALSE
    <3>1. i + 1 = 1
      BY <1>1, <1>4, <2>2 DEF AtMostOneIn
    <3> QED BY <3>1
  <2>3. AtMostOneIn(t, R)
    BY <1>1, <2>1 DEF AtMostOneIn
  <2>4. ~(s[1] \in R /\ SomeIn(t, R))
    BY <1>1, <2>2 DEF SomeIn
  <2> QED BY <2>3, <2>4
<1> QED BY <1>1, <1>3, <1>4

(* What is in R stands at the end; nothing in R stands behind one in Q.    *)
OnlyLast(s, R)      == \A i \in DOMAIN s : s[i] \in R => i = Len(s)
NoneBehind(s, Q, R) == \A i, j \in DOMAIN s : s[i] \in Q /\ i < j => s[j] \notin R

(* The order after x was put at the end.                                   *)
LEMMA OrderAppended ==
    ASSUME NEW S, NEW s \in Seq(S), NEW x \in S
    PROVE  /\ \A R : ~SomeIn(s, R) => OnlyLast(Append(s, x), R)
           /\ \A Q, R : NoneBehind(s, Q, R) /\ ~(SomeIn(s, Q) /\ x \in R)
                       => NoneBehind(Append(s, x), Q, R)
<1> PICK t : t = Append(s, x)
  OBVIOUS
<1> PICK n : n = Len(s)
  OBVIOUS
<1>1. /\ DOMAIN s = 1 .. n /\ n \in Nat /\ DOMAIN t = 1 .. n + 1 /\ t[n + 1] = x
      /\ \A i \in 1 .. n : t[i] = s[i] /\ i \in 1 .. n + 1
      /\ \A i \in 1 .. n + 1 : i \in 1 .. n \/ i = n + 1
  BY AppendAt
<1>2. Len(t) = n + 1
  BY AppendProperties
<1>3. ASSUME NEW R, ~SomeIn(s, R) PROVE OnlyLast(t, R)
  BY <1>1, <1>2, <1>3 DEF OnlyLast, SomeIn
<1>4. ASSUME NEW Q, NEW R, NoneBehind(s, Q, R), ~(SomeIn(s, Q) /\ x \in R)
      PROVE  NoneBehind(t, Q, R)
  <2> SUFFICES ASSUME NEW i \in 1 .. n + 1, NEW j \in 1 .. n + 1, t[i] \in Q, i < j
               PROVE  t[j] \notin R
    BY <1>1 DEF NoneBehind
  <2>1. i \in 1 .. n
    BY <1>1
  <2>2. s[i] \in Q
    BY <1>1, <2>1
  <2>3. CASE j \in 1 .. n
    <3>1. s[j] \notin R
      BY <1>1, <1>4, <2>1, <2>2, <2>3 DEF NoneBehind
    <3> QED BY <1>1, <2>3, <3>1
  <2>4. CASE j = n + 1
    <3>1. x \notin R
      BY <1>1, <1>4, <2>1, <2>2 DEF SomeIn
    <3> QED BY <1>1, <2>4, <3>1
  <2> QED BY <1>1, <2>3, <2>4
<1> QED BY <1>3, <1>4

(* What was last is last after the first was taken, unless it was that.    *)
LEMMA LastInTail ==
    ASSUME NEW S, NEW s \in Seq(S), s # <<>>, NEW R, OnlyLast(s, R)
    PROVE  OnlyLast(Tail(s), R) /\ (Head(s) \in R => Tail(s) = <<>>)
<1> PICK t : t = Tail(s)
  OBVIOUS
<1> PICK n : n = Len(s)
  OBVIOUS
<1>1. /\ DOMAIN s = 1 .. n /\ n \in Nat \ {0} /\ t \in Seq(S) /\ DOMAIN t = 1 .. n - 1
      /\ Len(t) = n - 1
      /\ \A i \in 1 .. n - 1 : t[i] = s[i + 1] /\ i + 1 \in 1 .. n
      /\ 1 \in 1 .. n /\ Head(s) = s[1]
  BY TailAt
<1>2. ASSUME NEW i \in 1 .. n - 1, t[i] \in R PROVE i = n - 1
  <2>1. i + 1 = n
    BY <1>1, <1>2 DEF OnlyLast
  <2> QED BY <2>1
<1>3. s[1] \in R => n = 1
  BY <1>1 DEF OnlyLast
<1>4. n = 1 => t = <<>>
  BY <1>1, EmptySeq
<1> QED BY <1>1, <1>2, <1>3, <1>4 DEF OnlyLast

(* The order behind the first is what it was.                              *)
LEMMA BehindInTail ==
    ASSUME NEW S, NEW s \in Seq(S), s # <<>>, NEW Q, NEW R, NoneBehind(s, Q, R)
    PROVE  NoneBehind(Tail(s), Q, R) /\ (Head(s) \in Q => ~SomeIn(Tail(s), R))
<1> PICK t : t = Tail(s)
  OBVIOUS
<1> PICK n : n = Len(s)
  OBVIOUS
<1>1. /\ DOMAIN s = 1 .. n /\ n \in Nat \ {0} /\ DOMAIN t = 1 .. n - 1
      /\ \A i \in 1 .. n - 1 : t[i] = s[i + 1] /\ i + 1 \in 1 .. n
      /\ 1 \in 1 .. n /\ Head(s) = s[1]
  BY TailAt
<1>2. ASSUME NEW i \in 1 .. n - 1, NEW j \in 1 .. n - 1, t[i] \in Q, i < j
      PROVE  t[j] \notin R
  <2>1. i + 1 < j + 1
    BY <1>2
  <2> QED BY <1>1, <1>2, <2>1 DEF NoneBehind
<1>3. ASSUME NEW j \in 1 .. n - 1, s[1] \in Q PROVE t[j] \notin R
  <2>1. 1 < j + 1
    OBVIOUS
  <2> QED BY <1>1, <1>3, <2>1 DEF NoneBehind
<1>4. NoneBehind(t, Q, R)
  BY <1>1, <1>2 DEF NoneBehind
<1>5. s[1] \in Q => ~SomeIn(t, R)
  BY <1>1, <1>3 DEF SomeIn
<1> QED BY <1>1, <1>4, <1>5

(* The empty sequence is in any order.                                     *)
LEMMA OrderEmpty == \A Q, R : OnlyLast(<<>>, Q) /\ NoneBehind(<<>>, Q, R)
<1>1. DOMAIN <<>> = {}
  OBVIOUS
<1> QED BY <1>1 DEF OnlyLast, NoneBehind

(* A sequence over a set is one over any larger set.                       *)
LEMMA SeqMonotone == ASSUME NEW S, NEW T, S \subseteq T PROVE Seq(S) \subseteq Seq(T)
<1> SUFFICES ASSUME NEW s \in Seq(S) PROVE s \in Seq(T)
  OBVIOUS
<1>1. s \in [1 .. Len(s) -> S] /\ Len(s) \in Nat
  OBVIOUS
<1> QED BY <1>1

(* The places of a sequence and what is there.                             *)
LEMMA SeqFacts ==
    ASSUME NEW S, NEW s \in Seq(S)
    PROVE  DOMAIN s = 1 .. Len(s) /\ Len(s) \in Nat /\ \A j \in DOMAIN s : s[j] \in S
OBVIOUS

-----------------------------------------------------------------------------
(* Numbers: division, and induction over a set of them.                    *)

(* A multiple of P that is smaller than P is 0.                            *)
LEMMA SmallMultiple == ASSUME NEW P \in Nat \ {0}, NEW d \in Int, P * d < P, -P < P * d PROVE d = 0
<1>1. CASE d >= 1
  <2>1. P * d = P * (d - 1) + P
    OBVIOUS
  <2>2. P * (d - 1) >= 0
    BY <1>1
  <2> QED BY <2>1, <2>2
<1>2. CASE d <= -1
  <2>1. P * d = P * (d + 1) - P
    OBVIOUS
  <2>2. P * (d + 1) <= 0
    BY <1>2
  <2> QED BY <2>1, <2>2
<1> QED BY <1>1, <1>2

(* Quotient and remainder.                                                 *)
LEMMA Division ==
    ASSUME NEW P \in Nat \ {0}, NEW x \in Nat
    PROVE  x = P * (x \div P) + (x % P) /\ x % P \in 0 .. P - 1 /\ x \div P \in Nat
OBVIOUS

(* Quotient and remainder are unique.                                      *)
LEMMA DivisionUnique ==
    ASSUME NEW P \in Nat \ {0}, NEW x \in Nat, NEW k \in Int, NEW r \in Nat, r < P, x = P * k + r
    PROVE  x % P = r /\ x \div P = k
<1> PICK k2, r2 : k2 = x \div P /\ r2 = x % P OBVIOUS
<1>1. k2 \in Int /\ r2 \in Nat /\ r2 < P /\ x = P * k2 + r2
  <2>1. k2 \in Nat /\ r2 \in 0 .. P - 1
    BY Division
  <2>2. x = P * k2 + r2
    BY Division, Zenon
  <2> QED BY <2>1, <2>2
<1>2. P * (k2 - k) = P * k2 - P * k
  BY <1>1
<1>3. P * (k2 - k) < P /\ -P < P * (k2 - k)
  BY <1>1, <1>2
<1>4. k2 - k = 0
  <2>1. k2 - k \in Int
    BY <1>1
  <2> QED BY <1>3, <2>1, SmallMultiple
<1> QED BY <1>1, <1>4

(* Induction on the natural numbers, for a set of them.                    *)
LEMMA SetInduction ==
    ASSUME NEW S \in SUBSET Nat, 0 \in S, \A n \in S : n + 1 \in S
    PROVE  S = Nat
<1> DEFINE T == Nat \ S
<1> SUFFICES ASSUME T # {} PROVE FALSE
  OBVIOUS
<1>1. IsWellFoundedOn(OpToRel(<, Nat), Nat)
  BY NatLessThanWellFounded
<1>2. PICK x \in T : \A y \in T : ~(<<y, x>> \in OpToRel(<, Nat))
  BY <1>1, WFMin
<1>3. x # 0 /\ x - 1 \in Nat
  OBVIOUS
<1>4. x - 1 \notin S
  BY <1>3
<1>5. <<x - 1, x>> \in OpToRel(<, Nat)
  BY <1>3 DEF OpToRel
<1> QED BY <1>2, <1>3, <1>4, <1>5

(* Starting from b, n steps lead somewhere.                                *)
CanStep(X, n, b, step) == n \in Nat /\ b \in X /\ step \in [Nat -> [X -> X]]
Steps(f, X, n, b, step) ==
    /\ f[0] = b /\ \A i \in 0 .. n : f[i] \in X
    /\ \A i \in 0 .. n - 1 : f[i + 1] = step[i][f[i]]

(* Some sequence of values begins with b and takes the n steps.            *)
LEMMA Iteration ==
    ASSUME NEW X, NEW n, NEW b, NEW step, CanStep(X, n, b, step)
    PROVE  \E f : Steps(f, X, n, b, step)
<1> USE DEF CanStep
<1> DEFINE Good(m, f) == /\ f[0] = b /\ \A i \in 0 .. m : f[i] \in X
                         /\ \A i \in 0 .. m - 1 : f[i + 1] = step[i][f[i]]
           S == {m \in Nat : m <= n => \E f : Good(m, f)}
<1>1. Good(0, [i \in 0 .. 0 |-> b])
  OBVIOUS
<1>2. ASSUME NEW m \in Nat, m + 1 <= n, NEW f, Good(m, f) PROVE \E g : Good(m + 1, g)
  <2> DEFINE g == [i \in 0 .. m + 1 |-> IF i <= m THEN f[i] ELSE step[m][f[m]]]
  <2>1. step[m][f[m]] \in X
    BY <1>2
  <2>2. g[0] = b /\ \A i \in 0 .. m + 1 : g[i] \in X
    BY <1>2, <2>1
  <2>3. ASSUME NEW i \in 0 .. m + 1 - 1 PROVE g[i + 1] = step[i][g[i]]
    <3>1. CASE i < m
      BY <1>2, <3>1
    <3>2. CASE i = m
      BY <1>2, <3>2
    <3> QED BY <3>1, <3>2
  <2>4. Good(m + 1, g)
    <3> HIDE DEF g
    <3> QED BY <2>2, <2>3
  <2> QED BY <2>4
<1>3. S = Nat
  <2> HIDE DEF Good
  <2>1. S \in SUBSET Nat /\ 0 \in S
    BY <1>1
  <2>2. ASSUME NEW m \in S PROVE m + 1 \in S
    <3>1. m \in Nat /\ (m <= n => \E f : Good(m, f))
      OBVIOUS
    <3>2. m + 1 <= n => \E f : Good(m + 1, f)
      BY <3>1, <1>2
    <3> QED BY <3>1, <3>2
  <2> HIDE DEF S
  <2> QED BY <2>1, <2>2, SetInduction
<1>4. n \in Nat /\ n <= n
  OBVIOUS
<1>5. \E f : Good(n, f)
  <2> HIDE DEF Good
  <2> QED BY <1>3, <1>4
<1> QED BY <1>5 DEF Steps

(* Two sequences of steps that agree at first and then go on alike.        *)
Alike(f, g, a, c) == /\ a \in Nat /\ c \in Nat /\ f[a] = g[a]
                     /\ \A i \in a .. c - 1 : f[i] = g[i] => f[i + 1] = g[i + 1]

(* Two sequences that are alike agree as far as they are.                  *)
LEMMA Agreement ==
    ASSUME NEW a, NEW c, NEW f, NEW g, Alike(f, g, a, c)
    PROVE  \A i \in a .. c : f[i] = g[i]
<1> USE DEF Alike
<1> DEFINE S == {m \in Nat : a + m <= c => f[a + m] = g[a + m]}
<1>0. S \in SUBSET Nat
  OBVIOUS
<1>1. 0 \in S
  OBVIOUS
<1>2. ASSUME NEW m \in S PROVE m + 1 \in S
  <2> SUFFICES ASSUME a + (m + 1) <= c PROVE f[a + (m + 1)] = g[a + (m + 1)]
    OBVIOUS
  <2>1. a + m \in a .. c - 1 /\ a + (m + 1) = (a + m) + 1
    OBVIOUS
  <2>2. f[a + m] = g[a + m]
    BY <2>1
  <2> QED BY <2>1, <2>2
<1>3. S = Nat
  <2> HIDE DEF S
  <2> QED BY <1>0, <1>1, <1>2, SetInduction
<1> TAKE i \in a .. c
<1>4. i - a \in Nat /\ a + (i - a) = i /\ i <= c
  OBVIOUS
<1>5. i - a \in S
  BY <1>3, <1>4
<1> QED BY <1>4, <1>5
=============================================================================
