------------------------- MODULE CellBringupProofs -------------------------
(***************************************************************************)
(* Proofs about CellBringup for every set of configurations, every number  *)
(* of buffers and every capacity of the rings and of the nvIPC queues: no  *)
(* buffer is lost on a failed send or twice given back, nothing is used    *)
(* after it was closed, and the cell that runs is the one asked for.       *)
(*                                                                         *)
(* The first two do not depend on what the messages say, so that Inv only  *)
(* has their number.  Two parts carry the argument: Quiet, since a start   *)
(* that fails ends the threads wherever they are, and Phases, the order in *)
(* which app_destroy waits for them.                                       *)
(*                                                                         *)
(* The third has two halves: config_request.c keeps what a configuration   *)
(* means (ConfigRequestKeepsCell, arithmetic), and L2, the translation and *)
(* Aerial have one and the same configuration once the cell starts (Cell), *)
(* because only one request at a time is under way that could change it,   *)
(* and nothing L2 asked for is behind it.                                  *)
(***************************************************************************)
EXTENDS CellBringup, SequenceFacts

(* A sequence, of whatever values. *)
Listed(s) == s \in Seq({s[i] : i \in DOMAIN s})

(* A thread, at one of some places, with whatever message. *)
At(thread, pcs) == thread = [pc |-> thread.pc, msg |-> thread.msg] /\ thread.pc \in pcs

FwdPlaces == {"off", "get", "forward", "return", "exited"}
NvPlaces  == {"attach", "wait", "drain", "acquire", "put", "exited"}

Shape ==
    /\ main \in {"init", "up", "join_fwd", "join_nv", "stopped"}
    /\ At(fwd, FwdPlaces) /\ At(nv, NvPlaces)
    /\ Listed(down) /\ Listed(up)
    /\ free \in Nat /\ reading \in Nat /\ leaked \in Nat

(* Until the forwarder runs nothing reaches Aerial, so that it says        *)
(* nothing and the nvIPC thread holds no buffer.                           *)
Quiet ==
    main = "init" =>
        /\ fwd.pc = "off" /\ nvRunning = TRUE
        /\ nv.pc \in {"attach", "wait", "exited"}
        /\ toAerial = <<>> /\ fromAerial = <<>> /\ ~aerial.on

(* How far app_destroy is. *)
Phases ==
    /\ main \in {"join_nv", "stopped"} => fwd.pc = "exited"
    /\ main = "stopped" => nv.pc = "exited"
    /\ ipc = "freed" \/ xsm = "closed" => main = "stopped"

Inv == Shape /\ BufferAccounting /\ Quiet /\ Phases

-----------------------------------------------------------------------------
(* A listed sequence has a length.                                         *)
LEMMA ListedLen ==
    ASSUME NEW s, Listed(s)
    PROVE  Len(s) \in Nat
BY LenProperties DEF Listed

(* A sequence of anything is listed.                                       *)
LEMMA ListedSeq ==
    ASSUME NEW S, NEW s \in Seq(S)
    PROVE  Listed(s)
<1> DEFINE T == {s[i] : i \in DOMAIN s}
           n == Len(s)
<1>1. n \in Nat /\ s \in [1 .. n -> S]
  BY LenProperties
<1>2. \A i \in 1 .. n : s[i] \in T
  BY <1>1
<1>3. s \in [1 .. n -> T]
  BY <1>1, <1>2
<1> HIDE DEF T, n
<1>4. s \in Seq(T)
  BY <1>1, <1>3, SeqDef
<1> QED BY <1>4 DEF Listed, T

(* Putting a message into a ring: one more.                                *)
LEMMA ListedAppend ==
    ASSUME NEW s, Listed(s), NEW m
    PROVE  Listed(Append(s, m)) /\ Len(Append(s, m)) = Len(s) + 1
<1> DEFINE S == {s[i] : i \in DOMAIN s}
           T == S \cup {m}
<1>1. s \in Seq(S)
  BY DEF Listed
<1> HIDE DEF S
<1>2. s \in Seq(T) /\ m \in T
  BY <1>1, SeqMonotonic
<1> QED BY <1>2, AppendProperties, ListedSeq

(* Taking one out: one less.                                               *)
LEMMA ListedTail ==
    ASSUME NEW s, Listed(s), s # <<>>
    PROVE  /\ Listed(Tail(s)) /\ Len(Tail(s)) \in Nat
           /\ Len(s) = Len(Tail(s)) + 1
<1> DEFINE S == {s[i] : i \in DOMAIN s}
<1>1. s \in Seq(S)
  BY DEF Listed
<1> HIDE DEF S
<1>2. Tail(s) \in Seq(S) /\ Len(Tail(s)) = Len(s) - 1 /\ Len(s) \in Nat
  BY <1>1, HeadTailProperties, LenProperties
<1>3. Listed(Tail(s)) /\ Len(Tail(s)) \in Nat
  BY <1>2, ListedSeq, ListedLen
<1> QED BY <1>2, <1>3

-----------------------------------------------------------------------------
(* The invariant holds before either side has started.                     *)
LEMMA BringupInit == Init => Inv
<1>1. Listed(<<>>) /\ Len(<<>>) = 0
  BY EmptySeq DEF Listed
<1> QED
  BY BringupAssumption, <1>1
  DEF Init, Inv, Shape, At, FwdPlaces, NvPlaces, Fwd, Nv, BufferAccounting, Holds,
       Quiet, Phases

(* The forwarder holds the buffer of the request it took until it gives it *)
(* back; nothing else depends on whether nvIPC takes the request.          *)
LEMMA ForwarderStep ==
    ASSUME Inv, Forwarder
    PROVE  Inv'
<1> USE DEF Inv, Shape, At, FwdPlaces, NvPlaces, Fwd, BufferAccounting, Holds, Quiet, Phases
<1>0. main # "init" /\ main \notin {"join_nv", "stopped"}
  BY DEF Forwarder, FwdGet, FwdNoAddress, FwdSend, FwdConfig, FwdReturn, FwdExit
<1>1. CASE FwdGet
  BY <1>0, <1>1, ListedTail, ListedLen DEF FwdGet, mainVars, nvVars, airVars
<1>2. CASE FwdNoAddress
  <2>1. Len(down) \in Nat /\ Len(up) \in Nat
    BY ListedLen
  <2>2. PICK n \in Nat : n = Len(down') /\ Len(down) = n + 1 /\ Listed(down')
    BY <1>2, ListedTail DEF FwdNoAddress
  <2>3. /\ free' = free /\ up' = up /\ reading' = reading /\ leaked' = leaked + 1
        /\ fwd' = fwd /\ nv' = nv
    BY <1>2 DEF FwdNoAddress, nvVars
  <2>4. BufferAccounting'
    <3>1. free \in Nat /\ reading \in Nat /\ leaked \in Nat /\ Len(up) \in Nat
      BY <2>1
    <3>2. Buffers = free + (n + 1) + Len(up) + reading + leaked
                    + Holds(fwd, {"forward", "return"}) + Holds(nv, {"put"})
      BY <2>2
    <3>3. PICK h \in Nat, k \in Nat :
              h = Holds(fwd, {"forward", "return"}) /\ k = Holds(nv, {"put"})
      OBVIOUS
    <3>4. Buffers = free + (n + 1) + Len(up) + reading + leaked + h + k
      BY <3>2, <3>3
    <3>5. Buffers = free + n + Len(up) + reading + (leaked + 1) + h + k
      <4> HIDE DEF Inv, Shape, At, FwdPlaces, NvPlaces, Fwd, BufferAccounting, Holds, Quiet, Phases
      <4> QED BY <3>4, <3>1
    <3>6. Buffers = free' + Len(down') + Len(up') + reading' + leaked'
                    + Holds(fwd', {"forward", "return"}) + Holds(nv', {"put"})
      <4> HIDE DEF Holds
      <4> QED BY <3>5, <2>3, <2>2, <3>3
    <3> QED BY <3>6
  <2>5. Shape' /\ Quiet' /\ Phases'
    BY <1>0, <1>2, <2>2, <2>3 DEF FwdNoAddress, mainVars, nvVars
  <2> QED BY <2>4, <2>5
<1>3. CASE FwdSend
  BY <1>0, <1>3, ListedLen DEF FwdSend, Forwarded, mainVars, nvVars, xsmVars
<1>4. CASE FwdConfig
  BY <1>0, <1>4, ListedLen DEF FwdConfig, Forwarded, mainVars, nvVars, xsmVars
<1>5. CASE FwdReturn
  <2>1. Len(down) \in Nat /\ Len(up) \in Nat
    BY ListedLen
  <2>2. BufferAccounting'
    BY <1>0, <1>5, <2>1 DEF FwdReturn, mainVars, nvVars, airVars
  <2>3. Shape' /\ Quiet' /\ Phases'
    BY <1>0, <1>5 DEF FwdReturn, mainVars, nvVars, airVars
  <2> QED BY <2>2, <2>3
<1>6. CASE FwdExit
  BY <1>0, <1>6, ListedLen DEF FwdExit, mainVars, nvVars, xsmVars, airVars
<1> QED BY <1>1, <1>2, <1>3, <1>4, <1>5, <1>6 DEF Forwarder

(* The nvIPC thread holds a buffer from aerial_l2_xsm_put's XSM_GetBuffer  *)
(* to its XSM_Put or XSM_ReturnBuffer.                                     *)
LEMMA NvStep ==
    ASSUME Inv, NvAttach \/ NvRun
    PROVE  Inv'
<1> USE DEF Inv, Shape, At, FwdPlaces, NvPlaces, Nv, NvLoop, BufferAccounting, Holds, Quiet,
            Phases
<1>0. main # "stopped"
  BY DEF NvAttach, NvRun, NvNotThere, NvIdle, NvHandle, Received, NvAcquire, NvNoBuffer,
         NvPut, NvPutFails
<1>1. CASE NvAttach
  BY <1>0, <1>1, ListedLen DEF NvAttach, mainVars, xsmVars, airVars
<1>2. CASE NvNotThere
  BY <1>0, <1>2, ListedLen DEF NvNotThere, mainVars, xsmVars, airVars
<1>3. CASE NvIdle
  BY <1>0, <1>3, ListedLen DEF NvIdle, mainVars, xsmVars, airVars
<1>4. CASE NvHandle
  BY <1>0, <1>4, ListedLen DEF NvHandle, Received, mainVars, xsmVars
<1>5. CASE NvAcquire
  <2>1. Len(down) \in Nat /\ Len(up) \in Nat
    BY ListedLen
  <2>2. BufferAccounting'
    BY <1>0, <1>5, <2>1 DEF NvAcquire, mainVars, airVars
  <2>3. Shape' /\ Quiet' /\ Phases'
    BY <1>0, <1>5 DEF NvAcquire, mainVars, airVars
  <2> QED BY <2>2, <2>3
<1>6. CASE NvNoBuffer
  BY <1>0, <1>6, ListedLen DEF NvNoBuffer, mainVars, xsmVars, airVars
<1>7. CASE NvPut
  <2>1. Len(down) \in Nat /\ Len(up) \in Nat
    BY ListedLen
  <2>2. /\ nv.pc = "put" /\ nv'.pc = "drain" /\ up' = Append(up, nv.msg)
        /\ UNCHANGED <<fwd, down, free, reading, leaked>>
    BY <1>7 DEF NvPut
  <2>3. Listed(up') /\ Len(up') = Len(up) + 1
    BY <2>2, ListedAppend
  <2>4. BufferAccounting'
    BY <2>1, <2>2, <2>3, SMTT(60)
  <2>5. Shape' /\ Quiet' /\ Phases'
    BY <1>0, <1>7, <2>3 DEF NvPut, mainVars, airVars
  <2> QED BY <2>4, <2>5
<1>8. CASE NvPutFails
  <2>1. Len(down) \in Nat /\ Len(up) \in Nat
    BY ListedLen
  <2>2. /\ nv.pc = "put" /\ nv'.pc = "drain" /\ free' = free + 1
        /\ UNCHANGED <<fwd, down, up, reading, leaked>>
    BY <1>8 DEF NvPutFails
  <2>3. BufferAccounting'
    BY <2>1, <2>2, SMTT(60)
  <2>4. Shape' /\ Quiet' /\ Phases'
    BY <1>0, <1>8 DEF NvPutFails, mainVars, airVars
  <2> QED BY <2>3, <2>4
<1> QED BY <1>1, <1>2, <1>3, <1>4, <1>5, <1>6, <1>7, <1>8 DEF NvRun

(* app_init and app_destroy.                                               *)
LEMMA MainStep ==
    ASSUME Inv, Main \/ Stop
    PROVE  Inv'
<1> USE DEF Inv, Shape, At, FwdPlaces, NvPlaces, Fwd, Nv, BufferAccounting, Holds, Quiet,
            Phases
<1>1. CASE StartForwarder
  BY <1>1, ListedLen DEF StartForwarder, nvVars, xsmVars, airVars
<1>2. CASE StartFails
  BY <1>2, ListedLen DEF StartFails, xsmVars, airVars
<1>3. CASE JoinForwarder
  BY <1>3, ListedLen DEF JoinForwarder, xsmVars, airVars
<1>4. CASE JoinNv
  BY <1>4, ListedLen DEF JoinNv, xsmVars, airVars
<1>5. CASE Stop
  BY <1>5, ListedLen DEF Stop, nvVars, xsmVars, airVars
<1> QED BY <1>1, <1>2, <1>3, <1>4, <1>5 DEF Main

(* OCUDU-L2 and Aerial.                                                    *)
LEMMA PeerStep ==
    ASSUME Inv, L2Asks \/ L2Take \/ L2Done \/ Aerial \/ AerialSlot
    PROVE  Inv'
<1> USE DEF Inv, Shape, At, FwdPlaces, NvPlaces, BufferAccounting, Holds, Quiet, Phases
<1>1. ASSUME NEW m, L2Puts(m)
      PROVE  Inv'
  BY <1>1, ListedAppend, ListedLen DEF L2Puts, mainVars, nvVars, airVars
<1>2. CASE L2Asks
  BY <1>1, <1>2 DEF L2Asks, L2Param, L2Config, L2Start, L2Stop, L2Data
<1>3. CASE L2Take
  <2>1. Len(down) \in Nat /\ Len(up) \in Nat
    BY ListedLen
  <2>2. BufferAccounting'
    BY <1>3, ListedTail, <2>1 DEF L2Take, mainVars, nvVars, airVars
  <2>3. Shape' /\ Quiet' /\ Phases'
    BY <1>3, ListedTail DEF L2Take, mainVars, nvVars, airVars
  <2> QED BY <2>2, <2>3
<1>4. CASE L2Done
  <2>1. Len(down) \in Nat /\ Len(up) \in Nat
    BY ListedLen
  <2>2. BufferAccounting'
    BY <1>4, <2>1 DEF L2Done, mainVars, nvVars, airVars
  <2>3. Shape' /\ Quiet' /\ Phases'
    BY <1>4, SMTT(60) DEF L2Done, mainVars, nvVars, airVars
  <2> QED BY <2>2, <2>3
<1>5. CASE Aerial
  BY <1>5, ListedLen DEF Aerial, mainVars, nvVars, xsmVars
<1>6. CASE AerialSlot
  BY <1>6, ListedLen DEF AerialSlot, mainVars, nvVars, xsmVars
<1> QED BY <1>2, <1>3, <1>4, <1>5, <1>6

(* The invariant holds in every reachable state.                           *)
LEMMA BringupInvariant == Spec => []Inv
<1>1. Inv /\ [Next]_vars => Inv'
  <2> SUFFICES ASSUME Inv, [Next]_vars
               PROVE  Inv'
    OBVIOUS
  <2>1. CASE UNCHANGED vars
    BY <2>1 DEF vars, mainVars, nvVars, xsmVars, airVars, Inv, Shape, At, BufferAccounting,
                Holds, Quiet, Phases
  <2>2. CASE Next
    BY <2>2, ForwarderStep, NvStep, MainStep, PeerStep DEF Next
  <2> QED BY <2>1, <2>2
<1> QED BY BringupInit, <1>1, PTL DEF Spec

-----------------------------------------------------------------------------
(* Whatever send, put or start fails, and whenever the application stops,  *)
(* each buffer of the region shared with OCUDU-L2 is in one place.         *)
THEOREM BringupBufferAccounting == Spec => []BufferAccounting
BY BringupInvariant, PTL DEF Inv

(* The forwarder does not send through a client that was freed, and no     *)
(* thread uses the rings once they are closed.                             *)
THEOREM BringupNoUseAfterClose == Spec => []NoUseAfterClose
<1>1. Inv => NoUseAfterClose
  BY DEF Inv, Phases, NoUseAfterClose
<1> QED BY <1>1, BringupInvariant, PTL

-----------------------------------------------------------------------------
(* What config_request.c makes of a configuration.                         *)

(* Adding multiples of P does not change the remainder.                    *)
LEMMA Multiples ==
    ASSUME NEW P \in Nat \ {0}, NEW q \in Nat, NEW a \in Nat, NEW x \in Nat, x = a + P * q
    PROVE  x % P = a % P
<1> PICK k, r : k = a \div P /\ r = a % P OBVIOUS
<1>1. k \in Nat /\ r \in 0 .. P - 1
  BY Division
<1>2. a = P * k + r
  BY Division, Zenon
<1>3. P * (k + q) = P * k + P * q
  BY <1>1
<1>4. P * k \in Nat /\ P * q \in Nat
  BY <1>1
<1>5. k + q \in Int /\ r \in Nat /\ r < P
  BY <1>1
<1>6. x = P * (k + q) + r
  BY <1>1, <1>2, <1>3, <1>4
<1> QED BY <1>5, <1>6, DivisionUnique, Zenon

(* The powers of two that numerologies and periods use.                    *)
LEMMA PowersOfTwo ==
    ASSUME NEW m \in 0 .. 5
    PROVE  2 ^ m \in Nat \ {0}
<1>1. CASE m = 0 BY <1>1
<1>2. CASE m = 1 BY <1>2
<1>3. CASE m = 2 BY <1>3
<1>4. CASE m = 3 BY <1>4
<1>5. CASE m = 4 BY <1>5
<1>6. CASE m = 5 BY <1>6
<1> QED BY <1>1, <1>2, <1>3, <1>4, <1>5, <1>6

(* Over two frames, a period that divides the frame goes on at its end.    *)
LEMMA FrameWraps ==
    ASSUME NEW P \in Nat \ {0}, NEW n \in Nat, NEW F \in Nat \ {0}, F = P * n,
           NEW s \in 0 .. 2 * F - 1
    PROVE  s % F \in 0 .. F - 1 /\ (s % F) % P = s % P
<1> PICK k, r : k = s \div F /\ r = s % F OBVIOUS
<1>1. s \in Nat
  OBVIOUS
<1>2. k \in Nat /\ r \in 0 .. F - 1 /\ s = F * k + r
  BY <1>1, Division, Zenon
<1>3. k \in Nat /\ r \in Nat
  BY <1>2
<1>4. PICK q \in Nat : q = n * k
  BY <1>3
<1>5. F * k = P * q
  BY <1>3, <1>4
<1>6. P * q \in Nat
  BY <1>4
<1>7. s = r + P * q
  BY <1>2, <1>3, <1>5, <1>6
<1>8. s % P = r % P
  <2>1. \A a, x \in Nat : x = a + P * q => x % P = a % P
    BY <1>4, Multiples, Zenon
  <2> QED BY <1>1, <1>3, <1>7, <2>1, Zenon
<1> QED BY <1>2, <1>8

(* The table has the direction of a symbol from its place in the period.   *)
LEMMA SameSymbol ==
    ASSUME NEW p, NEW mu, p.period \in Nat \ {0}, WellFormedPattern(p, mu),
           NEW s, NEW slot, NEW k \in Symbol,
           s % p.period = slot % p.period, slot % p.period \in 0 .. p.period - 1
    PROVE  SlotConfig(p, s, k) = Direction(p, slot, k)
<1> PICK ps : ps = slot % p.period OBVIOUS
<1>1. /\ p.dl \in Nat /\ p.dlSym \in Nat /\ p.ul \in Nat /\ p.ulSym \in Nat
      /\ p.dl + p.ul <= p.period
      /\ p.dlSym > 0 => p.dl + p.ul < p.period
      /\ p.ulSym > 0 => p.dl + p.ul + 1 = p.period
  BY DEF WellFormedPattern
<1>2. ps \in Nat /\ ps < p.period /\ k \in Nat /\ k < 14
  BY DEF Symbol, NR_SYMBOLS_PER_SLOT
<1>3. SlotConfig(p, s, k) = IF ps < p.dl THEN DL
        ELSE IF ps >= p.period - p.ul THEN UL
        ELSE IF ps # p.dl THEN Guard
        ELSE IF k < p.dlSym THEN DL
        ELSE IF k >= 14 - p.ulSym THEN UL
        ELSE Guard
  BY DEF SlotConfig, NR_SYMBOLS_PER_SLOT
<1>4. Direction(p, slot, k) = IF ps < p.dl \/ (ps = p.dl /\ k < p.dlSym) THEN DL
        ELSE IF ps >= p.period - p.ul
                \/ (ps = p.period - p.ul - 1 /\ k >= 14 - p.ulSym) THEN UL
        ELSE Guard
  BY DEF Direction, NR_SYMBOLS_PER_SLOT
<1> QED BY <1>1, <1>2, <1>3, <1>4

(* Point A, from which L1 finds the carrier again.                         *)
LEMMA SameCarrier ==
    ASSUME NEW c, WellFormed(c)
    PROVE  LET r == ConfigRequest(c)
           IN  r.pointA + r.grid * 6 * (15 * 2 ^ r.scs) = ArfcnToKhz(c.arfcn)
<1>1. c.mu \in 0 .. 4 /\ c.arfcn \in Nat /\ c.grid \in Nat
  BY DEF WellFormed
<1>2. 2 ^ c.mu \in Nat
  <2>1. c.mu \in 0 .. 5
    BY <1>1
  <2>2. 2 ^ c.mu \in Nat \ {0}
    BY <2>1, PowersOfTwo, Zenon
  <2> QED BY <2>2
<1>3. HalfCarrier(c) \in Int
  BY <1>1, <1>2 DEF HalfCarrier
<1>4. ArfcnToKhz(c.arfcn) \in Int
  BY <1>1 DEF ArfcnToKhz
<1> QED BY <1>3, <1>4 DEF ConfigRequest, HalfCarrier

(* Counting down and down again.                                           *)
LEMMA Unflip == ASSUME NEW n \in Int, NEW S \in SUBSET Int PROVE {n - b : b \in {n - i : i \in S}} = S
<1>1. \A i \in S : n - (n - i) = i
  OBVIOUS
<1> QED BY <1>1

(* The SSBs of the two masks and their period.                             *)
LEMMA SameSsb ==
    ASSUME NEW c, WellFormed(c)
    PROVE  LET r == ConfigRequest(c)
           IN  /\ c.ssb = {31 - b : b \in r.ssbMask[1]} \cup {63 - b : b \in r.ssbMask[2]}
               /\ 5 * 2 ^ r.ssbPeriod = c.ssbPeriod
<1> DEFINE r == ConfigRequest(c)
<1>1. r.ssbMask = SsbMask(c.ssb) /\ r.ssbPeriod = SsbPeriodIndex(c.ssbPeriod)
  BY DEF ConfigRequest
<1>2. 5 * 2 ^ r.ssbPeriod = c.ssbPeriod
  BY <1>1 DEF SsbPeriodIndex, WellFormed
<1>3. /\ r.ssbMask[1] = {31 - i : i \in c.ssb \cap (0 .. 31)}
      /\ r.ssbMask[2] = {63 - i : i \in c.ssb \cap (32 .. 63)}
  BY <1>1 DEF SsbMask
<1>4. c.ssb \subseteq 0 .. 63
  BY DEF WellFormed
<1>5. {31 - b : b \in r.ssbMask[1]} = c.ssb \cap (0 .. 31)
  <2>1. 31 \in Int /\ c.ssb \cap (0 .. 31) \in SUBSET Int
    OBVIOUS
  <2>2. {31 - b : b \in {31 - i : i \in c.ssb \cap (0 .. 31)}} = c.ssb \cap (0 .. 31)
    BY <2>1, Unflip, Zenon
  <2> HIDE DEF r
  <2> QED BY <1>3, <2>2
<1>6. {63 - b : b \in r.ssbMask[2]} = c.ssb \cap (32 .. 63)
  <2>1. 63 \in Int /\ c.ssb \cap (32 .. 63) \in SUBSET Int
    OBVIOUS
  <2>2. {63 - b : b \in {63 - i : i \in c.ssb \cap (32 .. 63)}} = c.ssb \cap (32 .. 63)
    BY <2>1, Unflip, Zenon
  <2> HIDE DEF r
  <2> QED BY <1>3, <2>2
<1>7. c.ssb = (c.ssb \cap (0 .. 31)) \cup (c.ssb \cap (32 .. 63))
  BY <1>4
<1> QED BY <1>2, <1>5, <1>6, <1>7

(* The TDD table, tiled over the frame and repeated by L1.                 *)
LEMMA SameTdd ==
    ASSUME NEW c, WellFormed(c)
    PROVE  LET r == ConfigRequest(c)
           IN  (r.tdd = {} <=> c.tdd = {}) /\ SameDirections(c, r)
<1> DEFINE r == ConfigRequest(c)
           F == SLOTS_PER_FRAME[c.mu]
           Slots(p) == [s \in 0 .. F - 1 |-> [k \in Symbol |-> SlotConfig(p, s, k)]]
           T(p) == [period |-> TddPeriodIndex(p.period, c.mu), slots |-> Slots(p)]
<1>1. r.scs = c.mu /\ r.tdd = {T(p) : p \in c.tdd}
  BY DEF ConfigRequest, TddTable
<1>2. c.mu \in 0 .. 4 /\ F = 10 * 2 ^ c.mu /\ 2 ^ c.mu \in Nat \ {0} /\ F \in Nat \ {0}
  <2>1. c.mu \in 0 .. 4 /\ c.mu \in 0 .. 5
    BY DEF WellFormed
  <2>2. F = 10 * 2 ^ c.mu
    BY <2>1 DEF SLOTS_PER_FRAME
  <2>3. 2 ^ c.mu \in Nat \ {0}
    BY <2>1, PowersOfTwo, Zenon
  <2> HIDE DEF F
  <2> QED BY <2>1, <2>2, <2>3
<1>3. ASSUME NEW p \in c.tdd
      PROVE  \E t \in r.tdd :
        /\ TddPeriod[t.period] * 2 ^ c.mu = p.period * 1000
        /\ \A slot \in 0 .. 2 * F - 1, k \in Symbol :
              t.slots[slot % F][k] = Direction(p, slot, k)
  <2>1. p.period \in Nat \ {0} /\ WellFormedPattern(p, c.mu)
    BY DEF WellFormed
  <2>2. PICK n \in Nat : F = p.period * n
    <3>1. F % p.period = 0
      BY <2>1 DEF WellFormedPattern
    <3>2. F = p.period * (F \div p.period) + (F % p.period) /\ F \div p.period \in Nat
      BY <1>2, <2>1, Division
    <3> QED BY <1>2, <2>1, <3>1, <3>2
  <2>3. PICK i \in 0 .. 8 : TddPeriod[i] * 2 ^ c.mu = p.period * 1000
    BY <2>1 DEF WellFormedPattern
  <2>4. TddPeriod[i] \in Nat
    BY DEF TddPeriod
  <2> PICK us : us = (p.period * 1000) \div 2 ^ c.mu
    OBVIOUS
  <2>5. us = TddPeriod[i]
    <3>1. p.period * 1000 = 2 ^ c.mu * TddPeriod[i] + 0
      BY <1>2, <2>3, <2>4
    <3>2. PICK P, x, k : P = 2 ^ c.mu /\ x = p.period * 1000 /\ k = TddPeriod[i]
      OBVIOUS
    <3>3. P \in Nat \ {0} /\ x \in Nat /\ k \in Int /\ x = P * k + 0
      BY <1>2, <2>1, <2>4, <3>1, <3>2
    <3>4. x \div P = k
      BY <3>3, DivisionUnique
    <3> QED BY <3>2, <3>4
  <2>6. TddPeriod[TddPeriodIndex(p.period, c.mu)] = us
    BY <2>5 DEF TddPeriodIndex
  <2>7. ASSUME NEW slot \in 0 .. 2 * F - 1, NEW k \in Symbol
        PROVE  T(p).slots[slot % F][k] = Direction(p, slot, k)
    <3>1. slot % F \in 0 .. F - 1 /\ (slot % F) % p.period = slot % p.period
      BY <1>2, <2>1, <2>2, FrameWraps
    <3>2. slot % p.period \in 0 .. p.period - 1
      <4>1. slot \in Nat
        BY <1>2
      <4> QED BY <2>1, <4>1, Division, Zenon
    <3>3. SlotConfig(p, slot % F, k) = Direction(p, slot, k)
      BY <2>1, <3>1, <3>2, SameSymbol
    <3> QED BY <3>1, <3>3
  <2>8. T(p) \in r.tdd
    BY <1>1
  <2>9. TddPeriod[T(p).period] * 2 ^ c.mu = p.period * 1000
    <3>1. T(p).period = TddPeriodIndex(p.period, c.mu)
      OBVIOUS
    <3>2. PICK q : q = TddPeriodIndex(p.period, c.mu)
      OBVIOUS
    <3>3. TddPeriod[q] = TddPeriod[i]
      BY <2>5, <2>6, <3>2
    <3> HIDE DEF T
    <3>4. TddPeriod[T(p).period] = TddPeriod[i]
      BY <3>1, <3>2, <3>3
    <3> QED BY <2>3, <3>4
  <2> QED BY <2>7, <2>8, <2>9, ZenonT(60)
<1>4. r.tdd = {} <=> c.tdd = {}
  BY <1>1
<1>5. SLOTS_PER_FRAME[r.scs] = F
  BY <1>1
<1> HIDE DEF r, F, T
<1>6. SameDirections(c, r)
  BY <1>3, <1>5 DEF SameDirections, F
<1> QED BY <1>4, <1>6 DEF r

(* Whole sequences of P preambles cover 64 when they are counted up.       *)
LEMMA Covered ==
    ASSUME NEW P \in Nat \ {0}
    PROVE  ((64 + P - 1) \div P) * P >= 64
<1> PICK k, r : k = (64 + P - 1) \div P /\ r = (64 + P - 1) % P OBVIOUS
<1>1. 64 + P - 1 \in Nat
  OBVIOUS
<1>2. k \in Nat /\ r \in 0 .. P - 1 /\ 64 + P - 1 = P * k + r
  BY <1>1, Division, Zenon
<1>3. r <= P - 1 /\ r \in Int
  BY <1>2
<1>4. P * k \in Int /\ P * k = k * P
  BY <1>2
<1>5. k * P >= 64
  BY <1>2, <1>3, <1>4
<1> QED BY <1>5

(* A configuration with cyclic shifts has room for one preamble at least   *)
(* in a sequence.                                                          *)
LEMMA Shifts ==
    ASSUME NEW c, c.zcc \in 1 .. 15
    PROVE  Ncs(c) \in Nat \ {0} /\ Ncs(c) <= PrachLength(c)
<1>1. /\ c.zcc < 16 /\ c.zcc + 1 \in 2 .. 16
  OBVIOUS
<1> DEFINE i == c.zcc + 1
           long  == <<0, 13, 15, 18, 22, 26, 32, 38, 46, 59, 76, 93, 119, 167, 279, 419>>
           short == <<0, 2, 4, 6, 8, 10, 12, 13, 15, 17, 19, 23, 27, 34, 46, 69>>
<1>2. Ncs(c) = (IF c.longPrach THEN long ELSE short)[i]
  BY <1>1 DEF Ncs
<1>3. long[i] \in 1 .. 839
  BY <1>1
<1>4. short[i] \in 1 .. 139
  BY <1>1
<1> HIDE DEF long, short, i
<1>5. CASE c.longPrach
  BY <1>2, <1>3, <1>5 DEF PrachLength
<1>6. CASE ~c.longPrach
  BY <1>2, <1>4, <1>6 DEF PrachLength
<1> QED BY <1>5, <1>6

(* There are enough root sequences for 64 preambles.                       *)
LEMMA SamePreambles ==
    ASSUME NEW c, WellFormed(c)
    PROVE  PreamblesCovered(c, ConfigRequest(c))
<1> DEFINE P == PrachLength(c) \div Ncs(c)
<1>1. Ncs(c) \in Nat \ {0} /\ Ncs(c) <= PrachLength(c)
  BY Shifts DEF WellFormed
<1>2. PrachLength(c) \in Nat
  BY DEF PrachLength
<1>3. P \in Nat \ {0}
  BY <1>1, <1>2
<1>4. ConfigRequest(c).roots = (64 + P - 1) \div P /\ PreamblesPerRoot(c) = P
  BY <1>1 DEF ConfigRequest, NumRootSequences, PreamblesPerRoot
<1> QED BY <1>3, <1>4, Covered, Zenon DEF PreamblesCovered

(* For every configuration within the limits of config_request.c, what L1  *)
(* is told means what OCUDU-L2 means: numerology, carrier, SSBs, the       *)
(* direction of each symbol of two frames, and 64 PRACH preambles.         *)
THEOREM ConfigRequestKeepsCell ==
    ASSUME NEW c, WellFormed(c)
    PROVE  SameCell(c, ConfigRequest(c))
<1>1. ConfigRequest(c).scs = c.mu
  BY DEF ConfigRequest
<1> QED BY <1>1, SameCarrier, SameSsb, SameTdd, SamePreambles DEF SameCell

-----------------------------------------------------------------------------
(* Who has which configuration.                                            *)

(* The messages of each direction; what Aerial is sent differs from what   *)
(* L2 asked in the configuration.                                          *)
Cfgs == Configs \cup {None}
Kept == Cfgs \cup {ConfigRequest(c) : c \in Configs}
Mus  == {c.mu : c \in Configs} \cup {0}
Ids  == {"PARAM", "CONFIG", "START", "STOP", "DATA"}
Asking == {m \in [id : Ids, cfg : Cfgs] : m.id = "CONFIG" => m.cfg \in Configs}
Asked  == [id : Ids, cfg : Kept]
Said   == [id : {"PARAM", "CONFIG", "STOP", "SLOT", "ERROR"}, ok : BOOLEAN, mu : Mus]
Peers  == [at : {"param", "config", "start", "up"}, waiting : BOOLEAN, asked : Cfgs, cfg : Cfgs]

Messages ==
    /\ down \in Seq(Asking) /\ fwd.msg \in Asking
    /\ toAerial \in Seq(Asked) /\ fromAerial \in Seq(Said) /\ nv.msg \in Said /\ up \in Seq(Said)
    /\ aerial \in [cfg : Kept, on : BOOLEAN] /\ numerology \in Mus /\ l2 \in Peers

(* PARAM or CONFIG on its way to Aerial, and its answer on the way back.   *)
Requests == {m \in Asked : m.id \in Awaited}
Answers  == {m \in Said : m.id \in Awaited}
OnFwd == fwd.pc = "forward" /\ fwd.msg \in Requests
Held  == nv.pc \in {"acquire", "put"}
OnNv  == Held /\ nv.msg \in Answers
Requesting == SomeIn(down, Requests) \/ OnFwd \/ SomeIn(toAerial, Requests)
Answering  == SomeIn(fromAerial, Answers) \/ OnNv \/ SomeIn(up, Answers)

(* There is one such message at most, L2 waits while there is, and asked   *)
(* nothing after it: a START that is under way was sent before.            *)
Drained == down = <<>> /\ fwd.pc # "forward"
OneRequest ==
    /\ OnlyLast(down, Requests) /\ OnlyLast(toAerial, Requests)
    /\ AtMostOneIn(fromAerial, Answers) /\ AtMostOneIn(up, Answers)
    /\ OnFwd => down = <<>>
    /\ SomeIn(toAerial, Requests) => Drained
    /\ Answering => Drained /\ toAerial = <<>>
    /\ SomeIn(fromAerial, Answers) => ~OnNv /\ ~SomeIn(up, Answers)
    /\ OnNv => ~SomeIn(up, Answers)
    /\ ~l2.waiting => ~Requesting /\ ~Answering

(* A message of R is on its way to Aerial, and one of R on its way back.   *)
Down(R) == SomeIn(down, R) \/ (fwd.pc = "forward" /\ fwd.msg \in R)
Back(R) == SomeIn(fromAerial, R) \/ (Held /\ nv.msg \in R) \/ SomeIn(up, R)

Configuring == {m \in Asked : m.id = "CONFIG"}
Params      == {m \in Asked : m.id = "PARAM"}
Starts      == {m \in Asked : m.id = "START"}
Others(c)   == {m \in Configuring : m.cfg # c}
Accepted    == {m \in Said : m.id = "CONFIG" /\ m.ok}
Refused     == {m \in Answers : ~m.ok}

(* How far L2 is.                                                          *)
Stages ==
    /\ l2.at \in {"start", "up"} => ~l2.waiting
    /\ l2.at = "param" => l2.cfg = None
    /\ l2.at = "config" /\ ~l2.waiting => l2.cfg = None
    /\ Down(Params) => l2.at = "param"

(* Each has the configuration that L2 asked for last or had accepted.      *)
Meant ==
    /\ ~Down(Others(l2.asked)) /\ ~SomeIn(toAerial, Others(ConfigRequest(l2.asked)))
    /\ SomeIn(toAerial, Configuring) => l2.asked \in Configs
    /\ Back(Accepted) => l2.asked \in Configs /\ aerial.cfg = ConfigRequest(l2.asked)

(* The cell runs, or will when Aerial gets what L2 sent or may send.       *)
Running == Down(Starts) \/ SomeIn(toAerial, Starts) \/ aerial.on \/ l2.at \in {"start", "up"}
Agreed  == l2.cfg \in Configs /\ aerial.cfg = ConfigRequest(l2.cfg)
Fits ==
    /\ Running => Agreed
    /\ Requesting \/ Back(Refused) => l2.cfg = None \/ Agreed

(* The numerology that L2 asked for last, and slots counted in another.    *)
Counted   == IF l2.asked = None THEN 0 ELSE l2.asked.mu
Early(mu) == {m \in Said : m.id = "SLOT" /\ m.mu # mu}

(* Slots are counted in it once the request has passed the translation,    *)
(* and L2 sees none of the earlier ones after the answer.                  *)
Numbered ==
    /\ l2.at = "param" \/ SomeIn(toAerial, Requests) \/ Answering \/ ~l2.waiting
       => numerology = Counted
    /\ SomeIn(up, Answers) \/ ~l2.waiting => ~(Held /\ nv.msg \in Early(Counted))
    /\ ~l2.waiting => ~SomeIn(up, Early(Counted))
    /\ NoneBehind(up, Answers, Early(Counted))

Cell == Messages /\ OneRequest /\ Stages /\ Meant /\ Fits /\ Numbered

(* The requests that the steps make.                                       *)
LEMMA RequestKinds ==
    /\ Asking \subseteq Asked
    /\ NoRequest \in Asking /\ NoRequest.id = "DATA"
    /\ \A id \in Ids \ {"CONFIG"}, c \in Cfgs : Request(id, c) \in Asking
    /\ \A c \in Configs : Request("CONFIG", c) \in Asking
    /\ \A id \in Ids, c \in Kept : Request(id, c) \in Asked
    /\ None \in Cfgs /\ Cfgs \subseteq Kept /\ None \notin Configs
    /\ \A c \in Configs : c \in Cfgs /\ ConfigRequest(c) \in Kept /\ c.mu \in Mus
    /\ \A id, c : Request(id, c).id = id /\ Request(id, c).cfg = c
<1>1. /\ None \in Cfgs /\ Cfgs \subseteq Kept /\ None \notin Configs
      /\ \A c \in Configs : c \in Cfgs /\ ConfigRequest(c) \in Kept /\ c.mu \in Mus
  BY BringupAssumption DEF Cfgs, Kept, Mus
<1>2. Asking \subseteq Asked
  BY <1>1 DEF Asking, Asked
<1>3. /\ \A id \in Ids \ {"CONFIG"}, c \in Cfgs : Request(id, c) \in Asking
      /\ \A c \in Configs : Request("CONFIG", c) \in Asking
      /\ \A id \in Ids, c \in Kept : Request(id, c) \in Asked
      /\ \A id, c : Request(id, c).id = id /\ Request(id, c).cfg = c
  BY DEF Request, Asking, Asked, Ids, Cfgs
<1>4. NoRequest \in Asking /\ NoRequest.id = "DATA"
  BY <1>1, <1>3 DEF NoRequest, Ids
<1> QED BY <1>1, <1>2, <1>3, <1>4

(* The reports that the steps make.                                        *)
LEMMA ReportKinds ==
    /\ NoReport \in Said /\ NoReport.id = "ERROR"
    /\ \A id \in {"PARAM", "CONFIG", "STOP"}, ok \in BOOLEAN :
          Report(id, ok, 0) \in Said /\ Report(id, ok, 0).id = id /\ Report(id, ok, 0).ok = ok
    /\ \A mu \in Mus : Report("SLOT", TRUE, mu) \in Said /\ Report("SLOT", TRUE, mu).id = "SLOT"
BY DEF Report, NoReport, Said, Mus

(* Whatever a set of messages is, by what its members say.                 *)
LEMMA MembersAre ==
    /\ \A m \in Asked : /\ m \in Requests <=> m.id \in {"PARAM", "CONFIG"}
                        /\ m \in Starts <=> m.id = "START"
                        /\ m \in Configuring <=> m.id = "CONFIG"
                        /\ m \in Params <=> m.id = "PARAM"
                        /\ \A c : m \in Others(c) <=> m.id = "CONFIG" /\ m.cfg # c
    /\ \A m \in Said : /\ m \in Answers <=> m.id \in {"PARAM", "CONFIG"}
                       /\ m \in Accepted <=> m.id = "CONFIG" /\ m.ok
                       /\ m \in Refused <=> m.id \in {"PARAM", "CONFIG"} /\ ~m.ok
                       /\ \A mu : m \in Early(mu) <=> m.id = "SLOT" /\ m.mu # mu
    /\ Accepted \subseteq Answers /\ Refused \subseteq Answers
    /\ Configuring \subseteq Requests /\ Params \subseteq Requests
    /\ \A c : Others(c) \subseteq Requests
BY DEF Requests, Starts, Configuring, Params, Others, Answers, Accepted, Refused, Early, Awaited

(* Where a sequence has no message of a set, it has none of a part of it.  *)
LEMMA NoneOfThem ==
    ASSUME NEW s
    PROVE  /\ ~SomeIn(s, Requests) => /\ ~SomeIn(s, Configuring) /\ ~SomeIn(s, Params)
                                      /\ \A c : ~SomeIn(s, Others(c))
           /\ ~SomeIn(s, Answers) => /\ ~SomeIn(s, Accepted) /\ ~SomeIn(s, Refused)
                                     /\ \A R : NoneBehind(s, Answers, R)
BY MembersAre DEF SomeIn, NoneBehind

(* Nothing is in an empty sequence.                                        *)
LEMMA NothingLeft ==
    ASSUME NEW s, s = <<>>
    PROVE  \A R : ~SomeIn(s, R)
BY NoneInEmpty

(* Steps of the threads that move no message on.                           *)
LEMMA CellQuiet ==
    ASSUME Cell, UNCHANGED <<numerology, aerial, l2, down, toAerial, fromAerial, up>>,
           fwd' = fwd \/ (fwd'.pc # "forward" /\ fwd'.msg \in Asking),
           nv' = nv \/ (nv'.msg \in Said /\ (Held' => Held /\ nv'.msg = nv.msg))
    PROVE  Cell'
<1>1. /\ numerology' = numerology /\ aerial' = aerial /\ l2' = l2 /\ down' = down
      /\ toAerial' = toAerial /\ fromAerial' = fromAerial /\ up' = up
  OBVIOUS
<1>2. /\ OnFwd' => OnFwd
      /\ OnNv' => OnNv
      /\ Held' => Held /\ nv'.msg = nv.msg
      /\ fwd'.pc = "forward" => fwd' = fwd
  BY DEF OnFwd, OnNv, Held
<1>3. Messages'
  BY <1>1 DEF Cell, Messages
<1>4. OneRequest'
  BY <1>1, <1>2 DEF Cell, OneRequest, Requesting, Answering, Drained
<1>5. Stages'
  BY <1>1, <1>2 DEF Cell, Stages, Down
<1>6. Meant'
  BY <1>1, <1>2 DEF Cell, Meant, Down, Back
<1>7. Fits'
  BY <1>1, <1>2 DEF Cell, Fits, Running, Agreed, Requesting, Down, Back
<1>8. Numbered'
  BY <1>1, <1>2 DEF Cell, Numbered, Counted, Answering
<1> QED BY <1>3, <1>4, <1>5, <1>6, <1>7, <1>8 DEF Cell

(* A request leaves the ring, to the forwarder or for good.                *)
LEMMA CellGet ==
    ASSUME Cell, FwdGet \/ FwdNoAddress
    PROVE  Cell'
<1>1. /\ numerology' = numerology /\ aerial' = aerial /\ l2' = l2
      /\ toAerial' = toAerial /\ fromAerial' = fromAerial /\ up' = up /\ nv' = nv
      /\ down # <<>> /\ down' = Tail(down) /\ fwd.pc = "get"
      /\ fwd' = [pc |-> "forward", msg |-> Head(down)] \/ fwd' = fwd
  BY DEF FwdGet, FwdNoAddress, airVars, nvVars
<1> PICK h : h = Head(down)
  OBVIOUS
<1>2. /\ down' \in Seq(Asking) /\ h \in Asking /\ h \in Asked
      /\ \A R : SomeIn(down, R) <=> h \in R \/ SomeIn(down', R)
      /\ \A R : OnlyLast(down, R) => OnlyLast(down', R) /\ (h \in R => down' = <<>>)
  <2>1. down \in Seq(Asking) /\ down # <<>>
    BY <1>1 DEF Cell, Messages
  <2>2. ASSUME NEW R, OnlyLast(down, R)
        PROVE  OnlyLast(down', R) /\ (h \in R => down' = <<>>)
    BY <1>1, <2>1, <2>2, LastInTail
  <2>3. /\ down' \in Seq(Asking) /\ h \in Asking
        /\ \A R : SomeIn(down, R) <=> h \in R \/ SomeIn(down', R)
    BY <1>1, <2>1, InTail
  <2> QED BY <2>2, <2>3, RequestKinds
<1>3. fwd'.pc = "forward" => fwd'.msg = h
  BY <1>1
<1>4. (OnFwd' => h \in Requests) /\ ~OnFwd /\ (OnNv' <=> OnNv) /\ ~Drained
  BY <1>1, <1>3 DEF OnFwd, OnNv, Held, Drained
<1>5. Messages'
  BY <1>1, <1>2 DEF Cell, Messages
<1>6. OneRequest'
  BY <1>1, <1>2, <1>4 DEF Cell, OneRequest, Requesting, Answering
<1>7. Stages'
  BY <1>1, <1>2, <1>3 DEF Cell, Stages, Down
<1>8. Meant'
  BY <1>1, <1>2, <1>3 DEF Cell, Meant, Down, Back, Held
<1>9. Fits'
  BY <1>1, <1>2, <1>3, <1>4 DEF Cell, Fits, Running, Agreed, Requesting, Down, Back, Held
<1>10. Numbered'
  BY <1>1, <1>4 DEF Cell, Numbered, Counted, Answering, Held
<1> QED BY <1>5, <1>6, <1>7, <1>8, <1>9, <1>10 DEF Cell

(* The forwarder sends what it translated, if nvIPC takes it.              *)
LEMMA CellSend ==
    ASSUME Cell, FwdSend \/ FwdConfig
    PROVE  Cell'
<1> DEFINE m == IF fwd.msg.id = "CONFIG" THEN Request("CONFIG", ConfigRequest(fwd.msg.cfg))
                ELSE fwd.msg
<1>1. /\ aerial' = aerial /\ l2' = l2 /\ down' = down /\ fromAerial' = fromAerial /\ up' = up
      /\ nv' = nv /\ fwd.pc = "forward" /\ fwd' = [fwd EXCEPT !.pc = "return"]
      /\ numerology' = IF fwd.msg.id = "CONFIG" THEN fwd.msg.cfg.mu ELSE numerology
      /\ toAerial' = toAerial \/ toAerial' = Append(toAerial, m)
  BY DEF FwdSend, FwdConfig, Forwarded, Send, nvVars, xsmVars
<1>2. /\ fwd.msg \in Asking /\ fwd.msg \in Asked /\ fwd.msg.id \in Ids /\ fwd.msg.cfg \in Cfgs
      /\ fwd.msg.id = "CONFIG" => fwd.msg.cfg \in Configs
  BY RequestKinds DEF Cell, Messages, Asking
<1>3. /\ m \in Asked /\ m.id = fwd.msg.id
      /\ m.id = "CONFIG" => m.cfg = ConfigRequest(fwd.msg.cfg)
  BY <1>2, RequestKinds DEF Ids
<1> HIDE DEF m
<1>4. /\ m \in Requests <=> OnFwd
      /\ m \in Configuring <=> fwd.msg.id = "CONFIG"
      /\ m \in Starts <=> fwd.msg \in Starts
      /\ m \in Params <=> fwd.msg \in Params
      /\ fwd.msg.id = "CONFIG" => OnFwd
  BY <1>1, <1>2, <1>3, MembersAre DEF OnFwd
<1>5. m.id = "CONFIG" => fwd.msg.cfg = l2.asked /\ l2.asked \in Configs /\ numerology' = l2.asked.mu
  BY <1>1, <1>2, <1>3, MembersAre DEF Cell, Meant, Down
<1>6. ~Drained /\ ~SomeIn(toAerial, Requests) /\ ~Answering
  BY <1>1 DEF Cell, OneRequest, Drained
<1>7. /\ toAerial' \in Seq(Asked)
      /\ \A R : SomeIn(toAerial', R) => SomeIn(toAerial, R) \/ m \in R
      /\ OnlyLast(toAerial', Requests)
  <2>1. toAerial \in Seq(Asked) /\ OnlyLast(toAerial, Requests)
    BY DEF Cell, Messages, OneRequest
  <2>2. CASE toAerial' = toAerial
    BY <2>1, <2>2
  <2>3. CASE toAerial' = Append(toAerial, m)
    BY <1>3, <1>6, <2>1, <2>3, InAppended, OrderAppended
  <2> QED BY <1>1, <2>2, <2>3
<1>8. /\ fwd'.pc = "return" /\ fwd'.msg \in Asking /\ ~OnFwd' /\ (OnNv' <=> OnNv)
      /\ numerology' \in Mus /\ (OnFwd => Drained') /\ (m \in Requests => ~SomeIn(down', Requests))
  <2>1. fwd'.pc = "return" /\ (fwd'.msg = fwd.msg \/ fwd'.msg \in Asking)
    BY <1>1, <1>2 DEF Cell, Messages
  <2>2. numerology' \in Mus
    BY <1>1, <1>2, RequestKinds DEF Cell, Messages
  <2>3. OnFwd => down' = <<>>
    BY <1>1 DEF Cell, OneRequest
  <2>4. OnFwd => ~SomeIn(down', Requests)
    BY <2>3, NothingLeft
  <2> QED BY <1>1, <1>2, <1>4, <2>1, <2>2, <2>3, <2>4 DEF OnFwd, OnNv, Held, Drained
<1>9. Messages'
  BY <1>1, <1>7, <1>8 DEF Cell, Messages
<1>10. OneRequest'
  BY <1>1, <1>4, <1>6, <1>7, <1>8 DEF Cell, OneRequest, Requesting, Answering
<1>11. Stages'
  BY <1>1, <1>8 DEF Cell, Stages, Down
<1>12. Meant'
  <2>1. ~SomeIn(toAerial', Others(ConfigRequest(l2.asked)))
    BY <1>3, <1>5, <1>7, MembersAre DEF Cell, Meant
  <2>2. SomeIn(toAerial', Configuring) => l2.asked \in Configs
    BY <1>3, <1>4, <1>5, <1>7 DEF Cell, Meant
  <2> QED BY <1>1, <1>8, <2>1, <2>2 DEF Cell, Meant, Down, Back, Held
<1>13. Fits'
  <2>1. Running' => Running
    BY <1>1, <1>4, <1>7, <1>8 DEF Running, Down
  <2>2. Requesting' => Requesting
    BY <1>1, <1>4, <1>7, <1>8 DEF Requesting
  <2>3. Back(Refused)' => Back(Refused)
    BY <1>1 DEF Back, Held
  <2> QED BY <1>1, <2>1, <2>2, <2>3 DEF Cell, Fits, Agreed
<1>14. Numbered'
  <2>1. CASE m.id = "CONFIG"
    <3>1. l2.waiting /\ ~SomeIn(up, Answers)
      <4>1. OnFwd
        BY <1>3, <1>4, <2>1
      <4>2. l2.waiting
        BY <4>1 DEF Cell, OneRequest, Requesting
      <4> QED BY <1>6, <4>2 DEF Answering
    <3>2. numerology' = Counted
      BY <1>5, <2>1, RequestKinds DEF Counted
    <3> QED BY <1>1, <3>1, <3>2, NoneOfThem DEF Numbered, Counted, Held
  <2>2. CASE m.id # "CONFIG"
    <3>1. numerology' = numerology
      BY <1>1, <1>3, <2>2
    <3>2. SomeIn(toAerial', Requests) => SomeIn(toAerial, Requests) \/ l2.at = "param"
      <4>1. m \in Requests => m \in Params
        BY <1>3, <2>2, MembersAre
      <4> QED BY <1>1, <1>4, <1>7, <4>1 DEF Cell, Stages, Down
    <3>3. Answering' => Answering
      BY <1>1, <1>8 DEF Answering
    <3> QED BY <1>1, <3>1, <3>2, <3>3 DEF Cell, Numbered, Counted, Held
  <2> QED BY <2>1, <2>2
<1> QED BY <1>9, <1>10, <1>11, <1>12, <1>13, <1>14 DEF Cell

(* aerial_nvipc_handle_rx takes what Aerial says.                          *)
LEMMA CellHandle ==
    ASSUME Cell, NvHandle
    PROVE  Cell'
<1> PICK h : h = Head(fromAerial)
  OBVIOUS
<1>1. /\ numerology' = numerology /\ aerial' = aerial /\ l2' = l2 /\ down' = down
      /\ toAerial' = toAerial /\ up' = up /\ fwd' = fwd
      /\ fromAerial # <<>> /\ fromAerial' = Tail(fromAerial) /\ nv.pc \in {"wait", "drain"}
      /\ nv' = IF h.id \in {"PARAM", "CONFIG", "SLOT"}
               THEN [pc |-> "acquire", msg |-> Translated(h)] ELSE Nv("drain")
  BY DEF NvHandle, Received, airVars, xsmVars
<1>2. /\ fromAerial' \in Seq(Said) /\ h \in Said
      /\ \A R : SomeIn(fromAerial, R) <=> h \in R \/ SomeIn(fromAerial', R)
      /\ \A R : AtMostOneIn(fromAerial, R)
                => AtMostOneIn(fromAerial', R) /\ ~(h \in R /\ SomeIn(fromAerial', R))
  BY <1>1, InTail DEF Cell, Messages
<1>3. /\ Translated(h) \in Said /\ Translated(h).id = h.id /\ Translated(h).ok = h.ok
      /\ h.id = "SLOT" => Translated(h).mu = numerology
  BY <1>2 DEF Translated, Said, Cell, Messages
<1>4. /\ nv'.msg \in Said
      /\ Held' => nv'.msg = Translated(h)
  BY <1>1, <1>3, ReportKinds, Zenon DEF Nv, Held
<1>5. /\ OnNv' => h \in Answers
      /\ ~OnNv /\ (OnFwd' <=> OnFwd) /\ ~Held
      /\ Held' /\ nv'.msg \in Accepted => h \in Accepted
      /\ Held' /\ nv'.msg \in Refused => h \in Refused
      /\ Held' => nv'.msg \notin Early(numerology)
  BY <1>1, <1>2, <1>3, <1>4, MembersAre DEF OnNv, OnFwd, Held
<1>6. Answering' => Answering
  BY <1>1, <1>2, <1>5 DEF Answering
<1>7. Messages'
  BY <1>1, <1>2, <1>4 DEF Cell, Messages
<1>8. OneRequest'
  BY <1>1, <1>2, <1>5, <1>6 DEF Cell, OneRequest, Requesting, Drained, Answering
<1>9. Stages'
  BY <1>1 DEF Cell, Stages, Down
<1>10. Meant'
  BY <1>1, <1>2, <1>5 DEF Cell, Meant, Down, Back
<1>11. Fits'
  BY <1>1, <1>2, <1>5 DEF Cell, Fits, Running, Agreed, Requesting, Down, Back
<1>12. Numbered'
  <2>1. SomeIn(up, Answers) \/ ~l2.waiting => numerology = Counted
    BY DEF Cell, Numbered, Answering
  <2> QED BY <1>1, <1>5, <1>6, <2>1 DEF Cell, Numbered, Counted
<1> QED BY <1>7, <1>8, <1>9, <1>10, <1>11, <1>12 DEF Cell

(* It puts it into the ring to L2.                                         *)
LEMMA CellPut ==
    ASSUME Cell, NvPut
    PROVE  Cell'
<1>1. /\ numerology' = numerology /\ aerial' = aerial /\ l2' = l2 /\ down' = down
      /\ toAerial' = toAerial /\ fromAerial' = fromAerial /\ fwd' = fwd
      /\ nv.pc = "put" /\ nv' = Nv("drain") /\ up' = Append(up, nv.msg)
  BY DEF NvPut, airVars
<1>2. nv'.pc = "drain" /\ nv'.msg \in Said /\ Held /\ ~Held'
  BY <1>1, ReportKinds DEF Nv, Held
<1>3. /\ up' \in Seq(Said)
      /\ \A R : SomeIn(up', R) <=> SomeIn(up, R) \/ nv.msg \in R
      /\ \A R : AtMostOneIn(up, R) /\ ~(SomeIn(up, R) /\ nv.msg \in R) => AtMostOneIn(up', R)
      /\ \A Q, R : NoneBehind(up, Q, R) /\ ~(SomeIn(up, Q) /\ nv.msg \in R) => NoneBehind(up', Q, R)
  BY <1>1, InAppended, OrderAppended DEF Cell, Messages
<1>4. ~OnNv' /\ (OnNv <=> nv.msg \in Answers) /\ (OnFwd' <=> OnFwd)
  BY <1>1, <1>2 DEF OnNv, OnFwd
<1>5. Answering' <=> Answering
  BY <1>1, <1>3, <1>4 DEF Answering
<1>6. Messages'
  BY <1>1, <1>2, <1>3 DEF Cell, Messages
<1>7. OneRequest'
  BY <1>1, <1>3, <1>4, <1>5 DEF Cell, OneRequest, Requesting, Drained, Answering
<1>8. Stages'
  BY <1>1 DEF Cell, Stages, Down
<1>9. Meant'
  BY <1>1, <1>2, <1>3 DEF Cell, Meant, Down, Back
<1>10. Fits'
  BY <1>1, <1>2, <1>3, <1>4 DEF Cell, Fits, Running, Agreed, Requesting, Down, Back
<1>11. Numbered'
  BY <1>1, <1>2, <1>3, <1>5 DEF Cell, Numbered, Counted
<1> QED BY <1>6, <1>7, <1>8, <1>9, <1>10, <1>11 DEF Cell

(* L2 asks: a request it waits for the answer of is the only one, and the  *)
(* last it sends.                                                          *)
LEMMA CellAsk ==
    ASSUME Cell, L2Asks
    PROVE  Cell'
<1>0. l2 = [at |-> l2.at, waiting |-> l2.waiting, asked |-> l2.asked, cfg |-> l2.cfg] /\ l2 \in Peers
  BY DEF Cell, Messages, Peers
<1> PICK m : /\ L2Puts(m) /\ m \in Asking /\ l2' \in Peers /\ l2'.cfg = l2.cfg /\ ~l2.waiting
             /\ \/ /\ m.id = "PARAM" /\ l2.at = "param" /\ l2'.at = "param"
                   /\ l2'.waiting /\ l2'.asked = l2.asked
                \/ /\ m.id = "CONFIG" /\ l2.at \in {"config", "start"} /\ l2'.at = "config"
                   /\ l2'.waiting /\ l2'.asked = m.cfg
                \/ /\ m.id \in {"START", "STOP", "DATA"}
                   /\ l2.at \in {"start", "up"} /\ l2'.at \in {"start", "up"}
                   /\ ~l2'.waiting /\ l2'.asked = l2.asked
  <2>0. /\ {"PARAM", "CONFIG", "START", "STOP"} \subseteq Ids
        /\ l2.at \in {"start", "up"} => ~l2.waiting
    BY DEF Ids, Cell, Stages
  <2>1. CASE L2Param
    <3>1. /\ L2Puts(Request("PARAM", None)) /\ l2' = [l2 EXCEPT !.waiting = TRUE]
          /\ ~l2.waiting /\ l2.at = "param"
      BY <2>1 DEF L2Param
    <3>2. /\ l2' \in Peers /\ l2'.at = l2.at /\ l2'.cfg = l2.cfg
          /\ l2'.asked = l2.asked /\ l2'.waiting
      BY <1>0, <3>1 DEF Peers
    <3>3. Request("PARAM", None) \in Asking /\ Request("PARAM", None).id = "PARAM"
      BY <2>0, RequestKinds
    <3> QED BY <3>1, <3>2, <3>3
  <2>2. CASE L2Config
    <3>1. PICK c \in Configs :
             /\ L2Puts(Request("CONFIG", c)) /\ l2.at \in {"config", "start"} /\ ~l2.waiting
             /\ l2' = [l2 EXCEPT !.at = "config", !.waiting = TRUE, !.asked = c]
      BY <2>2 DEF L2Config
    <3>2. /\ Request("CONFIG", c) \in Asking
          /\ Request("CONFIG", c).id = "CONFIG" /\ Request("CONFIG", c).cfg = c /\ c \in Cfgs
      BY <2>0, RequestKinds
    <3>3. /\ l2' \in Peers /\ l2'.at = "config" /\ l2'.cfg = l2.cfg
          /\ l2'.asked = c /\ l2'.waiting
      BY <1>0, <3>1, <3>2 DEF Peers
    <3> QED BY <3>1, <3>2, <3>3
  <2>3. CASE L2Start
    <3>1. /\ L2Puts(Request("START", None)) /\ l2.at = "start"
          /\ l2' = [l2 EXCEPT !.at = "up"]
      BY <2>3 DEF L2Start
    <3>2. /\ l2' \in Peers /\ l2'.at = "up" /\ l2'.cfg = l2.cfg
          /\ l2'.asked = l2.asked /\ l2'.waiting = l2.waiting
      BY <1>0, <3>1 DEF Peers
    <3>3. Request("START", None) \in Asking /\ Request("START", None).id = "START"
      BY <2>0, RequestKinds
    <3> QED BY <2>0, <3>1, <3>2, <3>3
  <2>4. CASE L2Stop
    <3>1. /\ L2Puts(Request("STOP", None)) /\ l2.at = "up"
          /\ l2' = [l2 EXCEPT !.at = "start"]
      BY <2>4 DEF L2Stop
    <3>2. /\ l2' \in Peers /\ l2'.at = "start" /\ l2'.cfg = l2.cfg
          /\ l2'.asked = l2.asked /\ l2'.waiting = l2.waiting
      BY <1>0, <3>1 DEF Peers
    <3>3. Request("STOP", None) \in Asking /\ Request("STOP", None).id = "STOP"
      BY <2>0, RequestKinds
    <3> QED BY <2>0, <3>1, <3>2, <3>3
  <2>5. CASE L2Data
    <3>1. L2Puts(NoRequest) /\ l2.at = "up" /\ l2' = l2
      BY <2>5 DEF L2Data
    <3> QED BY <1>0, <2>0, <3>1, RequestKinds
  <2> QED BY <2>1, <2>2, <2>3, <2>4, <2>5 DEF L2Asks
<1>1. /\ numerology' = numerology /\ aerial' = aerial /\ down' = Append(down, m)
      /\ toAerial' = toAerial /\ fromAerial' = fromAerial /\ up' = up /\ fwd' = fwd /\ nv' = nv
  BY DEF L2Puts, airVars, nvVars
<1>2. m \in Asking /\ m \in Asked /\ m.cfg \in Cfgs /\ (m.id = "CONFIG" => m.cfg \in Configs)
  BY RequestKinds DEF Asking
<1>3. ~Requesting /\ ~Answering
  BY DEF Cell, OneRequest
<1>4. /\ down' \in Seq(Asking)
      /\ \A R : SomeIn(down', R) <=> SomeIn(down, R) \/ m \in R
      /\ \A R : ~SomeIn(down, R) => OnlyLast(down', R)
  BY <1>1, <1>2, InAppended, OrderAppended DEF Cell, Messages
<1>5. /\ (OnFwd' <=> OnFwd) /\ (OnNv' <=> OnNv) /\ (Answering' <=> Answering)
      /\ \A R : Down(R)' <=> Down(R) \/ m \in R
      /\ \A R : Back(R)' <=> Back(R)
  BY <1>1, <1>4 DEF OnFwd, OnNv, Held, Answering, Down, Back
<1>6. Messages'
  BY <1>1, <1>4 DEF Cell, Messages
<1>7. OneRequest'
  <2>1. ~l2'.waiting => m \notin Requests
    BY <1>2, MembersAre
  <2>2. (Requesting' <=> m \in Requests) /\ OnlyLast(down', Requests) /\ ~SomeIn(toAerial, Requests)
    BY <1>1, <1>3, <1>4, <1>5 DEF Requesting
  <2> QED BY <1>1, <1>3, <1>4, <1>5, <2>1, <2>2 DEF Cell, OneRequest, Requesting, Answering
<1>8. Stages'
  <2>1. m \in Params => l2'.at = "param"
    BY <1>2, MembersAre
  <2>2. ~Down(Params) \/ l2'.at = "param"
    <3>1. ~Down(Params)
      BY <1>3, NoneOfThem, MembersAre DEF Requesting, Down, OnFwd
    <3> QED BY <3>1
  <2> QED BY <1>1, <1>4, <2>1, <2>2 DEF Cell, Stages, Down
<1>9. Meant'
  <2>1. m \notin Others(l2'.asked)
    BY <1>2, MembersAre
  <2>2. /\ ~SomeIn(down, Others(l2'.asked))
        /\ ~(fwd.pc = "forward" /\ fwd.msg \in Others(l2'.asked))
        /\ ~SomeIn(toAerial, Others(ConfigRequest(l2'.asked))) /\ ~SomeIn(toAerial, Configuring)
    BY <1>3, NoneOfThem, MembersAre DEF Requesting, OnFwd
  <2>3. ~SomeIn(fromAerial, Accepted) /\ ~SomeIn(up, Accepted) /\ ~(Held /\ nv.msg \in Accepted)
    BY <1>3, NoneOfThem, MembersAre DEF Answering, OnNv
  <2> QED BY <1>1, <1>4, <2>1, <2>2, <2>3 DEF Meant, Down, Back, Held
<1>10. Fits'
  <2>1. Running' => Running
    <3>1. m \in Starts => l2.at \in {"start", "up"}
      BY <1>2, MembersAre
    <3> QED BY <1>1, <1>4, <3>1 DEF Running, Down
  <2>2. Requesting' => l2.cfg = None \/ Agreed
    <3>1. m \in Requests => l2.at \in {"param", "config", "start"}
      BY <1>2, MembersAre
    <3>2. l2.at \in {"param", "config"} => l2.cfg = None
      BY DEF Cell, Stages
    <3>3. l2.at = "start" => Agreed
      BY DEF Cell, Fits, Running
    <3> QED BY <1>1, <1>3, <1>4, <1>5, <3>1, <3>2, <3>3 DEF Requesting
  <2>3. ~SomeIn(fromAerial, Refused) /\ ~SomeIn(up, Refused) /\ ~(Held /\ nv.msg \in Refused)
    BY <1>3, NoneOfThem, MembersAre DEF Answering, OnNv
  <2> QED BY <1>1, <2>1, <2>2, <2>3 DEF Cell, Fits, Agreed, Back, Held
<1>11. Numbered'
  <2>1. ~SomeIn(toAerial, Requests) /\ ~SomeIn(up, Answers)
    BY <1>3 DEF Requesting, Answering
  <2>2. CASE l2'.asked = l2.asked
    <3>1. l2'.at = "param" => l2.at = "param"
      OBVIOUS
    <3> QED BY <1>1, <1>3, <1>5, <2>1, <2>2, <3>1, NoneOfThem DEF Cell, Numbered, Counted, Held
  <2>3. CASE l2'.asked # l2.asked
    <3>1. l2'.at = "config" /\ l2'.waiting
      BY <2>3
    <3> QED BY <1>1, <1>3, <1>5, <2>1, <3>1, NoneOfThem DEF Numbered
  <2> QED BY <2>2, <2>3
<1> QED BY <1>6, <1>7, <1>8, <1>9, <1>10, <1>11 DEF Cell

(* L2 takes a message: it goes on to START only after an answer to the     *)
(* configuration it asked for.                                             *)
LEMMA CellTake ==
    ASSUME Cell, L2Take
    PROVE  Cell'
<1> PICK h : h = Head(up)
  OBVIOUS
<1>1. /\ numerology' = numerology /\ aerial' = aerial /\ down' = down /\ nv' = nv
      /\ toAerial' = toAerial /\ fromAerial' = fromAerial /\ fwd' = fwd
      /\ up # <<>> /\ up' = Tail(up) /\ l2' = L2Sees(h)
  BY DEF L2Take, airVars, nvVars
<1>2. /\ up' \in Seq(Said) /\ h \in Said
      /\ \A R : SomeIn(up, R) <=> h \in R \/ SomeIn(up', R)
      /\ \A R : AtMostOneIn(up, R) => AtMostOneIn(up', R) /\ ~(h \in R /\ SomeIn(up', R))
      /\ \A Q, R : NoneBehind(up, Q, R) => NoneBehind(up', Q, R) /\ (h \in Q => ~SomeIn(up', R))
  <2>1. up \in Seq(Said) /\ up # <<>>
    BY <1>1 DEF Cell, Messages
  <2>2. ASSUME NEW Q, NEW R, NoneBehind(up, Q, R)
        PROVE  NoneBehind(up', Q, R) /\ (h \in Q => ~SomeIn(up', R))
    BY <1>1, <2>1, <2>2, BehindInTail
  <2> QED BY <1>1, <2>1, <2>2, InTail
<1>3. (OnFwd' <=> OnFwd) /\ (OnNv' <=> OnNv) /\ (Held' <=> Held) /\ (Answering' => Answering)
  BY <1>1, <1>2 DEF OnFwd, OnNv, Held, Answering
<1>4. l2 \in Peers /\ l2 = [at |-> l2.at, waiting |-> l2.waiting, asked |-> l2.asked, cfg |-> l2.cfg]
  BY DEF Cell, Messages, Peers
<1>5. /\ l2' \in Peers /\ l2'.asked = l2.asked
      /\ \/ l2' = l2
         \/ /\ h.id \in {"PARAM", "CONFIG"} /\ l2.waiting /\ ~l2'.waiting
            /\ \/ l2'.cfg = l2.cfg /\ l2.at = "param" /\ l2'.at = "config"
               \/ l2'.cfg = l2.asked /\ l2'.at = "start" /\ h.id = "CONFIG" /\ h.ok
               \/ /\ ~h.ok /\ l2'.cfg = l2.cfg
                  /\ l2'.at = IF l2.cfg = None THEN l2.at ELSE "start"
  <2>1. CASE ~l2.waiting
    <3>1. l2' = l2
      BY <1>1, <2>1 DEF L2Sees
    <3> QED BY <1>4, <3>1
  <2>2. CASE l2.waiting /\ l2.at = "param" /\ h.id = "PARAM" /\ h.ok
    <3>1. l2' = [l2 EXCEPT !.at = "config", !.waiting = FALSE]
      BY <1>1, <2>2 DEF L2Sees
    <3> QED BY <1>4, <2>2, <3>1 DEF Peers
  <2>3. CASE l2.waiting /\ l2.at = "config" /\ h.id = "CONFIG" /\ h.ok
    <3>1. l2' = [l2 EXCEPT !.at = "start", !.waiting = FALSE, !.cfg = l2.asked]
      BY <1>1, <2>3 DEF L2Sees
    <3> QED BY <1>4, <2>3, <3>1 DEF Peers
  <2>4. CASE l2.waiting /\ h.id \in Awaited /\ ~h.ok
    <3>1. l2' = [l2 EXCEPT !.at = IF l2.cfg = None THEN l2.at ELSE "start", !.waiting = FALSE]
      BY <1>1, <2>4 DEF L2Sees
    <3> QED BY <1>4, <2>4, <3>1 DEF Awaited, Peers
  <2>5. CASE /\ l2.waiting /\ ~(l2.at = "param" /\ h.id = "PARAM" /\ h.ok)
             /\ ~(l2.at = "config" /\ h.id = "CONFIG" /\ h.ok) /\ ~(h.id \in Awaited /\ ~h.ok)
    BY <1>1, <1>4, <2>5 DEF L2Sees
  <2> QED BY <2>1, <2>2, <2>3, <2>4, <2>5
<1>6. Messages'
  BY <1>1, <1>2, <1>5 DEF Cell, Messages
<1>7. CASE l2' = l2
  <2>1. OneRequest'
    BY <1>1, <1>2, <1>3, <1>7 DEF Cell, OneRequest, Requesting, Drained, Answering
  <2>2. Stages'
    BY <1>1, <1>7 DEF Cell, Stages, Down
  <2>3. Meant'
    BY <1>1, <1>2, <1>3, <1>7 DEF Cell, Meant, Down, Back
  <2>4. Fits'
    BY <1>1, <1>2, <1>3, <1>7 DEF Cell, Fits, Running, Agreed, Requesting, Down, Back
  <2>5. Numbered'
    BY <1>1, <1>2, <1>3, <1>7 DEF Cell, Numbered, Counted
  <2> QED BY <1>6, <2>1, <2>2, <2>3, <2>4, <2>5 DEF Cell
<1>8. CASE l2' # l2
  <2>1. h \in Answers /\ ~l2'.waiting /\ l2.waiting /\ Answering
    BY <1>2, <1>5, <1>8, MembersAre DEF Answering
  <2>2. Drained /\ toAerial = <<>> /\ ~SomeIn(fromAerial, Answers) /\ ~OnNv /\ ~SomeIn(up', Answers)
    BY <1>2, <2>1 DEF Cell, OneRequest
  <2>3. ~SomeIn(down, Requests) /\ ~SomeIn(toAerial, Requests) /\ ~OnFwd
    BY <2>2, NothingLeft DEF Drained, OnFwd
  <2>4. OneRequest'
    BY <1>1, <1>2, <1>3, <2>2, <2>3 DEF Cell, OneRequest, Requesting, Drained, Answering
  <2>5. Stages'
    <3>1. ~SomeIn(down, Params) /\ ~(fwd.pc = "forward" /\ fwd.msg \in Params)
      BY <2>2, <2>3, NoneOfThem DEF Drained
    <3> QED BY <1>1, <1>5, <1>8, <3>1 DEF Cell, Stages, Down
  <2>6. Meant'
    BY <1>1, <1>2, <1>3, <1>5 DEF Cell, Meant, Down, Back
  <2>7. Fits'
    <3>1. ~Requesting' /\ ~Back(Refused)'
      <4>1. ~SomeIn(fromAerial, Refused) /\ ~SomeIn(up', Refused) /\ ~(Held /\ nv.msg \in Refused)
        BY <2>2, NoneOfThem, MembersAre DEF OnNv
      <4> QED BY <1>1, <1>3, <2>3, <4>1 DEF Requesting, Back
    <3>2. CASE l2'.cfg = l2.asked /\ h.id = "CONFIG" /\ h.ok
      <4>1. l2.asked \in Configs /\ aerial.cfg = ConfigRequest(l2.asked)
        BY <1>2, <3>2, MembersAre DEF Cell, Meant, Back
      <4> QED BY <1>1, <3>1, <3>2, <4>1 DEF Fits, Agreed
    <3>3. CASE ~h.ok /\ l2'.cfg = l2.cfg
      <4>1. l2.cfg = None \/ Agreed
        BY <1>2, <2>1, <3>3, MembersAre DEF Cell, Fits, Back, Refused
      <4>2. l2.cfg = None => ~Running
        BY RequestKinds DEF Cell, Fits, Agreed
      <4>3. l2.cfg = None => ~Running'
        BY <1>1, <1>5, <1>8, <3>3, <4>2 DEF Running, Down
      <4> QED BY <1>1, <3>1, <3>3, <4>1, <4>3 DEF Fits, Agreed
    <3>4. CASE l2'.cfg = l2.cfg /\ l2'.at = "config"
      <4>1. Running' => Running
        BY <1>1, <3>4 DEF Running, Down
      <4> QED BY <1>1, <3>1, <3>4, <4>1 DEF Cell, Fits, Agreed
    <3> QED BY <1>5, <1>8, <3>2, <3>3, <3>4
  <2>8. Numbered'
    <3>1. /\ numerology = Counted /\ ~(Held /\ nv.msg \in Early(Counted))
          /\ ~SomeIn(up', Early(Counted))
      BY <1>2, <2>1 DEF Cell, Numbered
    <3> QED BY <1>1, <1>2, <1>3, <1>5, <2>2, <3>1, NoneOfThem DEF Numbered, Counted
  <2> QED BY <1>6, <2>4, <2>5, <2>6, <2>7, <2>8 DEF Cell
<1> QED BY <1>7, <1>8

(* Aerial takes a request, and may answer it.                              *)
LEMMA CellAerial ==
    ASSUME Cell, Aerial
    PROVE  Cell'
<1> PICK h : h = Head(toAerial)
  OBVIOUS
<1>1. /\ numerology' = numerology /\ l2' = l2 /\ down' = down /\ nv' = nv /\ up' = up /\ fwd' = fwd
      /\ toAerial # <<>> /\ toAerial' = Tail(toAerial) /\ Takes(h)
  BY DEF Aerial, xsmVars, nvVars
<1>2. /\ toAerial' \in Seq(Asked) /\ h \in Asked
      /\ \A R : SomeIn(toAerial, R) <=> h \in R \/ SomeIn(toAerial', R)
      /\ \A R : OnlyLast(toAerial, R) => OnlyLast(toAerial', R) /\ (h \in R => toAerial' = <<>>)
  <2>1. toAerial \in Seq(Asked) /\ toAerial # <<>>
    BY <1>1 DEF Cell, Messages
  <2>2. ASSUME NEW R, OnlyLast(toAerial, R)
        PROVE  OnlyLast(toAerial', R) /\ (h \in R => toAerial' = <<>>)
    BY <1>1, <2>1, <2>2, LastInTail
  <2>3. /\ toAerial' \in Seq(Asked) /\ h \in Asked
        /\ \A R : SomeIn(toAerial, R) <=> h \in R \/ SomeIn(toAerial', R)
    BY <1>1, <2>1, InTail
  <2> QED BY <2>2, <2>3
<1>3. (OnFwd' <=> OnFwd) /\ (OnNv' <=> OnNv) /\ (Held' <=> Held)
  BY <1>1 DEF OnFwd, OnNv, Held
<1>4. aerial \in [cfg : Kept, on : BOOLEAN] /\ h.cfg \in Kept /\ fromAerial \in Seq(Said)
  BY <1>2 DEF Cell, Messages, Asked
<1>5. ~Answering
  BY <1>1 DEF Cell, OneRequest
<1>6. Requesting' => Requesting
  BY <1>1, <1>2, <1>3 DEF Requesting
<1>7. CASE /\ fromAerial' = fromAerial
           /\ aerial' = aerial \/ (h.id = "START" /\ aerial' = [aerial EXCEPT !.on = TRUE])
  <2>1. aerial' \in [cfg : Kept, on : BOOLEAN] /\ aerial'.cfg = aerial.cfg
        /\ (aerial'.on => aerial.on \/ h \in Starts)
    BY <1>2, <1>4, <1>7, MembersAre
  <2>2. Messages'
    BY <1>1, <1>2, <1>7, <2>1 DEF Cell, Messages
  <2>3. OneRequest'
    BY <1>1, <1>2, <1>3, <1>5, <1>6, <1>7 DEF Cell, OneRequest, Drained, Answering
  <2>4. Stages'
    BY <1>1 DEF Cell, Stages, Down
  <2>5. Meant'
    BY <1>1, <1>2, <1>3, <1>7, <2>1 DEF Cell, Meant, Down, Back
  <2>6. Fits'
    <3>1. Running' => Running
      BY <1>1, <1>2, <2>1 DEF Running, Down
    <3> QED BY <1>1, <1>3, <1>6, <1>7, <2>1, <3>1 DEF Cell, Fits, Agreed, Back
  <2>7. Numbered'
    BY <1>1, <1>2, <1>3, <1>7 DEF Cell, Numbered, Counted, Answering
  <2> QED BY <2>2, <2>3, <2>4, <2>5, <2>6, <2>7 DEF Cell
<1>8. ASSUME NEW r \in Said, fromAerial' = Append(fromAerial, r),
             r \in Answers => h \in Requests,
             aerial' \in [cfg : Kept, on : BOOLEAN], aerial'.on => aerial.on,
             \/ aerial'.cfg = aerial.cfg /\ r \notin Accepted
             \/ /\ h.id = "CONFIG" /\ aerial'.cfg = h.cfg /\ r \notin Refused
                /\ ~aerial.on
      PROVE  Cell'
  <2>1. /\ fromAerial' \in Seq(Said)
        /\ \A R : SomeIn(fromAerial', R) <=> SomeIn(fromAerial, R) \/ r \in R
        /\ \A R : AtMostOneIn(fromAerial, R) /\ ~(SomeIn(fromAerial, R) /\ r \in R)
                  => AtMostOneIn(fromAerial', R)
    BY <1>4, <1>8, InAppended
  <2>2. h \in Requests => Drained /\ toAerial' = <<>> /\ l2.waiting /\ SomeIn(toAerial, Requests)
    BY <1>2 DEF Cell, OneRequest, Requesting
  <2>3. Answering' => h \in Requests
    BY <1>1, <1>3, <1>5, <1>8, <2>1 DEF Answering
  <2>4. h \in Requests => ~Requesting'
    <3>1. h \in Requests => ~SomeIn(down, Requests) /\ ~SomeIn(toAerial', Requests) /\ ~OnFwd
      BY <2>2, NothingLeft DEF Drained, OnFwd
    <3> QED BY <1>1, <1>3, <3>1 DEF Requesting
  <2>5. Messages'
    BY <1>1, <1>2, <1>8, <2>1 DEF Cell, Messages
  <2>6. OneRequest'
    <3>1. AtMostOneIn(fromAerial', Answers) /\ ~OnNv /\ ~SomeIn(up, Answers)
      BY <1>5, <2>1 DEF Cell, OneRequest, Answering
    <3> QED BY <1>1, <1>2, <1>3, <1>6, <2>2, <2>3, <2>4, <3>1 DEF Cell, OneRequest, Drained
  <2>7. Stages'
    BY <1>1 DEF Cell, Stages, Down
  <2>8. ~SomeIn(fromAerial, Accepted) /\ ~SomeIn(up, Accepted) /\ ~(Held /\ nv.msg \in Accepted)
        /\ ~SomeIn(fromAerial, Refused) /\ ~SomeIn(up, Refused) /\ ~(Held /\ nv.msg \in Refused)
    BY <1>5, NoneOfThem, MembersAre DEF Answering, OnNv
  <2>9. h.id = "CONFIG" => /\ l2.asked \in Configs /\ h.cfg = ConfigRequest(l2.asked)
                           /\ h \in Requests /\ l2.at \notin {"start", "up"}
    <3>1. h.id = "CONFIG" => h \in Requests /\ h \in Configuring
      BY <1>2, MembersAre
    <3>2. h.id = "CONFIG" => h \notin Others(ConfigRequest(l2.asked)) /\ l2.asked \in Configs
      BY <1>2, <3>1 DEF Cell, Meant
    <3> QED BY <1>2, <2>2, <3>1, <3>2, MembersAre DEF Cell, Stages
  <2>10. Meant'
    <3>1. Back(Accepted)' => l2.asked \in Configs /\ aerial'.cfg = ConfigRequest(l2.asked)
      BY <1>1, <1>3, <1>8, <2>1, <2>8, <2>9 DEF Back
    <3> QED BY <1>1, <1>2, <3>1 DEF Cell, Meant, Down
  <2>11. Fits'
    <3>1. CASE aerial'.cfg = aerial.cfg /\ r \notin Accepted
      <4>1. Running' => Running
        BY <1>1, <1>2, <1>8 DEF Running, Down
      <4>2. Back(Refused)' => Requesting
        BY <1>1, <1>3, <1>8, <2>1, <2>2, <2>8, MembersAre DEF Back, Requesting
      <4> QED BY <1>1, <1>6, <3>1, <4>1, <4>2 DEF Cell, Fits, Agreed
    <3>2. CASE h.id = "CONFIG" /\ r \notin Refused /\ ~aerial.on
      <4>1. ~Back(Refused)'
        BY <1>1, <1>3, <2>1, <2>8, <3>2 DEF Back
      <4>2. down = <<>> /\ fwd.pc # "forward" /\ toAerial' = <<>>
        BY <2>2, <2>9, <3>2 DEF Drained
      <4>3. ~SomeIn(down, Starts) /\ ~SomeIn(toAerial', Starts)
        BY <4>2, NothingLeft
      <4>4. ~Running'
        BY <1>1, <1>8, <2>9, <3>2, <4>2, <4>3 DEF Running, Down
      <4> QED BY <2>4, <2>9, <3>2, <4>1, <4>4 DEF Fits
    <3> QED BY <1>8, <3>1, <3>2
  <2>12. Numbered'
    BY <1>1, <1>2, <1>3, <2>2, <2>3 DEF Cell, Numbered, Counted
  <2> QED BY <2>5, <2>6, <2>7, <2>10, <2>11, <2>12 DEF Cell
<1>9. CASE h.id = "PARAM"
  <2>1. PICK ok \in BOOLEAN : Says(Report("PARAM", ok, 0)) /\ aerial' = aerial
    BY <1>1, <1>9 DEF Takes
  <2> PICK r : r = Report("PARAM", ok, 0)
    OBVIOUS
  <2>2. r \in Said /\ r.id = "PARAM" /\ fromAerial' = Append(fromAerial, r)
    BY <2>1, ReportKinds DEF Says
  <2>3. h \in Requests /\ r \notin Accepted
    BY <1>2, <1>9, <2>2, MembersAre
  <2> QED BY <1>4, <1>8, <2>1, <2>2, <2>3
<1>10. CASE h.id = "CONFIG"
  <2>1. h \in Requests
    BY <1>2, <1>10, MembersAre
  <2>2. CASE Says(Report("CONFIG", FALSE, 0)) /\ UNCHANGED aerial
    <3> PICK r : r = Report("CONFIG", FALSE, 0)
      OBVIOUS
    <3>1. r \in Said /\ ~r.ok /\ fromAerial' = Append(fromAerial, r)
      BY <2>2, ReportKinds DEF Says
    <3>2. r \notin Accepted
      BY <3>1, MembersAre
    <3> QED BY <1>4, <1>8, <2>1, <2>2, <3>1, <3>2
  <2>3. CASE ~aerial.on /\ Says(Report("CONFIG", TRUE, 0)) /\ aerial' = [aerial EXCEPT !.cfg = h.cfg]
    <3> PICK r : r = Report("CONFIG", TRUE, 0)
      OBVIOUS
    <3>1. r \in Said /\ r.ok /\ fromAerial' = Append(fromAerial, r)
      BY <2>3, ReportKinds DEF Says
    <3>2. r \notin Refused
      BY <3>1, MembersAre
    <3>3. aerial' \in [cfg : Kept, on : BOOLEAN] /\ aerial'.on = aerial.on /\ aerial'.cfg = h.cfg
      BY <1>4, <2>3
    <3> QED BY <1>8, <1>10, <2>1, <2>3, <3>1, <3>2, <3>3
  <2> QED BY <1>1, <1>10, <2>2, <2>3 DEF Takes
<1>11. CASE h.id = "START"
  <2>1. CASE aerial.cfg = None
    <3>1. Says(NoReport) /\ aerial' = aerial
      BY <1>1, <1>11, <2>1 DEF Takes
    <3>2. NoReport \in Said /\ NoReport \notin Answers /\ NoReport \notin Accepted
      BY ReportKinds, MembersAre
    <3> QED BY <1>4, <1>8, <3>1, <3>2 DEF Says
  <2>2. CASE aerial.cfg # None
    <3>1. aerial' = [aerial EXCEPT !.on = TRUE] /\ fromAerial' = fromAerial
      BY <1>1, <1>11, <2>2 DEF Takes
    <3> QED BY <1>7, <1>11, <3>1
  <2> QED BY <2>1, <2>2
<1>12. CASE h.id = "STOP"
  <2>1. Says(Report("STOP", TRUE, 0)) /\ aerial' = [aerial EXCEPT !.on = FALSE]
    BY <1>1, <1>12 DEF Takes
  <2> PICK r : r = Report("STOP", TRUE, 0)
    OBVIOUS
  <2>2. r \in Said /\ r.id = "STOP" /\ fromAerial' = Append(fromAerial, r)
    BY <2>1, ReportKinds DEF Says
  <2>3. r \notin Answers /\ r \notin Accepted
    BY <2>2, MembersAre
  <2>4. aerial' \in [cfg : Kept, on : BOOLEAN] /\ ~aerial'.on /\ aerial'.cfg = aerial.cfg
    BY <1>4, <2>1
  <2> QED BY <1>8, <2>2, <2>3, <2>4
<1>13. CASE h.id \notin {"PARAM", "CONFIG", "START", "STOP"}
  <2>1. aerial' = aerial /\ fromAerial' = fromAerial
    BY <1>1, <1>13 DEF Takes
  <2> QED BY <1>7, <2>1
<1> QED BY <1>9, <1>10, <1>11, <1>12, <1>13

(* Aerial sends SLOT.indication while the cell runs.                       *)
LEMMA CellSlot ==
    ASSUME Cell, AerialSlot
    PROVE  Cell'
<1>1. /\ numerology' = numerology /\ l2' = l2 /\ down' = down /\ nv' = nv /\ up' = up /\ fwd' = fwd
      /\ toAerial' = toAerial /\ aerial' = aerial /\ aerial.on
      /\ fromAerial' = Append(fromAerial, Report("SLOT", TRUE, aerial.cfg.scs))
  BY DEF AerialSlot, Says, xsmVars, nvVars
<1>2. aerial.cfg.scs \in Mus
  <2>1. l2.cfg \in Configs /\ aerial.cfg = ConfigRequest(l2.cfg)
    BY <1>1 DEF Cell, Fits, Running, Agreed
  <2>2. ConfigRequest(l2.cfg).scs = l2.cfg.mu
    BY DEF ConfigRequest
  <2> QED BY <2>1, <2>2, RequestKinds
<1>3. PICK m \in Said : /\ m \notin Answers /\ m \notin Accepted /\ m \notin Refused
                        /\ fromAerial' = Append(fromAerial, m)
  <2>1. PICK m : m = Report("SLOT", TRUE, aerial.cfg.scs)
    OBVIOUS
  <2>2. m \in Said /\ m.id = "SLOT"
    BY <1>2, <2>1, ReportKinds
  <2>3. m \notin Answers /\ m \notin Accepted /\ m \notin Refused
    BY <2>2, MembersAre
  <2> QED BY <1>1, <2>1, <2>2, <2>3
<1>4. /\ fromAerial' \in Seq(Said)
      /\ \A R : SomeIn(fromAerial', R) <=> SomeIn(fromAerial, R) \/ m \in R
      /\ \A R : AtMostOneIn(fromAerial, R) /\ ~(SomeIn(fromAerial, R) /\ m \in R)
                => AtMostOneIn(fromAerial', R)
  BY <1>3, InAppended DEF Cell, Messages
<1>5. (OnFwd' <=> OnFwd) /\ (OnNv' <=> OnNv) /\ (Held' <=> Held) /\ (Answering' <=> Answering)
  BY <1>1, <1>3, <1>4 DEF OnFwd, OnNv, Held, Answering
<1>6. Messages'
  BY <1>1, <1>4 DEF Cell, Messages
<1>7. OneRequest'
  BY <1>1, <1>3, <1>4, <1>5 DEF Cell, OneRequest, Requesting, Drained, Answering
<1>8. Stages'
  BY <1>1 DEF Cell, Stages, Down
<1>9. Meant'
  BY <1>1, <1>3, <1>4, <1>5 DEF Cell, Meant, Down, Back
<1>10. Fits'
  BY <1>1, <1>3, <1>4, <1>5 DEF Cell, Fits, Running, Agreed, Requesting, Down, Back
<1>11. Numbered'
  BY <1>1, <1>5 DEF Cell, Numbered, Counted
<1> QED BY <1>6, <1>7, <1>8, <1>9, <1>10, <1>11 DEF Cell

(* The other steps move no message.                                        *)
LEMMA CellStill ==
    ASSUME Cell,
           \/ Main \/ Stop \/ FwdReturn \/ FwdExit \/ L2Done \/ UNCHANGED vars
           \/ NvAttach \/ NvNotThere \/ NvIdle \/ NvAcquire \/ NvNoBuffer \/ NvPutFails
    PROVE  Cell'
<1>1. UNCHANGED <<numerology, aerial, l2, down, toAerial, fromAerial, up>>
  BY DEF Main, StartForwarder, StartFails, JoinForwarder, JoinNv, Stop, FwdReturn, FwdExit, L2Done,
         NvAttach, NvNotThere, NvIdle, NvAcquire, NvNoBuffer, NvPutFails,
         vars, mainVars, nvVars, xsmVars, airVars
<1>2. /\ \A pc : Fwd(pc).pc = pc /\ Fwd(pc).msg \in Asking
      /\ \A pc : Nv(pc).pc = pc /\ Nv(pc).msg \in Said
  BY RequestKinds, ReportKinds DEF Fwd, Nv
<1>3. fwd' = fwd \/ fwd' \in {Fwd("get"), Fwd("exited")}
  BY DEF Main, StartForwarder, StartFails, JoinForwarder, JoinNv, Stop, FwdReturn, FwdExit, L2Done,
         NvAttach, NvNotThere, NvIdle, NvAcquire, NvNoBuffer, NvPutFails, vars
<1>4. fwd' = fwd \/ (fwd'.pc # "forward" /\ fwd'.msg \in Asking)
  BY <1>2, <1>3
<1>5. \/ nv' = nv \/ nv' \in {Nv("wait"), Nv("drain"), Nv("exited")}
      \/ nv.pc = "acquire" /\ nv' = [nv EXCEPT !.pc = "put"]
  BY DEF Main, StartForwarder, StartFails, JoinForwarder, JoinNv, Stop, FwdReturn, FwdExit, L2Done,
         NvAttach, NvNotThere, NvIdle, NvAcquire, NvNoBuffer, NvPutFails, NvLoop, vars, nvVars
<1>6. nv' = nv \/ (nv'.msg \in Said /\ (Held' => Held /\ nv'.msg = nv.msg))
  <2>1. CASE nv' \in {Nv("wait"), Nv("drain"), Nv("exited")}
    BY <1>2, <2>1 DEF Held
  <2>2. CASE nv.pc = "acquire" /\ nv' = [nv EXCEPT !.pc = "put"]
    <3>1. nv.msg \in Said
      BY DEF Cell, Messages
    <3>2. nv'.msg = nv.msg \/ nv'.msg \in Said
      BY <2>2
    <3> QED BY <2>2, <3>1 DEF Held
  <2> QED BY <1>5, <2>1, <2>2
<1> QED BY <1>1, <1>4, <1>6, CellQuiet

(* Every step keeps all parts.                                             *)
LEMMA CellNext ==
    ASSUME Cell, [Next]_vars
    PROVE  Cell'
BY CellStill, CellGet, CellSend, CellHandle, CellPut, CellAsk, CellTake, CellAerial, CellSlot
   DEF Next, Forwarder, NvRun

(* No message is under way at the start.                                   *)
LEMMA CellInit == Init => Cell
<1>1. \A S : <<>> \in Seq(S)
  OBVIOUS
<1>2. \A R : ~SomeIn(<<>>, R) /\ AtMostOneIn(<<>>, R)
  BY NoneInEmpty
<1>3. /\ Fwd("off").pc = "off" /\ Fwd("off").msg \in Asking
      /\ Nv("attach").pc = "attach" /\ Nv("attach").msg \in Said
  BY RequestKinds, ReportKinds DEF Fwd, Nv
<1> SUFFICES ASSUME Init PROVE Cell
  OBVIOUS
<1>4. /\ down = <<>> /\ up = <<>> /\ toAerial = <<>> /\ fromAerial = <<>> /\ fwd = Fwd("off")
      /\ nv = Nv("attach") /\ aerial = [cfg |-> None, on |-> FALSE] /\ numerology = 0
      /\ l2 = [at |-> "param", waiting |-> FALSE, asked |-> None, cfg |-> None]
  BY DEF Init
<1>5. /\ ~OnFwd /\ ~OnNv /\ ~Held /\ ~Requesting /\ ~Answering /\ ~Running
      /\ \A R : ~Down(R) /\ ~Back(R)
  BY <1>2, <1>3, <1>4 DEF OnFwd, OnNv, Held, Requesting, Answering, Running, Down, Back
<1>6. Messages
  BY <1>1, <1>3, <1>4, RequestKinds DEF Messages, Peers, Mus
<1>7. OneRequest
  BY <1>2, <1>4, <1>5, OrderEmpty DEF OneRequest, Drained
<1>8. Stages /\ Meant /\ Fits
  BY <1>2, <1>4, <1>5 DEF Stages, Meant, Fits
<1>9. Numbered
  BY <1>2, <1>4, <1>5, OrderEmpty DEF Numbered, Counted
<1> QED BY <1>6, <1>7, <1>8, <1>9 DEF Cell

(* At most one request that could change the configuration is under way    *)
(* and nothing behind it; a cell that runs, or may be started, has the     *)
(* configuration L2 knows is accepted; and what L2 sees once it does not   *)
(* wait is counted in the numerology it asked for last.                    *)
THEOREM CellInvariant == Spec => []Cell
BY CellInit, CellNext, PTL DEF Spec

(* The cell that runs is the one OCUDU-L2 was told is accepted, through    *)
(* STOP, new configurations and whatever was refused or lost; its slots    *)
(* are counted in its numerology unless L2 has asked for another           *)
(* configuration since, which config_request.c latches before L1 answers.  *)
THEOREM CellRunsAsConfigured ==
    ASSUME \A c \in Configs : WellFormed(c)
    PROVE  Spec => []CellAsConfigured
<1>1. ConfigRequest(l2.cfg).scs = l2.cfg.mu
  BY DEF ConfigRequest
<1>2. ASSUME Cell, aerial.on PROVE SameCell(l2.cfg, aerial.cfg)
  <2>1. Agreed
    BY <1>2 DEF Cell, Fits, Running
  <2> QED BY <2>1, ConfigRequestKeepsCell DEF Agreed
<1>3. ASSUME Cell, l2.at \in {"start", "up"}, l2.asked = l2.cfg
      PROVE  /\ aerial.on => numerology = aerial.cfg.scs
             /\ \A m \in {up[i] : i \in DOMAIN up} : m.id = "SLOT" => m.mu = l2.cfg.mu
  <2>1. Agreed /\ ~l2.waiting
    BY <1>3 DEF Cell, Fits, Running, Stages
  <2>2. Counted = l2.cfg.mu /\ aerial.cfg = ConfigRequest(l2.cfg)
    BY <1>3, <2>1, RequestKinds DEF Counted, Agreed
  <2>3. numerology = Counted /\ ~SomeIn(up, Early(Counted))
    BY <1>3, <2>1 DEF Cell, Numbered
  <2>4. ASSUME NEW i \in DOMAIN up, up[i].id = "SLOT" PROVE up[i].mu = l2.cfg.mu
    <3>1. up[i] \in Said
      BY <1>3, LenProperties DEF Cell, Messages
    <3>2. up[i] \notin Early(Counted)
      BY <2>3 DEF SomeIn
    <3> QED BY <2>2, <2>4, <3>1, <3>2, MembersAre
  <2> QED BY <1>1, <2>2, <2>3, <2>4
<1>4. Cell => CellAsConfigured
  BY <1>2, <1>3 DEF CellAsConfigured
<1> QED BY <1>4, CellInvariant, PTL
=============================================================================
