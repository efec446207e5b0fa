---------------------------- MODULE AerialOaiProofs ----------------------------
(***************************************************************************)
(* Proofs about the AERIAL_OAI bridge, AerialOai, for every size of its    *)
(* queues and pools and however many associations follow one another.      *)
(*                                                                         *)
(* Three arguments.  A P7 sequence number is in use only while the nvIPC   *)
(* thread is between two datagrams of one message (SequenceOK).  While the *)
(* PNF runs, its P7 listener never leaves its loop, so a teardown of the   *)
(* data plane waits in its first join and no second data plane starts on   *)
(* the slots of the first (PlaneOK).  And p5_listener and the nvIPC thread *)
(* do not meet in p5_tx_buf over one association, because its VNF asks for *)
(* one thing at a time: a request is in one place, and nobody can answer   *)
(* for the next one before it is asked (PastOK, OnePlace, InTurn).         *)
(***************************************************************************)
EXTENDS AerialOai, SequenceFacts

-----------------------------------------------------------------------------
(* The types, each under a name of its own. *)
MainPc  == {"init", "up", "join_p5", "join_lis", "join_rx", "join_nv", "stopped"}
PnfVal  == {"none", "up", "freed"}
SockVal == {"none", "up", "gone"}
P5Pc    == {"off", "select", "tx", "tx_config", "join_failed", "join_lis", "join_rx", "exited"}
StateOf == {"DISCONNECTED", "CONNECTED", "CONFIGURED", "RUNNING"}
LisPc   == {"off", "select", "push", "exited"}
RxPc    == {"off", "pop", "dispatch", "exited"}
NvPc    == {"attach", "wait", "drain", "tx", "segment", "exited", "crashed"}
NvType  == [pc : NvPc, msg : Msg, seg : 0 .. Segments - 1]
VnfType == [at : 1 .. 8, waiting : BOOLEAN]
Asks    == Id \cup {Runt}

Types ==
    /\ main \in MainPc /\ pnf \in PnfVal /\ running \in BOOLEAN
    /\ p5 \in P5Pc /\ sock \in SockVal /\ state \in StateOf
    /\ started \in BOOLEAN /\ addrKnown \in BOOLEAN /\ txBuf \in Msg
    /\ lis \in LisPc /\ rx \in RxPc /\ queue \in 0 .. QueueCap
    /\ active \in BOOLEAN /\ inUse \in 0 .. PoolSize
    /\ nv \in NvType /\ nvRunning \in BOOLEAN /\ ipc \in BOOLEAN /\ seqUsed \in BOOLEAN
    /\ toAerial \in Seq(Msg) /\ fromAerial \in Seq(Msg) /\ cell \in BOOLEAN
    /\ vnf \in VnfType /\ inbox \in Seq(Asks)
    /\ conns \in 0 .. MaxConn /\ runts \in 0 .. MaxRunts /\ lost \in BOOLEAN

(* Slots between the listener's reception and rx_task's release. *)
Carried == (IF lis = "push" THEN 1 ELSE 0) + (IF rx = "dispatch" THEN 1 ELSE 0)

(* A slot that is carried is in use; a VNF that waits asked for one of the *)
(* script; what was asked was asked over an association.                   *)
Bounds ==
    /\ queue + Carried <= inUse
    /\ vnf.waiting => vnf.at <= 7
    /\ sock = "up" \/ inbox # <<>> \/ p5 = "join_failed" => conns >= 1

(* What the constants are.                                                 *)
LEMMA Constants ==
    /\ PoolSize \in Nat \ {0} /\ QueueCap \in Nat \ {0} /\ Segments \in Nat \ {0}
    /\ AirCap \in Nat \ {0} /\ MaxConn \in Nat \ {0} /\ MaxRunts \in Nat /\ Blocking \in BOOLEAN
BY AerialOaiAssumption

(* The requests of the script, and that no two are the same.               *)
LEMMA ScriptIs ==
    /\ Len(Script) = 7 /\ DOMAIN Script = 1 .. 7
    /\ Script[1] = "PNF_PARAM" /\ Script[2] = "PNF_CONFIG" /\ Script[3] = "PNF_START"
    /\ Script[4] = "PARAM" /\ Script[5] = "CONFIG" /\ Script[6] = "START" /\ Script[7] = "STOP"
BY DEF Script

(* The same as sets: no request is a runt or an indication.                *)
LEMMA ScriptFacts ==
    /\ Id = {"PNF_PARAM", "PNF_CONFIG", "PNF_START", "PARAM", "CONFIG", "START", "STOP"}
    /\ Runt \notin Id /\ "UP" \notin Id
    /\ \A k \in 1 .. 7 : Script[k] \in Id
    /\ \A k, l \in 1 .. 7 : Script[k] = Script[l] => k = l
<1>1. \A k \in 1 .. 7 : k = 1 \/ k = 2 \/ k = 3 \/ k = 4 \/ k = 5 \/ k = 6 \/ k = 7
  OBVIOUS
<1>2. Id = {"PNF_PARAM", "PNF_CONFIG", "PNF_START", "PARAM", "CONFIG", "START", "STOP"}
  <2>1. {1, 2, 3, 4, 5, 6, 7} \subseteq 1 .. 7
    OBVIOUS
  <2> QED BY <1>1, <2>1, ScriptIs DEF Id
<1>3. \A k \in 1 .. 7 : Script[k] \in Id
  BY ScriptIs DEF Id
<1>4. \A k, l \in 1 .. 7 : Script[k] = Script[l] => k = l
  BY <1>1, ScriptIs
<1> QED BY <1>2, <1>3, <1>4 DEF Runt

(* The values of the types that the actions use.                           *)
LEMMA Values ==
    /\ {"init", "up", "join_p5", "join_lis", "join_rx", "join_nv", "stopped"} \subseteq MainPc
    /\ {"none", "up", "freed"} \subseteq PnfVal /\ {"none", "up", "gone"} \subseteq SockVal
    /\ {"off", "select", "tx", "tx_config", "join_failed", "join_lis", "join_rx", "exited"} \subseteq P5Pc
    /\ {"DISCONNECTED", "CONNECTED", "CONFIGURED", "RUNNING"} \subseteq StateOf
    /\ {"off", "select", "push", "exited"} \subseteq LisPc
    /\ {"off", "pop", "dispatch", "exited"} \subseteq RxPc
    /\ {"attach", "wait", "drain", "tx", "segment", "exited", "crashed"} \subseteq NvPc
BY DEF MainPc, PnfVal, SockVal, P5Pc, StateOf, LisPc, RxPc, NvPc

(* The messages: an answer or a request of an association, or an           *)
(* indication.                                                             *)
LEMMA MsgFacts ==
    /\ Nothing \in Msg /\ Nothing.id = "UP" /\ Nothing.of = 0
    /\ \A id \in Id, c \in 1 .. MaxConn : [id |-> id, of |-> c] \in Msg
    /\ \A m \in Msg : m.of \in 0 .. MaxConn /\ m = [id |-> m.id, of |-> m.of]
    /\ \A m \in Msg : (m.id \in Id /\ m.of \in 1 .. MaxConn) \/ (m.id = "UP" /\ m.of = 0)
<1>1. /\ Nothing \in Msg /\ Nothing.id = "UP" /\ Nothing.of = 0
      /\ \A id \in Id, c \in 1 .. MaxConn : [id |-> id, of |-> c] \in Msg
  BY DEF Msg, Nothing
<1>2. ASSUME NEW m \in Msg
      PROVE  /\ m.of \in 0 .. MaxConn /\ m = [id |-> m.id, of |-> m.of]
             /\ (m.id \in Id /\ m.of \in 1 .. MaxConn) \/ (m.id = "UP" /\ m.of = 0)
  <2>1. m \in [id : Id, of : 1 .. MaxConn] \/ m \in [id : {"UP"}, of : {0}]
    BY DEF Msg
  <2>2. 1 .. MaxConn \subseteq 0 .. MaxConn /\ 0 \in 0 .. MaxConn
    BY Constants
  <2>3. m = [id |-> m.id, of |-> m.of]
    BY <2>1
  <2>4. (m.id \in Id /\ m.of \in 1 .. MaxConn) \/ (m.id = "UP" /\ m.of = 0)
    <3>1. CASE m \in [id : Id, of : 1 .. MaxConn]
      <4>1. m.id \in Id /\ m.of \in 1 .. MaxConn
        BY <3>1
      <4> QED BY <4>1
    <3>2. CASE m \in [id : {"UP"}, of : {0}]
      <4>1. m.id \in {"UP"} /\ m.of \in {0}
        BY <3>2
      <4> QED BY <4>1
    <3> QED BY <2>1, <3>1, <3>2
  <2>5. m.of \in 0 .. MaxConn
    BY <2>2, <2>4
  <2> QED BY <2>3, <2>4, <2>5, Zenon
<1> QED BY <1>1, <1>2

(* The locals of the nvIPC thread.                                         *)
LEMMA NvFacts ==
    /\ \A pc \in NvPc : /\ Nv(pc) \in NvType /\ Nv(pc).pc = pc /\ Nv(pc).seg = 0
                        /\ Nv(pc).msg = Nothing
    /\ \A pc \in NvPc, m \in Msg :
          LET n == [Nv(pc) EXCEPT !.msg = m]
          IN  n \in NvType /\ n.pc = pc /\ n.msg = m /\ n.seg = 0
    /\ NvLoop \in NvType /\ NvLoop.pc \in {"wait", "exited"} /\ NvLoop.seg = 0 /\ NvLoop.msg = Nothing
<1>1. \A pc \in NvPc, m \in Msg : [pc |-> pc, msg |-> m, seg |-> 0] \in NvType
  BY Constants DEF NvType
<1>2. \A pc \in NvPc : Nv(pc) = [pc |-> pc, msg |-> Nothing, seg |-> 0]
  BY DEF Nv
<1>3. \A pc \in NvPc, m \in Msg : [Nv(pc) EXCEPT !.msg = m] = [pc |-> pc, msg |-> m, seg |-> 0]
  BY <1>2
<1>4. "wait" \in NvPc /\ "exited" \in NvPc
  BY Values
<1>5. NvLoop = Nv("wait") \/ NvLoop = Nv("exited")
  BY DEF NvLoop
<1> QED BY <1>1, <1>2, <1>3, <1>4, <1>5, MsgFacts

(* The type invariant under the names above.                               *)
LEMMA TypesAre == AerialOaiTypeOK <=> Types
<1>1. Len(Script) + 1 = 8
  BY ScriptIs
<1>2. ({running, started, addrKnown, active, nvRunning, ipc, cell, lost, seqUsed} \subseteq BOOLEAN)
      <=> /\ running \in BOOLEAN /\ started \in BOOLEAN /\ addrKnown \in BOOLEAN /\ active \in BOOLEAN
          /\ nvRunning \in BOOLEAN /\ ipc \in BOOLEAN /\ cell \in BOOLEAN /\ lost \in BOOLEAN
          /\ seqUsed \in BOOLEAN
  OBVIOUS
<1>3. ([at : 1 .. Len(Script) + 1, waiting : BOOLEAN]) = VnfType
  BY <1>1 DEF VnfType
<1> QED
  BY <1>2, <1>3 DEF AerialOaiTypeOK, Types, MainPc, PnfVal, SockVal, P5Pc, StateOf, LisPc, RxPc, NvPc,
                    NvType, Asks

(* The VNF's side at the start of an association, and when it has asked.   *)
LEMMA VnfFacts ==
    /\ Fresh \in VnfType /\ Fresh.at = 1 /\ Fresh.waiting = FALSE
    /\ \A v \in VnfType :
          LET w == [v EXCEPT !.waiting = TRUE]
          IN  w \in VnfType /\ w.at = v.at /\ w.waiting = TRUE
<1>1. Fresh \in VnfType /\ Fresh.at = 1 /\ Fresh.waiting = FALSE
  BY DEF Fresh, VnfType
<1>2. ASSUME NEW v \in VnfType, NEW w, w = [v EXCEPT !.waiting = TRUE]
      PROVE  w \in VnfType /\ w.at = v.at /\ w.waiting = TRUE
  <2>1. w = [at |-> v.at, waiting |-> TRUE] /\ v.at \in 1 .. 8
    BY <1>2 DEF VnfType
  <2> QED BY <2>1 DEF VnfType
<1> QED BY <1>1, <1>2

(* What the VNF's side becomes when a message reaches it.                  *)
LEMMA DeliveredFacts ==
    ASSUME vnf \in VnfType, vnf.waiting => vnf.at <= 7, NEW m, Delivered(m)
    PROVE  /\ vnf' \in VnfType /\ (vnf'.waiting => vnf'.at <= 7)
           /\ \/ vnf' = vnf
              \/ /\ vnf.waiting /\ m = Answer(Script[vnf.at])
                 /\ vnf'.at = vnf.at + 1 /\ ~vnf'.waiting
<1>1. vnf.at \in 1 .. 8 /\ vnf.waiting \in BOOLEAN
  BY DEF VnfType
<1>2. CASE vnf.waiting /\ m = Answer(Script[vnf.at])
  BY <1>1, <1>2 DEF Delivered, VnfType
<1>3. CASE ~(vnf.waiting /\ m = Answer(Script[vnf.at]))
  BY <1>3 DEF Delivered
<1> QED BY <1>2, <1>3

(* What the end of a session leaves.                                       *)
LEMMA ResetFacts ==
    ASSUME ResetSession
    PROVE  /\ sock' = "none" /\ sock' \in SockVal /\ inbox' = <<>> /\ inbox' \in Seq(Asks)
           /\ vnf' = Fresh /\ vnf' \in VnfType /\ ~vnf'.waiting /\ vnf'.at = 1
           /\ state' \in StateOf /\ started' = FALSE /\ addrKnown' = FALSE
BY Values, EmptySeq DEF ResetSession, Fresh, VnfType

(* The loop condition of the threads that run while p->running.            *)
LEMMA LoopFacts ==
    ASSUME running \in BOOLEAN
    PROVE  /\ Loop \in P5Pc /\ Loop \in LisPc /\ Loop \in {"select", "exited"}
           /\ running => Loop = "select"
BY Values DEF Loop

(* The head of the P5 messages that were received.                         *)
LEMMA InboxFacts ==
    ASSUME inbox \in Seq(Asks), NEW id, Request(id)
    PROVE  p5 = "select" /\ inbox # <<>> /\ id = Head(inbox) /\ inbox' = Tail(inbox)
           /\ inbox' \in Seq(Asks)
BY TailAt DEF Request

(* A message of the present association.                                   *)
LEMMA AnswerFacts ==
    ASSUME conns \in 0 .. MaxConn, conns >= 1
    PROVE  \A id \in Id : Answer(id) \in Msg /\ Answer(id).id = id /\ Answer(id).of = conns
<1>1. conns \in 1 .. MaxConn
  BY Constants
<1> QED BY <1>1, MsgFacts DEF Answer

(* The data plane's threads.                                               *)
LEMMA TypesP7 ==
    ASSUME Types, Bounds, Listener \/ RxTask
    PROVE  Types' /\ Bounds'
<1> USE Constants, Values DEF Types, Bounds, Carried, mainVars, sessVars, p5Vars, p7Vars, nvVars, airVars, vnfVars
<1>1. CASE LisIdle
  BY <1>1, LoopFacts DEF LisIdle
<1>2. CASE LisReceive
  BY <1>2 DEF LisReceive
<1>3. CASE LisPush
  BY <1>3, LoopFacts DEF LisPush
<1>4. CASE RxPop
  BY <1>4 DEF RxPop
<1>5. CASE RxDispatch
  BY <1>5 DEF RxDispatch
<1> QED BY <1>1, <1>2, <1>3, <1>4, <1>5 DEF Listener, RxTask

(* Start, stop and the joins of app_destroy.                               *)
LEMMA TypesMain ==
    ASSUME Types, Bounds, StartPnf \/ StartPnfFails \/ Stop \/ Main
    PROVE  Types' /\ Bounds'
<1> USE Constants, Values DEF Types, Bounds, Carried, mainVars, sessVars, p5Vars, p7Vars, nvVars, airVars, vnfVars
<1>1. CASE StartPnf
  BY <1>1 DEF StartPnf
<1>2. CASE StartPnfFails
  BY <1>2 DEF StartPnfFails
<1>3. CASE Stop
  BY <1>3 DEF Stop
<1>4. CASE StopClose
  BY <1>4, ResetFacts DEF StopClose, CloseSession, FreePnf
<1>5. CASE StopJoinListener
  BY <1>5 DEF StopJoinListener
<1>6. CASE StopJoinRx
  BY <1>6, ResetFacts DEF StopJoinRx, FreePnf
<1>7. CASE StopJoinNv
  BY <1>7 DEF StopJoinNv
<1> QED BY <1>1, <1>2, <1>3, <1>4, <1>5, <1>6, <1>7 DEF Main

(* The VNF and Aerial.                                                     *)
LEMMA TypesPeers ==
    ASSUME Types, Bounds, Aerial \/ Others
    PROVE  Types' /\ Bounds'
<1> USE Constants, Values DEF Types, Bounds, Carried, mainVars, sessVars, p5Vars, p7Vars, nvVars, airVars, vnfVars
<1>1. CASE VnfAsk
  <2>1. inbox' = Append(inbox, Script[vnf.at]) /\ vnf.at \in 1 .. 8 /\ vnf.at <= Len(Script)
    BY <1>1 DEF VnfAsk, VnfType
  <2>2. vnf.at \in 1 .. 7
    BY <2>1, ScriptIs
  <2>3. inbox' \in Seq(Asks)
    BY <2>1, <2>2, ScriptFacts, AppendProperties DEF Asks
  <2>4. vnf' \in VnfType /\ (vnf'.waiting => vnf'.at <= 7)
    <3>1. vnf' = [vnf EXCEPT !.waiting = TRUE]
      BY <1>1 DEF VnfAsk
    <3>2. vnf \in VnfType
      OBVIOUS
    <3>3. vnf' \in VnfType /\ vnf'.at = vnf.at
      BY <3>1, <3>2, VnfFacts
    <3> QED BY <2>2, <3>3
  <2> QED BY <1>1, <2>3, <2>4 DEF VnfAsk
<1>2. CASE VnfRunt
  <2>1. inbox' = Append(inbox, Runt) /\ Runt \in Asks
    BY <1>2 DEF VnfRunt, Asks
  <2>2. inbox' \in Seq(Asks)
    BY <2>1, AppendProperties
  <2> QED BY <1>2, <2>2 DEF VnfRunt
<1>3. CASE VnfLeave
  <2>1. vnf' \in VnfType /\ ~vnf'.waiting
    BY <1>3, VnfFacts DEF VnfLeave
  <2>2. inbox' \in Seq(Asks) /\ sock' = "gone" /\ (inbox' # <<>> => inbox # <<>>)
    BY <1>3, EmptySeq DEF VnfLeave
  <2> QED BY <1>3, <2>1, <2>2 DEF VnfLeave
<1>4. CASE Aerial
  <2>1. /\ Tail(toAerial) \in Seq(Msg) /\ Head(toAerial) \in Msg
    BY <1>4, TailAt DEF Aerial
  <2>2. Append(fromAerial, Head(toAerial)) \in Seq(Msg)
    BY <2>1, AppendProperties
  <2> QED BY <1>4, <2>1, <2>2 DEF Aerial
<1>5. CASE AerialUp
  <2>1. Append(fromAerial, Nothing) \in Seq(Msg)
    BY MsgFacts, AppendProperties
  <2> QED BY <1>5, <2>1 DEF AerialUp
<1> QED BY <1>1, <1>2, <1>3, <1>4, <1>5 DEF Others

(* The nvIPC thread.                                                       *)
LEMMA TypesNv ==
    ASSUME Types, Bounds, NvAttach \/ NvRun
    PROVE  Types' /\ Bounds'
<1> USE Constants, Values DEF Types, Bounds, Carried, mainVars, sessVars, p5Vars, p7Vars, nvVars, airVars, vnfVars
<1>1. CASE NvAttach
  BY <1>1, NvFacts DEF NvAttach
<1>2. CASE NvNotThere
  BY <1>2, NvFacts DEF NvNotThere
<1>3. CASE NvTimeout
  BY <1>3, NvFacts DEF NvTimeout
<1>4. CASE NvDrained
  BY <1>4, NvFacts DEF NvDrained
<1>5. CASE NvP5
  <2>1. /\ fromAerial' = Tail(fromAerial) /\ Tail(fromAerial) \in Seq(Msg) /\ Head(fromAerial) \in Msg
    BY <1>5, TailAt DEF NvP5, Take
  <2>2. nv' \in NvType /\ txBuf' \in Msg
    BY <1>5, <2>1, NvFacts DEF NvP5
  <2> QED BY <1>5, <2>1, <2>2 DEF NvP5
<1>6. CASE NvSent
  <2>1. vnf' \in VnfType /\ (vnf'.waiting => vnf'.at <= 7)
    BY <1>6, DeliveredFacts DEF NvSent
  <2> QED BY <1>6, <2>1, NvFacts DEF NvSent
<1>7. CASE NvP7
  <2>1. /\ fromAerial' = Tail(fromAerial) /\ Tail(fromAerial) \in Seq(Msg) /\ Head(fromAerial) \in Msg
    BY <1>7, TailAt DEF NvP7, Take
  <2>2. nv' \in NvType
    BY <1>7, <2>1, NvFacts DEF NvP7
  <2> QED BY <1>7, <2>1, <2>2 DEF NvP7
<1>8. CASE NvSegment
  <2>1. nv' \in NvType
    <3>1. nv.seg \in 0 .. Segments - 1 /\ nv \in [pc : NvPc, msg : Msg, seg : 0 .. Segments - 1]
      BY DEF NvType
    <3>2. CASE nv' = [nv EXCEPT !.seg = @ + 1] /\ nv.seg + 1 < Segments
      <4>1. nv' = [pc |-> nv.pc, msg |-> nv.msg, seg |-> nv.seg + 1]
        BY <3>1, <3>2
      <4>2. nv.seg + 1 \in 0 .. Segments - 1
        <5> HIDE DEF Types, Bounds
        <5> QED BY <3>1, <3>2, Constants
      <4>3. nv.pc \in NvPc /\ nv.msg \in Msg
        BY <3>1
      <4> QED BY <4>1, <4>2, <4>3 DEF NvType
    <3>3. CASE nv' = Nv("drain")
      BY <3>3, NvFacts
    <3>4. (nv' = [nv EXCEPT !.seg = @ + 1] /\ nv.seg + 1 < Segments) \/ nv' = Nv("drain")
      BY <1>8 DEF NvSegment
    <3> QED BY <3>2, <3>3, <3>4
  <2>2. seqUsed' \in BOOLEAN
    BY <1>8 DEF NvSegment
  <2> QED BY <1>8, <2>1, <2>2 DEF NvSegment
<1>9. CASE NvOnFreed
  BY <1>9, NvFacts DEF NvOnFreed
<1> QED BY <1>1, <1>2, <1>3, <1>4, <1>5, <1>6, <1>7, <1>8, <1>9 DEF NvRun

(* The P5 listener.                                                        *)
LEMMA TypesP5 ==
    ASSUME Types, Bounds, P5Connect \/ P5Run
    PROVE  Types' /\ Bounds'
<1> USE Constants, Values DEF Types, Bounds, Carried, mainVars, sessVars, p5Vars, p7Vars, nvVars, airVars, vnfVars
<1>1. CASE P5Connect
  <2>1. vnf' \in VnfType /\ ~vnf'.waiting
    BY <1>1, VnfFacts DEF P5Connect
  <2>2. conns' \in 0 .. MaxConn /\ conns' >= 1
    BY <1>1 DEF P5Connect
  <2> QED BY <1>1, <2>1, <2>2 DEF P5Connect
<1>2. CASE P5Idle
  BY <1>2, LoopFacts DEF P5Idle
<1>3. CASE P5Runt
  BY <1>3, LoopFacts DEF P5Runt
<1>4. CASE Disconnected
  BY <1>4, LoopFacts, ResetFacts DEF Disconnected, CloseSession
<1>5. CASE P5Respond
  <2> PICK id \in AnsweredHere : Request(id) /\ Respond(id)
    BY <1>5 DEF P5Respond
  <2>1. id \in Id /\ inbox' \in Seq(Asks) /\ conns >= 1
    BY InboxFacts, ScriptFacts DEF AnsweredHere
  <2>2. txBuf' \in Msg /\ p5' \in {"tx", "tx_config"}
    BY <2>1, AnswerFacts DEF Respond
  <2> QED BY <1>5, <2>1, <2>2 DEF P5Respond
<1>6. CASE P5Forward
  <2> PICK id \in {"CONFIG", "STOP"} : Request(id) /\ ToAerial(id)
    BY <1>6 DEF P5Forward
  <2>1. id \in Id /\ inbox' \in Seq(Asks) /\ conns >= 1
    BY InboxFacts, ScriptFacts
  <2>2. Answer(id) \in Msg
    BY <2>1, AnswerFacts
  <2>3. toAerial' \in Seq(Msg) /\ lost' \in BOOLEAN
    <3>1. Append(toAerial, Answer(id)) \in Seq(Msg)
      BY <2>2, AppendProperties
    <3> QED BY <3>1 DEF ToAerial
  <2> QED BY <1>6, <2>1, <2>3, LoopFacts DEF P5Forward
<1>7. CASE P5Start
  <2>1. "START" \in Id /\ inbox' \in Seq(Asks) /\ conns >= 1
    BY <1>7, InboxFacts, ScriptFacts DEF P5Start
  <2>2. Answer("START") \in Msg
    BY <2>1, AnswerFacts
  <2>3. toAerial' \in Seq(Msg)
    <3>1. Append(toAerial, Answer("START")) \in Seq(Msg)
      BY <2>2, AppendProperties
    <3> QED BY <1>7, <3>1 DEF P5Start
  <2> QED BY <1>7, <2>1, <2>2, <2>3 DEF P5Start, Respond
<1>8. CASE P5PnfStart
  <2>1. "PNF_START" \in Id /\ inbox' \in Seq(Asks) /\ conns >= 1
    BY <1>8, InboxFacts, ScriptFacts DEF P5PnfStart
  <2>2. Answer("PNF_START") \in Msg
    BY <2>1, AnswerFacts
  <2>3. p5' \in {"tx", "join_failed"} /\ txBuf' \in Msg
    BY <1>8, <2>2 DEF P5PnfStart, Respond
  <2>4. state' \in StateOf /\ started' \in BOOLEAN /\ active' \in BOOLEAN
    BY <1>8 DEF P5PnfStart
  <2>5. lis' \in LisPc /\ rx' \in RxPc /\ queue' \in 0 .. QueueCap /\ inUse' = inUse
    BY <1>8 DEF P5PnfStart
  <2>6. queue' + Carried' <= inUse'
    BY <1>8 DEF P5PnfStart
  <2> QED BY <1>8, <2>1, <2>3, <2>4, <2>5, <2>6 DEF P5PnfStart
<1>9. CASE P5JoinFailed
  <2>1. "PNF_START" \in Id /\ conns >= 1
    BY <1>9, ScriptFacts DEF P5JoinFailed
  <2>2. Answer("PNF_START") \in Msg
    BY <2>1, AnswerFacts
  <2> QED BY <1>9, <2>2 DEF P5JoinFailed, Respond
<1>10. CASE P5Sent
  <2>1. vnf' \in VnfType /\ (vnf'.waiting => vnf'.at <= 7)
    BY <1>10, DeliveredFacts DEF P5Sent
  <2> QED BY <1>10, <2>1, LoopFacts DEF P5Sent
<1>11. CASE P5SendFails
  BY <1>11, LoopFacts, ResetFacts DEF P5SendFails, CloseSession
<1>12. CASE P5JoinListener
  BY <1>12 DEF P5JoinListener
<1>13. CASE P5JoinRx
  BY <1>13, LoopFacts, ResetFacts DEF P5JoinRx
<1> QED BY <1>1, <1>2, <1>3, <1>4, <1>5, <1>6, <1>7, <1>8, <1>9, <1>10, <1>11, <1>12, <1>13 DEF P5Run

(* Every step keeps the types.                                             *)
LEMMA TypesNext ==
    ASSUME Types, Bounds, [Next]_vars PROVE Types' /\ Bounds'
<1>1. CASE UNCHANGED vars
  BY <1>1 DEF vars, mainVars, sessVars, p5Vars, p7Vars, nvVars, airVars, vnfVars, Types, Bounds, Carried
<1> QED BY <1>1, TypesP7, TypesMain, TypesPeers, TypesNv, TypesP5 DEF Next

(* So does the start.                                                      *)
LEMMA TypesInit == Init => Types /\ Bounds
<1> SUFFICES ASSUME Init PROVE Types /\ Bounds
  OBVIOUS
<1>1. nv \in NvType /\ txBuf \in Msg /\ vnf \in VnfType /\ ~vnf.waiting
  BY Values, MsgFacts, NvFacts, VnfFacts DEF Init
<1>2. toAerial \in Seq(Msg) /\ fromAerial \in Seq(Msg) /\ inbox \in Seq(Asks)
  BY EmptySeq DEF Init
<1>3. queue \in 0 .. QueueCap /\ inUse \in 0 .. PoolSize /\ conns \in 0 .. MaxConn /\ runts \in 0 .. MaxRunts
  BY Constants DEF Init
<1>4. Bounds
  BY <1>1 DEF Init, Bounds, Carried
<1> QED BY <1>1, <1>2, <1>3, <1>4, Values DEF Init, Types

(* The types of the bridge's state: among them, that queue and pool stay   *)
(* within their sizes.                                                     *)
THEOREM AerialOaiTypeCorrect == Spec => []AerialOaiTypeOK
<1>1. Types /\ Bounds /\ [Next]_vars => (Types /\ Bounds)'
  BY TypesNext
<1> QED BY <1>1, TypesInit, TypesAre, PTL DEF Spec

-----------------------------------------------------------------------------
(* The actions that leave what the nvIPC thread sends alone.               *)
NotOfNv ==
    \/ StartPnfFails \/ P5Connect \/ P5Run \/ Listener \/ RxTask \/ Stop
    \/ StopJoinListener \/ Aerial \/ Others

(* A sequence number in use is that of the message being sent, or nobody   *)
(* sends any more: the PNF is freed once and never made again.             *)
SequenceOK ==
    /\ main = "init" => pnf = "none"
    /\ seqUsed => \/ nv.pc = "segment" /\ nv.seg > 0
                  \/ nv.pc # "segment" /\ pnf = "freed"

(* No action but those of main and of the nvIPC thread touches it.         *)
LEMMA SequenceUntouched ==
    ASSUME Types, SequenceOK, NotOfNv
    PROVE  SequenceOK'
<1>1. UNCHANGED <<pnf, nv, seqUsed>>
  <2> USE DEF mainVars, sessVars, p5Vars, p7Vars, nvVars, airVars, vnfVars
  <2>1. CASE StartPnfFails \/ Stop \/ StopJoinListener \/ Aerial \/ P5Connect
    BY <2>1 DEF StartPnfFails, Stop, StopJoinListener, Aerial, P5Connect
  <2>2. CASE Others
    BY <2>2 DEF Others, VnfAsk, VnfRunt, VnfLeave, AerialUp
  <2>3. CASE Listener \/ RxTask
    BY <2>3 DEF Listener, RxTask, LisIdle, LisReceive, LisPush, RxPop, RxDispatch
  <2>4. CASE P5Run
    BY <2>4 DEF P5Run, P5Idle, P5Runt, Disconnected, P5Respond, P5Forward, P5Start, P5PnfStart,
                P5JoinFailed, P5Sent, P5SendFails, P5JoinListener, P5JoinRx
  <2> QED BY <2>1, <2>2, <2>3, <2>4 DEF NotOfNv
<1>2. main' = "init" => main = "init"
  <2> USE DEF mainVars, sessVars, p5Vars, p7Vars, nvVars, airVars, vnfVars
  <2>1. CASE StartPnfFails \/ Stop \/ StopJoinListener \/ Aerial \/ P5Connect
    BY <2>1 DEF StartPnfFails, Stop, StopJoinListener, Aerial, P5Connect
  <2>2. CASE Others
    BY <2>2 DEF Others, VnfAsk, VnfRunt, VnfLeave, AerialUp
  <2>3. CASE Listener \/ RxTask
    BY <2>3 DEF Listener, RxTask, LisIdle, LisReceive, LisPush, RxPop, RxDispatch
  <2>4. CASE P5Run
    BY <2>4 DEF P5Run, P5Idle, P5Runt, Disconnected, P5Respond, P5Forward, P5Start, P5PnfStart,
                P5JoinFailed, P5Sent, P5SendFails, P5JoinListener, P5JoinRx
  <2> QED BY <2>1, <2>2, <2>3, <2>4 DEF NotOfNv
<1> QED BY <1>1, <1>2 DEF SequenceOK

(* Every step keeps it: a message that ends early uses its number up.      *)
LEMMA SequenceNext ==
    ASSUME Types, SequenceOK, [Next]_vars
    PROVE  SequenceOK'
<1> USE Values DEF mainVars, sessVars, p5Vars, p7Vars, nvVars, airVars, vnfVars
<1>1. CASE NotOfNv
  BY <1>1, SequenceUntouched
<1>2. CASE StartPnf
  BY <1>2 DEF StartPnf, SequenceOK
<1>3. CASE StopClose
  <2>1. (pnf' = pnf \/ pnf' = "freed") /\ main = "join_p5" /\ main' \in {"join_lis", "join_nv"} \cup {main}
    BY <1>3 DEF StopClose, CloseSession, FreePnf
  <2> QED BY <1>3, <2>1 DEF StopClose, SequenceOK
<1>4. CASE StopJoinRx
  BY <1>4 DEF StopJoinRx, FreePnf, SequenceOK
<1>5. CASE StopJoinNv
  BY <1>5 DEF StopJoinNv, SequenceOK
<1>6. CASE NvAttach \/ NvNotThere \/ NvTimeout \/ NvDrained
  <2>1. nv.pc # "segment" /\ nv'.pc # "segment" /\ UNCHANGED <<main, pnf, seqUsed>>
    BY <1>6, NvFacts DEF NvAttach, NvNotThere, NvTimeout, NvDrained
  <2> QED BY <2>1 DEF SequenceOK
<1>7. CASE NvP5
  <2>1. nv.pc # "segment" /\ UNCHANGED <<main, pnf, seqUsed>>
    BY <1>7 DEF NvP5, Take
  <2>2. Head(fromAerial) \in Msg
    BY <1>7, TailAt DEF NvP5, Take, Types
  <2>3. nv'.pc # "segment"
    <3>1. \/ nv' = [Nv("tx") EXCEPT !.msg = Head(fromAerial)]
          \/ nv' = Nv("drain")
      BY <1>7 DEF NvP5
    <3>2. ([Nv("tx") EXCEPT !.msg = Head(fromAerial)]).pc = "tx" /\ Nv("drain").pc = "drain"
      BY <2>2, NvFacts
    <3> QED BY <3>1, <3>2
  <2> QED BY <2>1, <2>3 DEF SequenceOK
<1>8. CASE NvSent
  <2>1. nv.pc # "segment" /\ nv'.pc # "segment" /\ UNCHANGED <<main, pnf, seqUsed>>
    BY <1>8, NvFacts DEF NvSent
  <2> QED BY <2>1 DEF SequenceOK
<1>9. CASE NvP7
  <2>1. nv.pc # "segment" /\ UNCHANGED <<main, pnf, seqUsed>>
    BY <1>9 DEF NvP7, Take
  <2>2. pnf = "up" \/ nv'.pc # "segment"
    BY <1>9, NvFacts DEF NvP7
  <2> QED BY <2>1, <2>2 DEF SequenceOK
<1>10. CASE NvSegment
  <2>1. UNCHANGED <<main, pnf>> /\ nv.pc = "segment"
    BY <1>10 DEF NvSegment
  <2>2. seqUsed' => nv' = [nv EXCEPT !.seg = @ + 1]
    BY <1>10 DEF NvSegment
  <2>3. nv' = [nv EXCEPT !.seg = @ + 1] => nv'.pc = "segment" /\ nv'.seg > 0
    <3>1. nv \in NvType /\ nv.seg \in Nat
      BY Constants DEF Types, NvType
    <3> QED BY <2>1, <3>1 DEF NvType
  <2> QED BY <2>1, <2>2, <2>3 DEF SequenceOK
<1>11. CASE NvOnFreed
  <2>1. pnf = "freed" /\ nv'.pc # "segment" /\ UNCHANGED <<main, pnf, seqUsed>>
    BY <1>11, NvFacts DEF NvOnFreed
  <2> QED BY <2>1 DEF SequenceOK
<1>12. CASE UNCHANGED vars
  BY <1>12 DEF vars, SequenceOK
<1> QED BY <1>1, <1>2, <1>3, <1>4, <1>5, <1>6, <1>7, <1>8, <1>9, <1>10, <1>11, <1>12
        DEF Next, NotOfNv, NvRun, Main

(* The datagrams the VNF joins under one sequence number are of one        *)
(* message, also after a message that could not be sent to its end.        *)
THEOREM OneMessagePerSequence == Spec => []UplinkWhole
<1>1. Init => SequenceOK
  BY DEF Init, SequenceOK
<1>2. Types /\ Bounds /\ SequenceOK /\ [Next]_vars => (Types /\ Bounds /\ SequenceOK)'
  BY TypesNext, SequenceNext
<1>3. SequenceOK => UplinkWhole
  BY DEF SequenceOK, UplinkWhole
<1> QED BY <1>1, <1>2, <1>3, TypesInit, PTL DEF Spec

-----------------------------------------------------------------------------
(* While the application runs, a thread of the data plane that has started *)
(* does not end: a teardown waits in its first join.  Until then the slots *)
(* in use are those of one data plane, which starts with none.             *)
PlaneOK ==
    /\ main = "init" =>
          /\ p5 = "off" /\ ~started /\ ~active
          /\ lis = "off" /\ rx = "off" /\ queue = 0 /\ inUse = 0
    /\ main = "up" =>
          /\ running /\ p5 \notin {"off", "join_rx", "exited"} /\ lis # "exited"
          /\ p5 = "join_lis" => started /\ ~active
          /\ p5 = "join_failed" => ~started /\ ~active
          /\ ~started => rx = "off"
          /\ ~started /\ p5 # "join_failed" => lis = "off" /\ inUse = 0
          /\ started /\ active => inUse = queue + Carried

(* The actions that leave the data plane and its starts and stops alone.   *)
NotOfPlane == NvAttach \/ NvRun \/ Aerial \/ Others

(* The data plane's own threads.                                           *)
LEMMA PlaneP7 ==
    ASSUME Types, Bounds, PlaneOK, Listener \/ RxTask
    PROVE  PlaneOK'
<1> USE DEF mainVars, sessVars, p5Vars, p7Vars, nvVars, airVars, vnfVars, PlaneOK, Carried
<1>1. CASE LisIdle
  BY <1>1 DEF LisIdle, Loop
<1>2. CASE LisReceive
  BY <1>2 DEF LisReceive, Types
<1>3. CASE LisPush
  BY <1>3 DEF LisPush, Loop, Types
<1>4. CASE RxPop
  BY <1>4 DEF RxPop, Types
<1>5. CASE RxDispatch
  BY <1>5 DEF RxDispatch, Types
<1> QED BY <1>1, <1>2, <1>3, <1>4, <1>5 DEF Listener, RxTask

(* The P5 listener, which starts a data plane and tears it down.           *)
LEMMA PlaneP5 ==
    ASSUME Types, Bounds, PlaneOK, P5Connect \/ P5Run
    PROVE  PlaneOK'
<1> USE DEF mainVars, sessVars, p5Vars, p7Vars, nvVars, airVars, vnfVars, PlaneOK, Carried
<1>1. CASE P5Connect
  BY <1>1 DEF P5Connect
<1>2. CASE P5Idle \/ P5Runt
  BY <1>2 DEF P5Idle, P5Runt, Loop
<1>3. CASE Disconnected
  BY <1>3, ResetFacts DEF Disconnected, CloseSession, Loop
<1>4. CASE P5Respond \/ P5Forward \/ P5Start
  BY <1>4 DEF P5Respond, P5Forward, P5Start, Respond, Request, Loop
<1>5. CASE P5PnfStart
  <2>1. main # "init" /\ p5 = "select" /\ UNCHANGED <<main, running>>
    BY <1>5 DEF P5PnfStart, Request
  <2>2. p5' = "tx" \/ p5' = "join_failed"
    BY <1>5 DEF P5PnfStart, Respond
  <2>3. CASE (state = "RUNNING" \/ started) /\ p5' = "tx" /\ UNCHANGED <<started, p7Vars>>
    BY <2>1, <2>3
  <2>4. CASE /\ ~started /\ p5' = "tx" /\ started' = TRUE /\ queue' = 0 /\ active' = TRUE
             /\ lis' = "select" /\ rx' = "pop" /\ inUse' = inUse
    BY <2>1, <2>4
  <2>5. CASE ~started /\ p5' = "tx" /\ UNCHANGED <<started, lis, rx, inUse>>
    BY <2>1, <2>5
  <2>6. CASE /\ ~started /\ p5' = "join_failed" /\ active' = FALSE /\ lis' = "select"
             /\ UNCHANGED <<started, rx, inUse>>
    BY <2>1, <2>6
  <2> QED BY <1>5, <2>3, <2>4, <2>5, <2>6 DEF P5PnfStart, Respond
<1>6. CASE P5JoinFailed
  BY <1>6 DEF P5JoinFailed, Respond
<1>7. CASE P5Sent
  BY <1>7 DEF P5Sent, Loop, Sending
<1>8. CASE P5SendFails
  BY <1>8, ResetFacts DEF P5SendFails, CloseSession, Loop, Sending
<1>9. CASE P5JoinListener \/ P5JoinRx
  BY <1>9, ResetFacts DEF P5JoinListener, P5JoinRx, Loop
<1> QED BY <1>1, <1>2, <1>3, <1>4, <1>5, <1>6, <1>7, <1>8, <1>9 DEF P5Run

(* Every step keeps it.                                                    *)
LEMMA PlaneNext ==
    ASSUME Types, Bounds, PlaneOK, [Next]_vars
    PROVE  PlaneOK'
<1> USE DEF mainVars, sessVars, p5Vars, p7Vars, nvVars, airVars, vnfVars
<1>1. CASE NotOfPlane \/ UNCHANGED vars
  <2>1. UNCHANGED <<main, running, p5, started, p7Vars>>
    <3>1. CASE NvAttach \/ NvRun
      BY <3>1 DEF NvAttach, NvRun, NvNotThere, NvTimeout, NvDrained, NvP5, NvSent, NvP7, NvSegment, NvOnFreed
    <3>2. CASE Aerial \/ Others
      BY <3>2 DEF Aerial, Others, VnfAsk, VnfRunt, VnfLeave, AerialUp
    <3>3. CASE UNCHANGED vars
      BY <3>3 DEF vars
    <3> QED BY <1>1, <3>1, <3>2, <3>3 DEF NotOfPlane
  <2> QED BY <2>1 DEF PlaneOK, Carried
<1>2. CASE StartPnf
  BY <1>2 DEF StartPnf, PlaneOK, Carried
<1>3. CASE StartPnfFails \/ Stop \/ StopJoinListener \/ StopJoinRx \/ StopJoinNv
  <2>1. main' \notin {"init", "up"}
    BY <1>3 DEF StartPnfFails, Stop, StopJoinListener, StopJoinRx, StopJoinNv, FreePnf
  <2> QED BY <2>1 DEF PlaneOK
<1>4. CASE StopClose
  <2>1. main' \notin {"init", "up"}
    BY <1>4 DEF StopClose, CloseSession, FreePnf
  <2> QED BY <2>1 DEF PlaneOK
<1> QED BY <1>1, <1>2, <1>3, <1>4, PlaneP7, PlaneP5 DEF Next, NotOfPlane, Main

(* What the listener and rx_task carry, as the property counts it.         *)
LEMMA CarriedIs == Cardinality({t \in {1, 2} : <<lis = "push", rx = "dispatch">>[t]}) = Carried
<1> PICK S : S = {t \in {1, 2} : <<lis = "push", rx = "dispatch">>[t]}
  OBVIOUS
<1>1. S \subseteq {1, 2} /\ (1 \in S <=> lis = "push") /\ (2 \in S <=> rx = "dispatch")
  OBVIOUS
<1>2. Cardinality({}) = 0 /\ Cardinality({1}) = 1 /\ Cardinality({2}) = 1
  BY FS_EmptySet, FS_Singleton
<1>3. Cardinality({1, 2}) = 2
  <2>1. Cardinality({1} \cup {2}) = Cardinality({1}) + 1
    <3>1. IsFiniteSet({1})
      BY FS_Singleton
    <3>2. 2 \notin {1}
      OBVIOUS
    <3> QED BY <3>1, <3>2, FS_AddElement
  <2>2. {1} \cup {2} = {1, 2}
    OBVIOUS
  <2> QED BY <1>2, <2>1, <2>2
<1>4. CASE lis = "push" /\ rx = "dispatch"
  <2>1. S = {1, 2}
    BY <1>1, <1>4
  <2> QED BY <1>3, <1>4, <2>1 DEF Carried
<1>5. CASE lis = "push" /\ rx # "dispatch"
  <2>1. S = {1}
    BY <1>1, <1>5
  <2> QED BY <1>2, <1>5, <2>1 DEF Carried
<1>6. CASE lis # "push" /\ rx = "dispatch"
  <2>1. S = {2}
    BY <1>1, <1>6
  <2> QED BY <1>2, <1>6, <2>1 DEF Carried
<1>7. CASE lis # "push" /\ rx # "dispatch"
  <2>1. S = {}
    BY <1>1, <1>7
  <2> QED BY <1>2, <1>7, <2>1 DEF Carried
<1> QED BY <1>4, <1>5, <1>6, <1>7

(* No slot of the rx pool is lost or counted twice while the data plane is *)
(* up, whatever associations, failed starts and teardowns came before.     *)
THEOREM RxSlotsHeld == Spec => []SlotsHeld
<1>1. Init => PlaneOK
  BY DEF Init, PlaneOK, Carried
<1>2. Types /\ Bounds /\ PlaneOK /\ [Next]_vars => (Types /\ Bounds /\ PlaneOK)'
  BY TypesNext, PlaneNext
<1>3. PlaneOK => SlotsHeld
  BY CarriedIs DEF PlaneOK, SlotsHeld
<1> QED BY <1>1, <1>2, <1>3, TypesInit, PTL DEF Spec

-----------------------------------------------------------------------------
(* Message id of association c.                                            *)
Reply(id, c) == [id |-> id, of |-> c]

(* The requests of association c that Aerial answers, the messages of      *)
(* later ones, and the requests Aerial does not answer.                    *)
Mine(c)   == {m \in Msg : m.id \notin {"START", "UP"} /\ m.of = c}
Future(c) == {m \in Msg : m.of > c}
Starts    == {m \in Msg : m.id = "START"}

(* Which message is of which kind.                                         *)
LEMMA MineFacts ==
    /\ \A id \in Id, c \in 1 .. MaxConn :
          /\ Reply(id, c) \in Msg /\ Reply(id, c).id = id /\ Reply(id, c).of = c
          /\ Reply(id, c) \notin Future(c)
          /\ Reply(id, c) \in Mine(c) <=> id # "START"
    /\ \A c : \A m \in Mine(c) : m \in Msg /\ m.of = c /\ m.id \notin {"START", "UP"}
    /\ \A m \in Msg : m.id \notin {"START", "UP"} => m \in Mine(m.of)
    /\ \A c \in Nat : Mine(c + 1) \subseteq Future(c) /\ Nothing \notin Mine(c) /\ Nothing \notin Future(c)
    /\ Nothing \notin Starts
    /\ \A c \in Nat : \A m \in Msg : m \notin Future(c) <=> m.of <= c
    /\ \A m \in Msg : m \in Starts <=> m.id = "START"
<1>1. ASSUME NEW id \in Id, NEW c \in 1 .. MaxConn
      PROVE  /\ Reply(id, c) \in Msg /\ Reply(id, c).id = id /\ Reply(id, c).of = c
             /\ Reply(id, c) \notin Future(c)
             /\ Reply(id, c) \in Mine(c) <=> id # "START"
  <2>1. Reply(id, c) \in Msg /\ Reply(id, c).id = id /\ Reply(id, c).of = c
    BY MsgFacts DEF Reply
  <2>2. c \in Nat /\ id # "UP"
    BY Constants, ScriptFacts
  <2> QED BY <2>1, <2>2 DEF Future, Mine
<1>2. \A c \in Nat : Mine(c + 1) \subseteq Future(c) /\ Nothing \notin Mine(c) /\ Nothing \notin Future(c)
  BY MsgFacts DEF Mine, Future
<1>3. \A m \in Msg : m.of \in Nat
  BY MsgFacts, Constants
<1>4. \A c \in Nat : \A m \in Msg : m \notin Future(c) <=> m.of <= c
  BY <1>3 DEF Future
<1> QED BY <1>1, <1>2, <1>4, MsgFacts DEF Mine, Starts

(* The association the messages are of.                                    *)
LEMMA ReplyFacts ==
    /\ \A id : Answer(id) = Reply(id, conns)
    /\ \A a, b, c, d : Reply(a, c) = Reply(b, d) => a = b /\ c = d
<1>1. \A id : Answer(id) = Reply(id, conns)
  BY DEF Answer, Reply
<1>2. \A a, c : Reply(a, c).id = a /\ Reply(a, c).of = c
  BY DEF Reply
<1> QED BY <1>1, <1>2

-----------------------------------------------------------------------------
(* Requests of this association under way to Aerial and back.              *)
InQueues == SomeIn(toAerial, Mine(conns)) \/ SomeIn(fromAerial, Mine(conns))
OnNv     == nv.pc = "tx" /\ nv.msg \in Mine(conns)

(* What the VNF asks, or asked last.                                       *)
Asked == Reply(Script[vnf.at], conns)

(* Messages are of this association or an earlier one; Aerial answers no   *)
(* START.                                                                  *)
PastOK ==
    /\ txBuf.of <= conns /\ nv.msg.of <= conns
    /\ ~SomeIn(toAerial, Future(conns)) /\ ~SomeIn(fromAerial, Future(conns))
    /\ ~SomeIn(fromAerial, Starts) /\ (nv.pc = "tx" => nv.msg.id \notin {"START", "UP"})

(* A request of this association is in one place.                          *)
OnePlace ==
    /\ AtMostOneIn(inbox, Id) /\ AtMostOneIn(toAerial, Mine(conns)) /\ AtMostOneIn(fromAerial, Mine(conns))
    /\ ~(SomeIn(toAerial, Mine(conns)) /\ SomeIn(fromAerial, Mine(conns)))
    /\ OnNv => ~InQueues
    /\ SomeIn(inbox, Id) \/ Sending \/ p5 = "join_failed" => ~InQueues /\ ~OnNv
    /\ sock = "none" => inbox = <<>>

(* While the VNF stays, that request is the one it waits for, and no       *)
(* answer to it or to a later one is in p5_tx_buf before its time: nobody  *)
(* lets the VNF go on while its request is still under way.                *)
InTurn ==
    sock = "up" =>
        /\ \A k \in 1 .. 7 : k > vnf.at \/ (k = vnf.at /\ ~vnf.waiting) => txBuf # Reply(Script[k], conns)
        /\ SomeIn(inbox, Id) => vnf.waiting /\ txBuf # Asked /\ p5 # "join_failed"
        /\ p5 = "join_failed" => vnf.waiting /\ Script[vnf.at] = "PNF_START" /\ txBuf # Asked
        /\ InQueues => vnf.waiting /\ txBuf # Asked
        /\ vnf.waiting => /\ ~SomeIn(inbox, Id \ {Script[vnf.at]})
                          /\ ~SomeIn(toAerial, Mine(conns) \ {Asked})
                          /\ ~SomeIn(fromAerial, Mine(conns) \ {Asked})
        /\ OnNv => vnf.waiting /\ nv.msg = Asked

Order == PastOK /\ OnePlace /\ InTurn

(* p5_listener comes to no send and the nvIPC thread to no P5 message.     *)
P5Quiet == p5' = p5 \/ p5' \notin {"tx", "tx_config", "join_failed"}
NvQuiet == nv' = nv \/ (nv'.pc # "tx" /\ nv'.msg.of <= conns)

(* Steps that move no message.                                             *)
LEMMA OrderQuiet ==
    ASSUME Order, P5Quiet, NvQuiet,
           UNCHANGED <<sock, conns, vnf, inbox, txBuf, toAerial, fromAerial>>
    PROVE  Order'
<1>1. /\ sock' = sock /\ conns' = conns /\ vnf' = vnf /\ inbox' = inbox /\ txBuf' = txBuf
      /\ toAerial' = toAerial /\ fromAerial' = fromAerial
  OBVIOUS
<1>2. (InQueues' <=> InQueues) /\ (OnNv' => OnNv) /\ Asked' = Asked
  BY <1>1 DEF NvQuiet, InQueues, OnNv, Asked
<1>3. (OnNv' => nv' = nv) /\ (Sending' => Sending) /\ (p5' = "join_failed" => p5 = "join_failed")
  BY DEF NvQuiet, OnNv, P5Quiet, Sending
<1>4. PastOK'
  BY <1>1 DEF Order, PastOK, NvQuiet
<1>5. OnePlace'
  BY <1>1, <1>2, <1>3 DEF Order, OnePlace
<1>6. InTurn'
  BY <1>1, <1>2, <1>3 DEF Order, InTurn
<1> QED BY <1>4, <1>5, <1>6 DEF Order

(* The association ends.                                                   *)
LEMMA OrderGone ==
    ASSUME Order, P5Quiet, sock' # "up", sock' = "none" => inbox' = <<>>, inbox' = inbox \/ inbox' = <<>>,
           UNCHANGED <<conns, txBuf, toAerial, fromAerial, nv>>
    PROVE  Order'
<1>1. /\ conns' = conns /\ txBuf' = txBuf /\ toAerial' = toAerial /\ fromAerial' = fromAerial /\ nv' = nv
  OBVIOUS
<1>2. (InQueues' <=> InQueues) /\ (OnNv' <=> OnNv)
  BY <1>1 DEF InQueues, OnNv
<1>3. (Sending' => Sending) /\ (p5' = "join_failed" => p5 = "join_failed")
  BY DEF P5Quiet, Sending
<1>4. PastOK'
  BY <1>1 DEF Order, PastOK
<1>5. AtMostOneIn(inbox', Id) /\ (SomeIn(inbox', Id) => SomeIn(inbox, Id))
  BY NoneInEmpty DEF Order, OnePlace
<1>6. OnePlace'
  BY <1>1, <1>2, <1>3, <1>5 DEF Order, OnePlace
<1>7. InTurn'
  BY DEF InTurn
<1> QED BY <1>4, <1>6, <1>7 DEF Order

(* What p5_tx_buf holds reaches the VNF.                                   *)
LEMMA OrderDelivered ==
    ASSUME Types, Bounds, Order, P5Quiet, NvQuiet, Sending \/ (nv.pc = "tx" /\ nv'.pc # "tx"),
           IF sock = "up" THEN Delivered(txBuf) ELSE UNCHANGED vnf,
           UNCHANGED <<sock, conns, inbox, txBuf, toAerial, fromAerial>>
    PROVE  Order'
<1>1. /\ sock' = sock /\ conns' = conns /\ inbox' = inbox /\ txBuf' = txBuf
      /\ toAerial' = toAerial /\ fromAerial' = fromAerial
  OBVIOUS
<1>2. CASE vnf' = vnf
  BY <1>1, <1>2, OrderQuiet
<1>3. CASE sock = "up" /\ vnf.waiting /\ txBuf = Asked /\ vnf'.at = vnf.at + 1 /\ ~vnf'.waiting
  <2>1. ~InQueues /\ ~SomeIn(inbox, Id) /\ p5 # "join_failed"
    BY <1>3 DEF Order, InTurn
  <2>2. ~OnNv'
    BY <1>1 DEF NvQuiet, OnNv, Order, OnePlace
  <2>3. ~InQueues' /\ ~SomeIn(inbox', Id) /\ p5' # "join_failed"
    BY <1>1, <2>1 DEF InQueues, P5Quiet
  <2>4. PastOK'
    BY <1>1 DEF Order, PastOK, NvQuiet
  <2>5. OnePlace'
    BY <1>1, <2>2, <2>3 DEF Order, OnePlace
  <2>6. ~SomeIn(toAerial', Mine(conns') \ {Asked'}) /\ ~SomeIn(fromAerial', Mine(conns') \ {Asked'})
    BY <2>3, NoneInMore DEF InQueues
  <2>7. ~SomeIn(inbox', Id \ {Script[vnf'.at]})
    BY <2>3, NoneInMore
  <2>8. ASSUME NEW k \in 1 .. 7, k > vnf'.at \/ k = vnf'.at PROVE txBuf' # Reply(Script[k], conns')
    <3>1. vnf.at \in 1 .. 7 /\ k # vnf.at
      BY <1>3, <2>8 DEF Types, Bounds, VnfType
    <3>2. Script[k] # Script[vnf.at]
      BY <3>1, ScriptFacts
    <3> QED BY <1>1, <1>3, <3>2, ReplyFacts DEF Asked
  <2>9. InTurn'
    BY <2>2, <2>3, <2>6, <2>7, <2>8 DEF InTurn
  <2> QED BY <2>4, <2>5, <2>9 DEF Order
<1>4. sock = "up" => vnf' = vnf \/ (vnf.waiting /\ txBuf = Asked /\ vnf'.at = vnf.at + 1 /\ ~vnf'.waiting)
  BY DeliveredFacts, ReplyFacts DEF Types, Bounds, Asked
<1> QED BY <1>2, <1>3, <1>4

(* The request that p5_listener reads is what the VNF waits for, and the   *)
(* only one of its association.                                            *)
LEMMA RequestIs ==
    ASSUME Types, Bounds, Order, NEW id \in Id, Request(id)
    PROVE  /\ p5 = "select" /\ sock # "none" /\ conns \in 1 .. MaxConn
           /\ ~InQueues /\ ~OnNv
           /\ ~SomeIn(inbox', Id) /\ AtMostOneIn(inbox', Id)
           /\ ~SomeIn(inbox', Id \ {Script[vnf.at]})
           /\ sock = "up" => vnf.waiting /\ vnf.at \in 1 .. 7 /\ id = Script[vnf.at] /\ txBuf # Asked
<1>1. p5 = "select" /\ inbox # <<>> /\ Head(inbox) = id /\ inbox' = Tail(inbox) /\ inbox \in Seq(Asks)
  BY DEF Request, Types
<1>2. sock # "none" /\ conns \in 1 .. MaxConn
  BY <1>1, Constants DEF Order, OnePlace, Bounds, Types
<1>3. SomeIn(inbox, Id) /\ ~SomeIn(inbox', Id) /\ AtMostOneIn(inbox', Id)
  BY <1>1, InTail DEF Order, OnePlace
<1>4. ~InQueues /\ ~OnNv
  BY <1>3 DEF Order, OnePlace
<1>5. ASSUME sock = "up" PROVE vnf.waiting /\ vnf.at \in 1 .. 7 /\ id = Script[vnf.at] /\ txBuf # Asked
  <2>1. vnf.waiting /\ txBuf # Asked /\ ~SomeIn(inbox, Id \ {Script[vnf.at]})
    BY <1>3, <1>5 DEF Order, InTurn
  <2>2. id \notin Id \ {Script[vnf.at]}
    BY <1>1, <2>1, InTail
  <2>3. vnf.at \in 1 .. 7
    BY <2>1 DEF Types, Bounds, VnfType
  <2> QED BY <2>1, <2>2, <2>3
<1>6. ~SomeIn(inbox', Id \ {Script[vnf.at]})
  BY <1>3, NoneInMore
<1> QED BY <1>1, <1>2, <1>3, <1>4, <1>5, <1>6

(* p5_listener packs the answer to the request it has read, or to the      *)
(* PNF_START it could not carry out.                                       *)
LEMMA OrderRespond ==
    ASSUME Types, Order, NEW id \in Id, Respond(id),
           conns \in 1 .. MaxConn, ~InQueues, ~OnNv,
           sock = "none" => inbox' = <<>>, ~SomeIn(inbox', Id), AtMostOneIn(inbox', Id),
           toAerial' = toAerial \/ toAerial' = Append(toAerial, Reply("START", conns)),
           sock = "up" => vnf.waiting /\ vnf.at \in 1 .. 7 /\ id = Script[vnf.at],
           UNCHANGED <<sock, conns, vnf, fromAerial, nv>>
    PROVE  Order'
<1>1. /\ sock' = sock /\ conns' = conns /\ vnf' = vnf /\ fromAerial' = fromAerial /\ nv' = nv
  OBVIOUS
<1>2. txBuf' = Reply(id, conns) /\ p5' \in {"tx", "tx_config"}
  BY ReplyFacts DEF Respond
<1>3. txBuf'.of = conns
  BY <1>2, MineFacts
<1>4. /\ "START" \in Id /\ Reply("START", conns) \in Msg
      /\ Reply("START", conns) \notin Mine(conns) /\ Reply("START", conns) \notin Future(conns)
  BY MineFacts, ScriptFacts
<1>5. ~SomeIn(toAerial', Mine(conns)) /\ ~SomeIn(toAerial', Future(conns))
  <2>1. ~SomeIn(toAerial, Mine(conns)) /\ ~SomeIn(toAerial, Future(conns)) /\ toAerial \in Seq(Msg)
    BY DEF Order, PastOK, InQueues, Types
  <2> QED BY <1>4, <2>1, InAppended
<1>6. ~InQueues' /\ ~OnNv'
  BY <1>1, <1>5 DEF InQueues, OnNv
<1>7. PastOK'
  BY <1>1, <1>3, <1>5, Constants DEF Order, PastOK, Types
<1>8. AtMostOneIn(toAerial', Mine(conns))
  BY <1>5, NoneInMore
<1>9. OnePlace'
  BY <1>1, <1>6, <1>8 DEF Order, OnePlace, InQueues
<1>10. InTurn'
  <2> SUFFICES ASSUME sock = "up" PROVE InTurn'
    BY <1>1 DEF InTurn
  <2>1. ~SomeIn(toAerial', Mine(conns') \ {Asked'}) /\ ~SomeIn(fromAerial', Mine(conns') \ {Asked'})
    BY <1>6, NoneInMore DEF InQueues
  <2>2. ~SomeIn(inbox', Id \ {Script[vnf'.at]})
    BY NoneInMore
  <2>3. ASSUME NEW k \in 1 .. 7, k > vnf'.at \/ (k = vnf'.at /\ ~vnf'.waiting)
        PROVE  txBuf' # Reply(Script[k], conns')
    <3>1. vnf.at \in 1 .. 7 /\ k # vnf.at /\ id = Script[vnf.at]
      BY <1>1, <2>3
    <3>2. Script[k] # id
      BY <3>1, ScriptFacts
    <3> QED BY <1>1, <1>2, <3>2, ReplyFacts
  <2>4. p5' # "join_failed"
    BY <1>2
  <2> QED BY <1>6, <2>1, <2>2, <2>3, <2>4 DEF InTurn
<1> QED BY <1>7, <1>9, <1>10 DEF Order

(* p5_listener hands a request to Aerial, or loses it on the way.          *)
LEMMA OrderForward ==
    ASSUME Types, Bounds, Order, P5Forward
    PROVE  Order'
<1> USE DEF mainVars, sessVars, p5Vars, p7Vars, nvVars, airVars, vnfVars
<1> PICK id \in {"CONFIG", "STOP"} : Request(id) /\ ToAerial(id)
  BY DEF P5Forward
<1> PICK m : m = Reply(id, conns)
  OBVIOUS
<1>1. id \in Id /\ id # "START"
  BY ScriptFacts
<1>2. /\ p5 = "select" /\ sock # "none" /\ conns \in 1 .. MaxConn /\ ~InQueues /\ ~OnNv
      /\ ~SomeIn(inbox', Id) /\ AtMostOneIn(inbox', Id) /\ ~SomeIn(inbox', Id \ {Script[vnf.at]})
      /\ sock = "up" => vnf.waiting /\ vnf.at \in 1 .. 7 /\ id = Script[vnf.at] /\ txBuf # Asked
  BY <1>1, RequestIs
<1>3. /\ sock' = sock /\ conns' = conns /\ vnf' = vnf /\ fromAerial' = fromAerial /\ nv' = nv /\ txBuf' = txBuf
      /\ p5' \notin {"tx", "tx_config", "join_failed"}
  BY DEF P5Forward, Loop
<1>4. toAerial' = toAerial \/ toAerial' = Append(toAerial, m)
  BY ReplyFacts DEF ToAerial
<1>5. m \in Msg /\ m \in Mine(conns) /\ m \notin Future(conns)
  BY <1>1, <1>2, MineFacts
<1>6. toAerial \in Seq(Msg) /\ ~SomeIn(toAerial, Mine(conns)) /\ ~SomeIn(toAerial, Future(conns))
  BY <1>2 DEF InQueues, Order, PastOK, Types
<1>7. ~SomeIn(toAerial', Future(conns)) /\ AtMostOneIn(toAerial', Mine(conns)) /\ ~SomeIn(fromAerial, Mine(conns))
  <2>1. AtMostOneIn(toAerial, Mine(conns))
    BY DEF Order, OnePlace
  <2>2. AtMostOneIn(Append(toAerial, m), Mine(conns)) /\ ~SomeIn(Append(toAerial, m), Future(conns))
    BY <1>5, <1>6, <2>1, InAppended
  <2> QED BY <1>2, <1>4, <1>6, <2>1, <2>2 DEF InQueues
<1>8. ~OnNv' /\ ~Sending'
  BY <1>2, <1>3 DEF OnNv, Sending
<1>9. PastOK'
  BY <1>3, <1>7 DEF Order, PastOK
<1>10. OnePlace'
  BY <1>2, <1>3, <1>7, <1>8 DEF Order, OnePlace
<1>11. InTurn'
  <2> SUFFICES ASSUME sock = "up" PROVE InTurn'
    BY <1>3 DEF InTurn
  <2>1. Asked' = Asked /\ Asked = m
    BY <1>2, <1>3 DEF Asked
  <2>2. ~SomeIn(toAerial', Mine(conns) \ {m})
    <3>1. ~SomeIn(toAerial, Mine(conns) \ {m})
      BY <1>6, NoneInMore
    <3>2. ~SomeIn(Append(toAerial, m), Mine(conns) \ {m})
      BY <1>5, <1>6, <3>1, InAppended
    <3> QED BY <1>4, <3>1, <3>2
  <2>3. ~SomeIn(fromAerial, Mine(conns) \ {m})
    BY <1>7, NoneInMore
  <2> QED BY <1>2, <1>3, <1>8, <2>1, <2>2, <2>3 DEF Order, InTurn
<1> QED BY <1>9, <1>10, <1>11 DEF Order

(* The answers of p5_listener.                                             *)
LEMMA OrderAnswers ==
    ASSUME Types, Bounds, Order, P5Respond \/ P5Start \/ P5PnfStart \/ P5JoinFailed
    PROVE  Order'
<1> USE DEF mainVars, sessVars, p5Vars, p7Vars, nvVars, airVars, vnfVars
<1>0. UNCHANGED <<sock, conns, vnf, fromAerial, nv>>
  BY DEF P5Respond, P5Start, P5PnfStart, P5JoinFailed
<1>1. ASSUME NEW id \in Id, Request(id), Respond(id),
             toAerial' = toAerial \/ toAerial' = Append(toAerial, Reply("START", conns))
      PROVE  Order'
  <2>1. /\ sock # "none" /\ conns \in 1 .. MaxConn /\ ~InQueues /\ ~OnNv
        /\ ~SomeIn(inbox', Id) /\ AtMostOneIn(inbox', Id)
        /\ sock = "up" => vnf.waiting /\ vnf.at \in 1 .. 7 /\ id = Script[vnf.at]
    BY <1>1, RequestIs
  <2> QED BY <1>0, <1>1, <2>1, OrderRespond
<1>2. CASE P5Respond
  <2> PICK id \in AnsweredHere : Request(id) /\ Respond(id)
    BY <1>2 DEF P5Respond
  <2>1. id \in Id /\ toAerial' = toAerial
    BY <1>2, ScriptFacts DEF AnsweredHere, P5Respond
  <2> QED BY <1>1, <2>1
<1>3. CASE P5Start
  <2>1. "START" \in Id /\ Request("START") /\ Respond("START")
    BY <1>3, ScriptFacts DEF P5Start
  <2>2. toAerial' = toAerial \/ toAerial' = Append(toAerial, Reply("START", conns))
    BY <1>3, ReplyFacts DEF P5Start
  <2> QED BY <1>1, <2>1, <2>2
<1>4. CASE P5PnfStart
  <2>1. "PNF_START" \in Id /\ Request("PNF_START") /\ toAerial' = toAerial
    BY <1>4, ScriptFacts DEF P5PnfStart
  <2>2. CASE Respond("PNF_START")
    BY <1>1, <2>1, <2>2
  <2>3. CASE p5' = "join_failed" /\ txBuf' = txBuf
    <3>1. /\ p5 = "select" /\ sock # "none" /\ conns \in 1 .. MaxConn /\ ~InQueues /\ ~OnNv
          /\ ~SomeIn(inbox', Id) /\ AtMostOneIn(inbox', Id) /\ ~SomeIn(inbox', Id \ {Script[vnf.at]})
          /\ sock = "up" => vnf.waiting /\ vnf.at \in 1 .. 7 /\ "PNF_START" = Script[vnf.at] /\ txBuf # Asked
      BY <2>1, RequestIs
    <3>2. /\ sock' = sock /\ conns' = conns /\ vnf' = vnf /\ fromAerial' = fromAerial /\ nv' = nv
          /\ toAerial' = toAerial /\ txBuf' = txBuf /\ p5' = "join_failed"
      BY <1>0, <2>1, <2>3
    <3>3. ~InQueues' /\ ~OnNv' /\ Asked' = Asked /\ ~Sending'
      BY <3>1, <3>2 DEF InQueues, OnNv, Asked, Sending
    <3>4. PastOK'
      BY <3>2 DEF Order, PastOK
    <3>5. OnePlace'
      BY <3>1, <3>2, <3>3 DEF Order, OnePlace
    <3>6. InTurn'
      BY <3>1, <3>2, <3>3 DEF Order, InTurn
    <3> QED BY <3>4, <3>5, <3>6 DEF Order
  <2> QED BY <1>4, <2>2, <2>3 DEF P5PnfStart
<1>5. CASE P5JoinFailed
  <2>1. "PNF_START" \in Id /\ p5 = "join_failed" /\ Respond("PNF_START")
    BY <1>5, ScriptFacts DEF P5JoinFailed
  <2>2. inbox' = inbox /\ toAerial' = toAerial
    BY <1>5 DEF P5JoinFailed
  <2>3. ~InQueues /\ ~OnNv /\ AtMostOneIn(inbox', Id) /\ (sock = "none" => inbox' = <<>>)
    BY <2>1, <2>2 DEF Order, OnePlace
  <2>4. conns \in 1 .. MaxConn
    BY <2>1, Constants DEF Bounds, Types
  <2>5. CASE sock = "up"
    <3>1. ~SomeIn(inbox', Id) /\ vnf.waiting /\ Script[vnf.at] = "PNF_START"
      BY <2>1, <2>2, <2>5 DEF Order, InTurn
    <3>2. vnf.at \in 1 .. 7
      BY <3>1 DEF Types, Bounds, VnfType
    <3> QED BY <1>0, <2>1, <2>2, <2>3, <2>4, <3>1, <3>2, OrderRespond
  <2>6. CASE sock # "up"
    <3>1. /\ sock' = sock /\ conns' = conns /\ fromAerial' = fromAerial /\ nv' = nv
          /\ toAerial' = toAerial /\ inbox' = inbox /\ p5' \in {"tx", "tx_config"} /\ txBuf'.of = conns
      BY <1>0, <2>1, <2>2 DEF Respond, Answer
    <3>2. ~InQueues' /\ ~OnNv'
      BY <2>3, <3>1 DEF InQueues, OnNv
    <3>3. PastOK'
      BY <3>1, <2>4, Constants DEF Order, PastOK, Types
    <3>4. OnePlace'
      BY <3>1, <3>2 DEF Order, OnePlace
    <3>5. InTurn'
      BY <2>6, <3>1 DEF InTurn
    <3> QED BY <3>3, <3>4, <3>5 DEF Order
  <2> QED BY <2>5, <2>6
<1> QED BY <1>2, <1>3, <1>4, <1>5

(* An association begins: every message is of an earlier one.              *)
LEMMA OrderConnect ==
    ASSUME Types, Bounds, Order, P5Connect
    PROVE  Order'
<1> USE DEF mainVars, sessVars, p5Vars, p7Vars, nvVars, airVars, vnfVars
<1>1. /\ sock = "none" /\ p5 = "select" /\ p5' = p5 /\ conns' = conns + 1 /\ inbox' = inbox /\ txBuf' = txBuf
      /\ toAerial' = toAerial /\ fromAerial' = fromAerial /\ nv' = nv /\ vnf' = Fresh
  BY DEF P5Connect
<1>2. conns \in Nat /\ txBuf \in Msg /\ nv.msg \in Msg /\ toAerial \in Seq(Msg) /\ fromAerial \in Seq(Msg)
  BY Constants DEF Types, NvType
<1>3. inbox' = <<>>
  BY <1>1 DEF Order, OnePlace
<1>4. Mine(conns + 1) \subseteq Future(conns) /\ Future(conns + 1) \subseteq Future(conns)
  <2>1. Mine(conns + 1) \subseteq Future(conns)
    BY <1>2, MineFacts
  <2>2. \A m \in Msg : m.of \in Nat
    BY MsgFacts, Constants
  <2>3. Future(conns + 1) \subseteq Future(conns)
    BY <1>2, <2>2 DEF Future
  <2> QED BY <2>1, <2>3
<1>5. /\ ~SomeIn(toAerial, Mine(conns + 1)) /\ ~SomeIn(toAerial, Future(conns + 1))
      /\ ~SomeIn(fromAerial, Mine(conns + 1)) /\ ~SomeIn(fromAerial, Future(conns + 1))
  BY <1>4, NoneInMore DEF Order, PastOK
<1>6. txBuf.of <= conns /\ nv.msg.of <= conns /\ txBuf.of \in Nat /\ nv.msg.of \in Nat
  BY <1>2, MsgFacts, Constants DEF Order, PastOK
<1>7. txBuf.of # conns + 1 /\ nv.msg.of # conns + 1 /\ txBuf.of <= conns + 1 /\ nv.msg.of <= conns + 1
  BY <1>2, <1>6
<1>8. ~InQueues' /\ ~OnNv'
  BY <1>1, <1>5, <1>7, MineFacts DEF InQueues, OnNv
<1>9. PastOK'
  BY <1>1, <1>5, <1>7 DEF Order, PastOK
<1>10. OnePlace'
  <2>1. AtMostOneIn(toAerial, Mine(conns + 1)) /\ AtMostOneIn(fromAerial, Mine(conns + 1)) /\ AtMostOneIn(inbox', Id)
    BY <1>3, <1>5, NoneInMore, NoneInEmpty
  <2> QED BY <1>1, <1>3, <1>8, <2>1 DEF OnePlace, InQueues
<1>11. InTurn'
  <2>1. ~SomeIn(inbox', Id) /\ ~SomeIn(inbox', Id \ {Script[vnf'.at]})
    BY <1>3, NoneInEmpty
  <2>2. /\ ~SomeIn(toAerial', Mine(conns') \ {Asked'})
        /\ ~SomeIn(fromAerial', Mine(conns') \ {Asked'})
    BY <1>1, <1>5, NoneInMore
  <2>3. \A k \in 1 .. 7 : txBuf' # Reply(Script[k], conns')
    BY <1>1, <1>7 DEF Reply
  <2> QED BY <1>1, <1>8, <2>1, <2>2, <2>3 DEF InTurn
<1> QED BY <1>9, <1>10, <1>11 DEF Order

(* The VNF asks: nothing of its association is under way.                  *)
LEMMA OrderAsk ==
    ASSUME Types, Bounds, Order, VnfAsk
    PROVE  Order'
<1> USE DEF mainVars, sessVars, p5Vars, p7Vars, nvVars, airVars, vnfVars
<1>1. /\ sock' = sock /\ p5' = p5 /\ conns' = conns /\ txBuf' = txBuf /\ toAerial' = toAerial
      /\ fromAerial' = fromAerial /\ nv' = nv /\ sock = "up" /\ ~vnf.waiting
      /\ vnf' = [vnf EXCEPT !.waiting = TRUE] /\ inbox' = Append(inbox, Script[vnf.at])
  BY DEF VnfAsk
<1>2. vnf.at \in 1 .. 7 /\ vnf'.at = vnf.at /\ vnf'.waiting
  <2>1. vnf \in VnfType /\ vnf.at \in 1 .. 8 /\ vnf.at <= 7
    BY ScriptIs DEF VnfAsk, Types, VnfType
  <2>2. vnf'.at = vnf.at /\ vnf'.waiting = TRUE
    BY <1>1, <2>1, VnfFacts
  <2> QED BY <2>1, <2>2
<1>3. /\ Script[vnf.at] \in Id /\ Script[vnf.at] \in Asks /\ inbox \in Seq(Asks)
  BY <1>2, ScriptFacts DEF Asks, Types
<1>4. ~InQueues /\ ~OnNv /\ ~SomeIn(inbox, Id) /\ p5 # "join_failed" /\ txBuf # Asked
  BY <1>1, <1>2 DEF Order, InTurn, Asked
<1>5. AtMostOneIn(inbox', Id) /\ ~SomeIn(inbox', Id \ {Script[vnf.at]})
  <2>1. ~SomeIn(inbox, Id \ {Script[vnf.at]}) /\ AtMostOneIn(inbox, Id)
    BY <1>4, NoneInMore
  <2> QED BY <1>1, <1>3, <1>4, <2>1, InAppended
<1>6. ~InQueues' /\ ~OnNv' /\ Asked' = Asked /\ (Sending' <=> Sending)
  BY <1>1, <1>2, <1>4 DEF InQueues, OnNv, Asked, Sending
<1>7. PastOK'
  BY <1>1 DEF Order, PastOK
<1>8. OnePlace'
  BY <1>1, <1>5, <1>6 DEF Order, OnePlace
<1>9. InTurn'
  <2>1. /\ ~SomeIn(toAerial', Mine(conns') \ {Asked'})
        /\ ~SomeIn(fromAerial', Mine(conns') \ {Asked'})
    BY <1>6, NoneInMore DEF InQueues
  <2> QED BY <1>1, <1>2, <1>4, <1>5, <1>6, <2>1 DEF Order, InTurn
<1> QED BY <1>7, <1>8, <1>9 DEF Order

(* A message too short to be a request.                                    *)
LEMMA OrderRunt ==
    ASSUME Types, Order, VnfRunt
    PROVE  Order'
<1> USE DEF mainVars, sessVars, p5Vars, p7Vars, nvVars, airVars, vnfVars
<1>1. /\ sock' = sock /\ p5' = p5 /\ conns' = conns /\ txBuf' = txBuf /\ toAerial' = toAerial
      /\ fromAerial' = fromAerial /\ nv' = nv /\ sock = "up" /\ vnf' = vnf /\ inbox' = Append(inbox, Runt)
  BY DEF VnfRunt
<1>2. Runt \in Asks /\ Runt \notin Id /\ inbox \in Seq(Asks)
  BY ScriptFacts DEF Asks, Types
<1>3. /\ SomeIn(inbox', Id) <=> SomeIn(inbox, Id)
      /\ AtMostOneIn(inbox, Id) => AtMostOneIn(inbox', Id)
      /\ ~SomeIn(inbox, Id \ {Script[vnf.at]}) => ~SomeIn(inbox', Id \ {Script[vnf.at]})
  BY <1>1, <1>2, InAppended
<1>4. (InQueues' <=> InQueues) /\ (OnNv' <=> OnNv) /\ Asked' = Asked /\ (Sending' <=> Sending)
  BY <1>1 DEF InQueues, OnNv, Asked, Sending
<1>5. PastOK'
  BY <1>1 DEF Order, PastOK
<1>6. OnePlace'
  BY <1>1, <1>3, <1>4 DEF Order, OnePlace
<1>7. InTurn'
  BY <1>1, <1>3, <1>4 DEF Order, InTurn
<1> QED BY <1>5, <1>6, <1>7 DEF Order

(* Aerial takes a request, and answers it unless it is a START.            *)
LEMMA OrderAerial ==
    ASSUME Types, Bounds, Order, Aerial
    PROVE  Order'
<1> USE DEF mainVars, sessVars, p5Vars, p7Vars, nvVars, airVars, vnfVars
<1> PICK m : m = Head(toAerial)
  OBVIOUS
<1>1. /\ sock' = sock /\ p5' = p5 /\ conns' = conns /\ txBuf' = txBuf /\ nv' = nv /\ vnf' = vnf
      /\ inbox' = inbox /\ toAerial # <<>> /\ toAerial' = Tail(toAerial)
      /\ fromAerial' = IF m.id = "START" THEN fromAerial ELSE Append(fromAerial, m)
  BY DEF Aerial
<1>2. toAerial \in Seq(Msg) /\ fromAerial \in Seq(Msg)
  BY DEF Types
<1>3. /\ m \in Msg
      /\ \A R : SomeIn(toAerial, R) <=> m \in R \/ SomeIn(toAerial', R)
      /\ \A R : AtMostOneIn(toAerial, R) => AtMostOneIn(toAerial', R) /\ ~(m \in R /\ SomeIn(toAerial', R))
  BY <1>1, <1>2, InTail
<1>4. CASE m.id = "START"
  <2>1. fromAerial' = fromAerial /\ m \notin Mine(conns)
    BY <1>1, <1>4, MineFacts
  <2>2. (InQueues' <=> InQueues) /\ (OnNv' <=> OnNv) /\ Asked' = Asked /\ (Sending' <=> Sending)
    BY <1>1, <1>3, <2>1 DEF InQueues, OnNv, Asked, Sending
  <2>3. PastOK'
    BY <1>1, <1>3, <2>1 DEF Order, PastOK
  <2>4. OnePlace'
    BY <1>1, <1>3, <2>1, <2>2 DEF Order, OnePlace
  <2>5. ~SomeIn(toAerial, Mine(conns) \ {Asked}) => ~SomeIn(toAerial', Mine(conns) \ {Asked})
    BY <1>3
  <2>6. InTurn'
    BY <1>1, <2>1, <2>2, <2>5 DEF Order, InTurn
  <2> QED BY <2>3, <2>4, <2>6 DEF Order
<1>5. CASE m.id # "START"
  <2>1. fromAerial' = Append(fromAerial, m) /\ m \notin Starts
    BY <1>1, <1>3, <1>5, MineFacts
  <2>2. /\ \A R : SomeIn(fromAerial', R) <=> SomeIn(fromAerial, R) \/ m \in R
        /\ \A R : AtMostOneIn(fromAerial, R) /\ ~(SomeIn(fromAerial, R) /\ m \in R) => AtMostOneIn(fromAerial', R)
    BY <1>2, <1>3, <2>1, InAppended
  <2>3. (InQueues' <=> InQueues) /\ (OnNv' <=> OnNv) /\ Asked' = Asked /\ (Sending' <=> Sending)
    BY <1>1, <1>3, <2>2 DEF InQueues, OnNv, Asked, Sending
  <2>4. PastOK'
    <3>1. ~SomeIn(toAerial', Future(conns)) /\ m \notin Future(conns)
      BY <1>3 DEF Order, PastOK
    <3>2. ~SomeIn(fromAerial', Future(conns)) /\ ~SomeIn(fromAerial', Starts)
      BY <2>1, <2>2, <3>1 DEF Order, PastOK
    <3> QED BY <1>1, <3>1, <3>2 DEF Order, PastOK
  <2>5. /\ AtMostOneIn(toAerial', Mine(conns)) /\ AtMostOneIn(fromAerial', Mine(conns))
        /\ ~(SomeIn(toAerial', Mine(conns)) /\ SomeIn(fromAerial', Mine(conns)))
    BY <1>3, <2>2 DEF Order, OnePlace
  <2>6. OnePlace'
    BY <1>1, <2>3, <2>5 DEF Order, OnePlace
  <2>7. /\ ~SomeIn(toAerial, Mine(conns) \ {Asked}) => ~SomeIn(toAerial', Mine(conns) \ {Asked})
        /\ ~SomeIn(toAerial, Mine(conns) \ {Asked}) /\ ~SomeIn(fromAerial, Mine(conns) \ {Asked})
               => ~SomeIn(fromAerial', Mine(conns) \ {Asked})
    BY <1>3, <2>2
  <2>8. InTurn'
    BY <1>1, <2>3, <2>7 DEF Order, InTurn
  <2> QED BY <2>4, <2>6, <2>8 DEF Order
<1> QED BY <1>4, <1>5

(* An indication joins what comes from Aerial, or is taken from there.     *)
LEMMA OrderUp ==
    ASSUME Types, Order, NvQuiet,
           \/ fromAerial' = Append(fromAerial, Nothing)
           \/ fromAerial # <<>> /\ fromAerial' = Tail(fromAerial) /\ nv'.pc # "tx",
           UNCHANGED <<sock, p5, conns, vnf, inbox, txBuf, toAerial>>
    PROVE  Order'
<1>1. /\ sock' = sock /\ p5' = p5 /\ conns' = conns /\ txBuf' = txBuf /\ vnf' = vnf
      /\ inbox' = inbox /\ toAerial' = toAerial
  OBVIOUS
<1>2. fromAerial \in Seq(Msg) /\ conns \in Nat
  BY Constants DEF Types
<1>3. /\ \A R : Nothing \notin R /\ ~SomeIn(fromAerial, R) => ~SomeIn(fromAerial', R)
      /\ \A R : Nothing \notin R /\ AtMostOneIn(fromAerial, R) => AtMostOneIn(fromAerial', R)
  <2>1. CASE fromAerial' = Append(fromAerial, Nothing)
    BY <1>2, <2>1, MsgFacts, InAppended
  <2>2. CASE fromAerial # <<>> /\ fromAerial' = Tail(fromAerial)
    BY <1>2, <2>2, InTail
  <2> QED BY <2>1, <2>2
<1>4. Nothing \notin Mine(conns) /\ Nothing \notin Future(conns) /\ Nothing \notin Starts
  BY <1>2, MineFacts
<1>5. (InQueues' => InQueues) /\ (OnNv' => OnNv) /\ Asked' = Asked /\ (Sending' <=> Sending)
  BY <1>1, <1>3, <1>4 DEF InQueues, OnNv, Asked, Sending, NvQuiet
<1>6. PastOK'
  BY <1>1, <1>3, <1>4 DEF Order, PastOK, NvQuiet
<1>7. OnePlace'
  BY <1>1, <1>3, <1>4, <1>5 DEF Order, OnePlace
<1>8. ~SomeIn(fromAerial, Mine(conns) \ {Asked}) => ~SomeIn(fromAerial', Mine(conns) \ {Asked})
  BY <1>3, <1>4
<1>9. OnNv' => nv' = nv
  BY DEF OnNv, NvQuiet
<1>10. InTurn'
  BY <1>1, <1>5, <1>8, <1>9 DEF Order, InTurn
<1> QED BY <1>6, <1>7, <1>10 DEF Order

(* The nvIPC thread packs an answer of Aerial into p5_tx_buf, or drops it. *)
LEMMA OrderNvP5 ==
    ASSUME Types, Bounds, Order, NvP5
    PROVE  Order'
<1> USE DEF mainVars, sessVars, p5Vars, p7Vars, nvVars, airVars, vnfVars
<1> PICK m : m = Head(fromAerial)
  OBVIOUS
<1>1. /\ sock' = sock /\ p5' = p5 /\ conns' = conns /\ vnf' = vnf /\ inbox' = inbox /\ toAerial' = toAerial
      /\ fromAerial # <<>> /\ fromAerial' = Tail(fromAerial) /\ m.id # "UP" /\ nv.pc # "tx"
  BY DEF NvP5, Take
<1>2. fromAerial \in Seq(Msg) /\ conns \in Nat /\ txBuf \in Msg
  BY Constants DEF Types
<1>3. /\ m \in Msg
      /\ \A R : SomeIn(fromAerial, R) <=> m \in R \/ SomeIn(fromAerial', R)
      /\ \A R : AtMostOneIn(fromAerial, R) => AtMostOneIn(fromAerial', R) /\ ~(m \in R /\ SomeIn(fromAerial', R))
  BY <1>1, <1>2, InTail
<1>4. /\ m.id # "START" /\ m.of <= conns /\ (m.of = conns => m \in Mine(conns))
      /\ m \in Mine(conns) => m.of = conns
  <2>1. m \notin Starts /\ m \notin Future(conns)
    BY <1>3 DEF Order, PastOK
  <2> QED BY <1>1, <1>2, <1>3, <2>1, MineFacts
<1>5. Asked' = Asked /\ (Sending' <=> Sending) /\ (InQueues' => InQueues)
  BY <1>1, <1>3 DEF Asked, Sending, InQueues
<1>6. /\ ~SomeIn(fromAerial, Future(conns)) => ~SomeIn(fromAerial', Future(conns))
      /\ ~SomeIn(fromAerial, Starts) => ~SomeIn(fromAerial', Starts)
      /\ AtMostOneIn(fromAerial, Mine(conns)) => AtMostOneIn(fromAerial', Mine(conns))
      /\ SomeIn(fromAerial', Mine(conns)) => SomeIn(fromAerial, Mine(conns))
      /\ ~SomeIn(fromAerial, Mine(conns) \ {Asked}) => ~SomeIn(fromAerial', Mine(conns) \ {Asked})
  BY <1>3
<1>7. CASE nv' = Nv("drain") /\ txBuf' = txBuf
  <2>1. nv'.pc # "tx" /\ nv'.msg.of <= conns
    BY <1>2, <1>7, Values, NvFacts, MsgFacts
  <2>2. ~OnNv'
    BY <2>1 DEF OnNv
  <2>3. PastOK'
    BY <1>1, <1>6, <1>7, <2>1 DEF Order, PastOK
  <2>4. OnePlace'
    BY <1>1, <1>5, <1>6, <2>2 DEF Order, OnePlace
  <2>5. InTurn'
    BY <1>1, <1>5, <1>6, <1>7, <2>2 DEF Order, InTurn
  <2> QED BY <2>3, <2>4, <2>5 DEF Order
<1>8. CASE nv' = [Nv("tx") EXCEPT !.msg = m] /\ txBuf' = m
  <2>1. nv'.pc = "tx" /\ nv'.msg = m
    BY <1>3, <1>8, Values, NvFacts
  <2>2. OnNv' <=> m \in Mine(conns)
    BY <1>1, <2>1 DEF OnNv
  <2>3. PastOK'
    BY <1>1, <1>4, <1>6, <1>8, <2>1 DEF Order, PastOK
  <2>4. m \in Mine(conns) => /\ ~SomeIn(fromAerial', Mine(conns)) /\ ~SomeIn(toAerial, Mine(conns))
                             /\ ~SomeIn(inbox, Id) /\ ~Sending /\ p5 # "join_failed"
    BY <1>3 DEF Order, OnePlace, InQueues
  <2>5. m \in Mine(conns) => ~InQueues'
    BY <1>1, <2>4 DEF InQueues
  <2>6. OnePlace'
    BY <1>1, <1>5, <1>6, <2>2, <2>4, <2>5 DEF Order, OnePlace
  <2>7. InTurn'
    <3> SUFFICES ASSUME sock = "up" PROVE InTurn'
      BY <1>1 DEF InTurn
    <3>1. m \in Mine(conns) => vnf.waiting /\ m = Asked
      <4>1. m \in Mine(conns) => SomeIn(fromAerial, Mine(conns))
        BY <1>3
      <4>2. m \in Mine(conns) => vnf.waiting
        BY <4>1 DEF Order, InTurn, InQueues
      <4>3. vnf.waiting => m \notin Mine(conns) \ {Asked}
        BY <1>3 DEF Order, InTurn
      <4> QED BY <4>2, <4>3
    <3>2. ASSUME NEW id, m = Reply(id, conns) PROVE m \in Mine(conns)
      BY <1>4, <3>2 DEF Reply
    <3>3. ASSUME NEW k \in 1 .. 7, k > vnf'.at \/ (k = vnf'.at /\ ~vnf'.waiting)
          PROVE  txBuf' # Reply(Script[k], conns')
      <4> SUFFICES ASSUME m = Reply(Script[k], conns) PROVE FALSE
        BY <1>1, <1>8
      <4>1. vnf.waiting /\ m = Asked
        BY <3>1, <3>2
      <4>2. Script[k] = Script[vnf.at]
        <5>1. Reply(Script[k], conns) = Reply(Script[vnf.at], conns)
          BY <4>1 DEF Asked
        <5> QED BY <5>1, ReplyFacts
      <4>3. vnf.at \in 1 .. 7
        BY <4>1 DEF Types, Bounds, VnfType
      <4> QED BY <1>1, <3>3, <4>1, <4>2, <4>3, ScriptFacts
    <3>4. m = Asked => m \in Mine(conns)
      BY <3>2 DEF Asked
    <3>5. SomeIn(inbox, Id) \/ p5 = "join_failed" \/ InQueues' => m # Asked
      BY <2>4, <2>5, <3>4
    <3> QED BY <1>1, <1>5, <1>6, <1>8, <2>1, <2>2, <3>1, <3>3, <3>5 DEF Order, InTurn
  <2> QED BY <2>3, <2>6, <2>7 DEF Order
<1> QED BY <1>7, <1>8 DEF NvP5

(* Every step keeps the order.                                             *)
LEMMA OrderNext ==
    ASSUME Types, Bounds, Order, [Next]_vars
    PROVE  Order'
<1> USE DEF mainVars, sessVars, p5Vars, p7Vars, nvVars, airVars, vnfVars
<1>0. conns \in Nat /\ Nothing.of <= conns
  BY Constants, MsgFacts DEF Types
<1>1. CASE StartPnf \/ StartPnfFails \/ Stop \/ StopJoinListener \/ StopJoinNv \/ Listener \/ RxTask
           \/ UNCHANGED vars
  <2>1. P5Quiet /\ UNCHANGED <<sock, conns, vnf, inbox, txBuf, toAerial, fromAerial, nv>>
    <3>1. CASE StartPnf \/ StartPnfFails \/ Stop \/ StopJoinListener \/ StopJoinNv
      BY <3>1 DEF StartPnf, StartPnfFails, Stop, StopJoinListener, StopJoinNv, P5Quiet
    <3>2. CASE Listener \/ RxTask
      BY <3>2 DEF Listener, RxTask, LisIdle, LisReceive, LisPush, RxPop, RxDispatch, P5Quiet
    <3>3. CASE UNCHANGED vars
      BY <3>3 DEF vars, P5Quiet
    <3> QED BY <1>1, <3>1, <3>2, <3>3
  <2> QED BY <2>1, OrderQuiet DEF NvQuiet
<1>2. CASE P5Idle \/ P5Runt \/ P5JoinListener
  <2>1. P5Quiet /\ UNCHANGED <<sock, conns, vnf, inbox, txBuf, toAerial, fromAerial, nv>>
    BY <1>2 DEF P5Idle, P5Runt, P5JoinListener, Loop, P5Quiet
  <2> QED BY <2>1, OrderQuiet DEF NvQuiet
<1>3. CASE Disconnected \/ P5SendFails \/ StopClose
  <2>1. P5Quiet /\ UNCHANGED <<conns, txBuf, toAerial, fromAerial, nv>>
    BY <1>3 DEF Disconnected, P5SendFails, StopClose, CloseSession, Loop, P5Quiet
  <2>2. ResetSession \/ UNCHANGED <<sock, inbox, vnf>>
    BY <1>3 DEF Disconnected, P5SendFails, StopClose, CloseSession
  <2>3. CASE ResetSession
    <3>1. sock' = "none" /\ inbox' = <<>>
      BY <2>3 DEF ResetSession
    <3> QED BY <2>1, <3>1, OrderGone
  <2>4. CASE UNCHANGED <<sock, inbox, vnf>>
    BY <2>1, <2>4, OrderQuiet DEF NvQuiet
  <2> QED BY <2>2, <2>3, <2>4
<1>4. CASE StopJoinRx \/ P5JoinRx
  <2>1. P5Quiet /\ UNCHANGED <<conns, txBuf, toAerial, fromAerial, nv>> /\ sock' = "none" /\ inbox' = <<>>
    BY <1>4 DEF StopJoinRx, P5JoinRx, ResetSession, Loop, P5Quiet
  <2> QED BY <2>1, OrderGone
<1>5. CASE VnfLeave
  <2>1. P5Quiet /\ UNCHANGED <<conns, txBuf, toAerial, fromAerial, nv>> /\ sock' = "gone"
        /\ (inbox' = inbox \/ inbox' = <<>>)
    BY <1>5 DEF VnfLeave, P5Quiet
  <2> QED BY <2>1, OrderGone
<1>6. CASE P5Sent
  <2>1. P5Quiet /\ NvQuiet /\ Sending
    BY <1>6 DEF P5Sent, Loop, P5Quiet, NvQuiet
  <2>2. IF sock = "up" THEN Delivered(txBuf) ELSE UNCHANGED vnf
    BY <1>6 DEF P5Sent
  <2>3. UNCHANGED <<sock, conns, inbox, txBuf, toAerial, fromAerial>>
    BY <1>6 DEF P5Sent
  <2> QED BY <2>1, <2>2, <2>3, OrderDelivered
<1>7. CASE NvSent
  <2>1. nv.pc = "tx" /\ nv'.pc # "tx" /\ nv'.msg = Nothing
    BY <1>7, Values, NvFacts DEF NvSent
  <2>2. IF sock = "up" THEN Delivered(txBuf) ELSE UNCHANGED vnf
    BY <1>7 DEF NvSent
  <2>3. UNCHANGED <<sock, conns, inbox, txBuf, toAerial, fromAerial, p5>>
    BY <1>7 DEF NvSent
  <2>4. P5Quiet /\ NvQuiet
    BY <1>0, <2>1, <2>3 DEF P5Quiet, NvQuiet
  <2> QED BY <2>1, <2>2, <2>3, <2>4, OrderDelivered
<1>8. CASE NvAttach \/ NvNotThere \/ NvTimeout \/ NvDrained \/ NvOnFreed
  <2>1. nv' = NvLoop \/ nv' = Nv("exited") \/ nv' = Nv("drain") \/ nv' = Nv("crashed")
    BY <1>8 DEF NvAttach, NvNotThere, NvTimeout, NvDrained, NvOnFreed
  <2>2. nv'.pc # "tx" /\ nv'.msg = Nothing
    BY <2>1, Values, NvFacts
  <2>3. UNCHANGED <<sock, conns, vnf, inbox, txBuf, toAerial, fromAerial, p5>>
    BY <1>8 DEF NvAttach, NvNotThere, NvTimeout, NvDrained, NvOnFreed
  <2> QED BY <1>0, <2>2, <2>3, OrderQuiet DEF P5Quiet, NvQuiet
<1>9. CASE NvSegment
  <2>1. nv.pc = "segment" /\ UNCHANGED <<sock, conns, vnf, inbox, txBuf, toAerial, fromAerial, p5>>
    BY <1>9 DEF NvSegment
  <2>2. nv' = [nv EXCEPT !.seg = @ + 1] \/ nv' = Nv("drain")
    BY <1>9 DEF NvSegment
  <2>3. nv'.pc # "tx" /\ (nv'.msg = nv.msg \/ nv'.msg = Nothing)
    <3>1. nv' = [nv EXCEPT !.seg = @ + 1] => nv'.pc = nv.pc /\ nv'.msg = nv.msg
      BY DEF Types, NvType
    <3>2. nv' = Nv("drain") => nv'.pc = "drain" /\ nv'.msg = Nothing
      BY Values, NvFacts
    <3> QED BY <2>1, <2>2, <3>1, <3>2
  <2>4. nv'.msg.of <= conns
    BY <1>0, <2>3 DEF Order, PastOK
  <2> QED BY <2>1, <2>3, <2>4, OrderQuiet DEF P5Quiet, NvQuiet
<1>10. CASE NvP7
  <2>1. /\ fromAerial # <<>> /\ fromAerial' = Tail(fromAerial) /\ Head(fromAerial).id = "UP"
        /\ UNCHANGED <<sock, p5, conns, vnf, inbox, txBuf, toAerial>>
    BY <1>10 DEF NvP7, Take
  <2>2. Head(fromAerial) \in Msg /\ Head(fromAerial).of = 0
    <3>1. Head(fromAerial) \in Msg
      BY <2>1, TailAt DEF Types
    <3> QED BY <2>1, <3>1, MsgFacts, ScriptFacts
  <2>3. nv' = [Nv("segment") EXCEPT !.msg = Head(fromAerial)] \/ nv' = Nv("drain")
    BY <1>10 DEF NvP7
  <2>4. nv'.pc # "tx" /\ (nv'.msg = Head(fromAerial) \/ nv'.msg = Nothing)
    <3>1. nv' = [Nv("segment") EXCEPT !.msg = Head(fromAerial)] => nv'.pc = "segment" /\ nv'.msg = Head(fromAerial)
      BY <2>2, Values, NvFacts
    <3>2. nv' = Nv("drain") => nv'.pc = "drain" /\ nv'.msg = Nothing
      BY Values, NvFacts
    <3> QED BY <2>3, <3>1, <3>2
  <2>5. nv'.msg.of <= conns
    BY <1>0, <2>2, <2>4
  <2>6. NvQuiet
    BY <2>4, <2>5 DEF NvQuiet
  <2> QED BY <2>1, <2>4, <2>6, OrderUp
<1>11. CASE AerialUp
  <2>1. /\ fromAerial' = Append(fromAerial, Nothing) /\ NvQuiet
        /\ UNCHANGED <<sock, p5, conns, vnf, inbox, txBuf, toAerial>>
    BY <1>11 DEF AerialUp, NvQuiet
  <2> QED BY <2>1, OrderUp
<1> QED
  BY <1>1, <1>2, <1>3, <1>4, <1>5, <1>6, <1>7, <1>8, <1>9, <1>10, <1>11, OrderConnect, OrderAsk, OrderRunt,
     OrderAerial, OrderNvP5, OrderForward, OrderAnswers
     DEF Next, P5Run, NvRun, Main, Others

(* p5_listener and the nvIPC thread never both have a P5 message of the    *)
(* present association in p5_tx_buf, which has no lock.                    *)
THEOREM OneTransmitter == Spec => []SingleTransmitter
<1>1. Init => Order
  <2> SUFFICES ASSUME Init PROVE Order
    OBVIOUS
  <2>1. /\ conns = 0 /\ sock = "none" /\ inbox = <<>> /\ toAerial = <<>> /\ fromAerial = <<>>
        /\ txBuf = Nothing /\ nv = Nv("attach") /\ p5 = "off"
    BY DEF Init
  <2>2. nv.pc # "tx" /\ nv.msg.of = 0 /\ txBuf.of = 0
    BY <2>1, Values, NvFacts, MsgFacts
  <2>3. PastOK
    BY <2>1, <2>2, NoneInEmpty DEF PastOK
  <2>4. OnePlace
    BY <2>1, <2>2, NoneInEmpty DEF OnePlace, InQueues, OnNv, Sending
  <2>5. InTurn
    BY <2>1 DEF InTurn
  <2> QED BY <2>3, <2>4, <2>5 DEF Order
<1>2. Types /\ Bounds /\ Order /\ [Next]_vars => (Types /\ Bounds /\ Order)'
  BY TypesNext, OrderNext
<1>3. Types /\ Order => SingleTransmitter
  <2> SUFFICES ASSUME Types, Order, Sending, nv.pc = "tx", nv.msg.of = conns PROVE FALSE
    BY DEF SingleTransmitter
  <2>1. nv.msg \in Msg /\ nv.msg.id \notin {"START", "UP"}
    BY DEF Types, NvType, Order, PastOK
  <2>2. OnNv
    BY <2>1, MineFacts DEF OnNv
  <2> QED BY <2>2 DEF Order, OnePlace
<1> QED BY <1>1, <1>2, <1>3, TypesInit, PTL DEF Spec
=============================================================================
