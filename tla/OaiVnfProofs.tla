---------------------------- MODULE OaiVnfProofs ----------------------------
(***************************************************************************)
(* Proofs about the nFAPI VNF, OaiVnf.  The invariant VnfInv has one part  *)
(* per question: what the P5 session, the main thread and the forwarder    *)
(* say of each other (Session), which P5 message can be on its way         *)
(* (Handshake), when the P7 threads and their queue are alive (DataPlane), *)
(* and who holds which rx-pool slot (Holders).  Order, on top of it, ranks *)
(* the datagrams by how far they have come.                                *)
(***************************************************************************)
EXTENDS OaiVnf, SequenceFacts

(* p5_listener waits in a pthread_join; it sets active to FALSE before, so *)
(* from then on the listener's pushes are dropped with their slots.        *)
Joining == {"join_failed", "join_listener", "join_rx"}

(* The threads that use the session, and what they know of it.             *)
Session ==
    /\ running = (main = "up")
    /\ main \in {"join_listener", "join_rx", "stopped"} => p5.pc = "exited"
    /\ p5.pc \in {"exited", "join_rx"} => main # "up"
    /\ p5.pc = "join_failed" => ~started
    /\ p5.pc \in {"join_listener", "join_rx"} => started
    /\ p5.pc \in {"send", "enter_running"} \cup Joining => p5Sock # "none"
    /\ started => p5Sock # "none"
    /\ pnfState = "RUNNING" => started
    /\ fwd # "idle" => main = "up"
    /\ fwd = "send" => started

(* At most one response of the PNF is on its way, and after PNF_START was  *)
(* sent only its own: no later send can overlap the forwarder's.           *)
Handshake ==
    /\ inbox \in {<<>>} \cup {<<r>> : r \in Request}
    /\ inbox # <<>> => p5Sock # "none"
    /\ p5.pc = "send" => ~started /\ inbox = <<>>
    /\ started \/ p5.pc = "enter_running" => inbox \in {<<>>, <<"PNF_START">>}

(* The P7 threads live exactly while the session is started: the listener  *)
(* leaves only when the VNF stops, so a join while it runs never returns.  *)
DataPlane ==
    /\ lis.pc = "exited" => main # "up"
    /\ p5.pc \in Joining => ~active
    /\ started /\ main = "up" /\ p5.pc \notin Joining =>
          /\ active
          /\ lis.pc \in {"check", "select", "push"} /\ rx.pc \in {"check", "pop", "dispatch"}
    /\ ~started /\ main # "stopped" => rx.pc = "off" /\ (lis.pc = "off" \/ p5.pc = "join_failed")
    /\ ~started /\ main = "up" => queue = <<>>

Datagram   == [slot : Slot, dg : 1 .. MaxDgram]
P5Thread   == [pc : {"check", "select", "send", "enter_running", "join_failed",
                     "join_listener", "join_rx", "exited"}, req : Request]
LisThread  == [pc : {"off", "check", "select", "push", "exited"},
               slot : Slot \cup {None}, dg : 0 .. MaxDgram]
RxThread   == [pc : {"off", "check", "pop", "dispatch", "exited"},
               slot : Slot \cup {None}, dg : 0 .. MaxDgram]
Inboxes    == Seq(Request)
Queues     == {q \in Seq(Datagram) : Len(q) <= QueueCap}
Sockets    == Seq(1 .. MaxDgram)
Numbers    == 0 .. MaxDgram

(* VnfTypeOK in two halves: the session, and the data plane.               *)
SessionType ==
    /\ running \in BOOLEAN /\ started \in BOOLEAN /\ knock \in BOOLEAN
    /\ main \in {"up", "join_p5", "join_listener", "join_rx", "stopped"}
    /\ p5 \in P5Thread /\ p5Sock \in {"none", "up", "gone"} /\ pnfState \in PnfState
    /\ conns \in 0 .. MaxConn /\ inbox \in Inboxes /\ fwd \in {"idle", "gate", "send"}

PlaneType ==
    /\ active \in BOOLEAN /\ lis \in LisThread /\ rx \in RxThread /\ queue \in Queues
    /\ inUse \subseteq Slot /\ socket \in Sockets /\ sent \in Numbers /\ delivered \in Numbers

(* The two halves and VnfTypeOK say the same.                              *)
LEMMA Typing == VnfTypeOK <=> SessionType /\ PlaneType
BY DEF VnfTypeOK, SessionType, PlaneType, P5Thread, LisThread, RxThread, Inboxes, Queues,
       Datagram, Sockets, Numbers

(* A listener about to push holds a slot with a datagram.                  *)
Pushing == lis.pc = "push" => [slot |-> lis.slot, dg |-> lis.dg] \in Datagram

(* The values an action assigns are of their types.                        *)
LEMMA Values ==
    /\ {"DISCONNECTED", "CONNECTED", "RUNNING"} \subseteq PnfState
    /\ \A r \in Request : SentState[r] \in PnfState
    /\ \A pc \in {"check", "select", "enter_running", "join_failed", "join_listener",
                  "join_rx", "exited"} : At(pc) \in P5Thread
    /\ \A r \in Request : [pc |-> "send", req |-> r] \in P5Thread
    /\ {"PNF_PARAM", "PNF_CONFIG", "PNF_START"} = Request
    /\ \A pc \in {"off", "check", "select", "exited"} : Thread(pc) \in LisThread
    /\ \A pc \in {"off", "check", "pop", "exited"} : Thread(pc) \in RxThread
    /\ <<>> \in Inboxes /\ <<>> \in Queues /\ <<>> \in Sockets /\ 0 \in Numbers
<1>1. /\ {"DISCONNECTED", "CONNECTED", "RUNNING"} \subseteq PnfState
      /\ \A r \in Request : SentState[r] \in PnfState
  BY DEF PnfState, SentState, Request, Range
<1>2. /\ \A pc \in {"check", "select", "enter_running", "join_failed", "join_listener",
                    "join_rx", "exited"} : At(pc) \in P5Thread
      /\ \A r \in Request : [pc |-> "send", req |-> r] \in P5Thread
      /\ {"PNF_PARAM", "PNF_CONFIG", "PNF_START"} = Request
  BY DEF At, P5Thread, Request
<1>3. QueueCap \in Nat /\ MaxDgram \in Nat /\ 0 \in Numbers
  BY VnfAssumption DEF Numbers
<1>4. /\ \A pc \in {"off", "check", "select", "exited"} : Thread(pc) \in LisThread
      /\ \A pc \in {"off", "check", "pop", "exited"} : Thread(pc) \in RxThread
  BY <1>3 DEF Thread, LisThread, RxThread, Numbers
<1>5. <<>> \in Inboxes /\ <<>> \in Sockets /\ <<>> \in Seq(Datagram)
  BY EmptySeq DEF Inboxes, Sockets
<1>6. Len(<<>>) = 0
  BY EmptySeq
<1>7. <<>> \in Queues
  BY <1>3, <1>5, <1>6 DEF Queues
<1> QED BY <1>1, <1>2, <1>3, <1>4, <1>5, <1>7

(* The initial state is well typed.                                        *)
LEMMA TypeInit == Init => SessionType /\ PlaneType /\ Pushing
<1>1. 0 \in 0 .. MaxConn
  BY VnfAssumption
<1>2. ASSUME Init PROVE Pushing
  BY <1>2 DEF Init, Pushing, Thread
<1> QED BY <1>1, <1>2, Values DEF Init, SessionType, PlaneType

(* p5_listener keeps the types of the session ...                          *)
LEMMA SessionTypeP5 ==
    ASSUME SessionType, P5
    PROVE  SessionType'
<1> USE Values DEF SessionType, p5Vars, pnfVars, p7Vars, netVars
<1>1. CASE P5Check BY <1>1 DEF P5Check
<1>2. CASE P5Timeout BY <1>2 DEF P5Timeout
<1>3. CASE P5Accept BY <1>3 DEF P5Accept
<1>4. CASE P5Reject BY <1>4 DEF P5Reject
<1>5. CASE P5Read
  <2>1. Tail(inbox) \in Inboxes /\ Head(inbox) \in Request
    BY <1>5, TailAt DEF P5Read, Inboxes
  <2> QED BY <1>5, <2>1 DEF P5Read
<1>6. CASE P5Disconnected BY <1>6 DEF P5Disconnected, P5Close, CloseSession, ResetSession
<1>7. CASE P5Sent
  <2>1. p5.req \in Request
    BY DEF P5Thread
  <2>2. Append(inbox, p5.req) \in Inboxes /\ SentState[p5.req] \in PnfState
    BY <2>1, AppendFacts DEF Inboxes
  <2> QED BY <1>7, <2>2 DEF P5Sent
<1>8. CASE P5SendFails BY <1>8 DEF P5SendFails, P5Close, CloseSession, ResetSession
<1>9. CASE P5EnterRunning BY <1>9 DEF P5EnterRunning
<1>10. CASE P5NoListener BY <1>10 DEF P5NoListener, ResetSession
<1>11. CASE P5NoRxTask BY <1>11 DEF P5NoRxTask
<1>12. CASE P5JoinFailed BY <1>12 DEF P5JoinFailed, ResetSession
<1>13. CASE P5JoinListener BY <1>13 DEF P5JoinListener
<1>14. CASE P5JoinRx BY <1>14 DEF P5JoinRx, ResetSession
<1> QED
  BY <1>1, <1>2, <1>3, <1>4, <1>5, <1>6, <1>7, <1>8, <1>9, <1>10, <1>11, <1>12, <1>13, <1>14
     DEF P5

(* ... and those of the data plane.                                        *)
LEMMA PlaneTypeP5 ==
    ASSUME PlaneType, P5
    PROVE  PlaneType'
<1> USE Values DEF PlaneType, p5Vars, pnfVars, p7Vars, netVars
<1>1. CASE UNCHANGED <<p7Vars, netVars>> BY <1>1
<1>2. CASE P5EnterRunning BY <1>2 DEF P5EnterRunning
<1>3. CASE P5NoListener BY <1>3 DEF P5NoListener
<1>4. CASE P5NoRxTask BY <1>4 DEF P5NoRxTask
<1>5. CASE P5JoinFailed BY <1>5 DEF P5JoinFailed
<1>6. CASE P5JoinRx BY <1>6 DEF P5JoinRx
<1>7. CASE P5Disconnected BY <1>7 DEF P5Disconnected, P5Close, CloseSession
<1>8. CASE P5SendFails BY <1>8 DEF P5SendFails, P5Close, CloseSession
<1> QED
  BY <1>1, <1>2, <1>3, <1>4, <1>5, <1>6, <1>7, <1>8
     DEF P5, P5Check, P5Timeout, P5Accept, P5Reject, P5Read, P5Sent, P5JoinListener

(* The P7 threads keep the types: a push finds room in the queue.          *)
LEMMA TypePlane ==
    ASSUME SessionType, PlaneType, Pushing, Listener \/ RxTask
    PROVE  SessionType' /\ PlaneType'
<1> USE Values DEF PlaneType, p5Vars, pnfVars, p7Vars, netVars
<1>1. SessionType'
  BY DEF SessionType, Listener, RxTask, LisCheck, LisTimeout, LisDiscard, LisReceive, LisPush,
         LisPushDropped, RxCheck, RxPop, RxPopNull, RxDispatch
<1> SUFFICES PlaneType'
  BY <1>1
<1>2. CASE LisCheck BY <1>2 DEF LisCheck
<1>3. CASE LisTimeout BY <1>3 DEF LisTimeout
<1>4. ASSUME socket # <<>> PROVE Tail(socket) \in Sockets /\ Head(socket) \in 1 .. MaxDgram
  BY <1>4, TailAt DEF Sockets
<1>5. CASE LisDiscard BY <1>4, <1>5 DEF LisDiscard
<1>6. CASE LisReceive
  <2> PICK s \in Slot : /\ lis' = [pc |-> "push", slot |-> s, dg |-> Head(socket)]
                        /\ inUse' = inUse \cup {s}
    BY <1>6 DEF LisReceive
  <2>1. lis' \in LisThread
    BY <1>4, <1>6 DEF LisReceive, LisThread
  <2> QED BY <1>4, <1>6, <2>1 DEF LisReceive
<1>7. CASE LisPush
  <2>1. [slot |-> lis.slot, dg |-> lis.dg] \in Datagram
    BY <1>7 DEF LisPush, Pushing
  <2>2. /\ Append(queue, [slot |-> lis.slot, dg |-> lis.dg]) \in Seq(Datagram)
        /\ Len(Append(queue, [slot |-> lis.slot, dg |-> lis.dg])) = Len(queue) + 1
        /\ Len(queue) \in Nat
    BY <2>1, AppendFacts, LenProperties DEF Queues
  <2>3. queue' \in Queues
    BY <1>7, <2>2, VnfAssumption DEF LisPush, Queues
  <2> QED BY <1>7, <2>3 DEF LisPush
<1>8. CASE LisPushDropped BY <1>8 DEF LisPushDropped
<1>9. CASE RxCheck BY <1>9 DEF RxCheck
<1>10. CASE RxPop
  <2>1. Tail(queue) \in Seq(Datagram) /\ Len(Tail(queue)) = Len(queue) - 1 /\ Head(queue) \in Datagram
    BY <1>10, TailAt DEF RxPop, Queues
  <2>2. Len(queue) \in Nat /\ QueueCap \in Nat
    BY VnfAssumption, LenProperties DEF Queues
  <2>3. Tail(queue) \in Queues
    BY <2>1, <2>2 DEF Queues
  <2>4. /\ Head(queue).slot \in Slot \cup {None} /\ Head(queue).dg \in 0 .. MaxDgram
    BY <2>1, VnfAssumption DEF Datagram
  <2>5. rx' \in RxThread
    BY <1>10, <2>4 DEF RxPop, RxThread
  <2> QED BY <1>10, <2>3, <2>5 DEF RxPop
<1>11. CASE RxPopNull BY <1>11 DEF RxPopNull
<1>12. CASE RxDispatch
  <2>1. rx.dg \in Numbers
    BY DEF RxThread, Numbers
  <2> QED BY <1>12, <2>1 DEF RxDispatch
<1> QED
  BY <1>1, <1>2, <1>3, <1>5, <1>6, <1>7, <1>8, <1>9, <1>10, <1>11, <1>12
     DEF Listener, RxTask

(* So do the forwarder, the main thread and the PNF.                       *)
LEMMA TypeOther ==
    ASSUME SessionType, PlaneType, Forwarder \/ Stop \/ Main \/ Pnf
    PROVE  SessionType' /\ PlaneType'
<1> USE Values DEF SessionType, PlaneType, p5Vars, pnfVars, p7Vars, netVars
<1>1. CASE Forwarder BY <1>1 DEF Forwarder, FwdTake, FwdPass, FwdGiveUp, FwdSend
<1>2. CASE Stop BY <1>2 DEF Stop
<1>3. CASE StopClose BY <1>3 DEF StopClose, CloseSession, ResetSession
<1>4. CASE StopJoinListener BY <1>4 DEF StopJoinListener
<1>5. CASE StopJoinRx BY <1>5 DEF StopJoinRx, ResetSession
<1>6. CASE PnfConnect
  <2>1. conns + 1 \in 0 .. MaxConn
    BY <1>6, VnfAssumption DEF PnfConnect
  <2> QED BY <1>6, <2>1 DEF PnfConnect
<1>7. CASE PnfLeave BY <1>7 DEF PnfLeave
<1>8. CASE PnfSendP7
  <2>1. sent + 1 \in Numbers /\ sent + 1 \in 1 .. MaxDgram
    BY <1>8, VnfAssumption DEF PnfSendP7, Numbers
  <2>2. Append(socket, sent + 1) \in Sockets
    BY <2>1, AppendFacts DEF Sockets
  <2> QED BY <1>8, <2>1, <2>2 DEF PnfSendP7
<1> QED BY <1>1, <1>2, <1>3, <1>4, <1>5, <1>6, <1>7, <1>8 DEF Main, Pnf

(* The listener reaches its push only with a slot and a datagram.          *)
LEMMA PushingNext ==
    ASSUME PlaneType, Pushing, Next
    PROVE  Pushing'
<1> USE DEF Pushing, p5Vars, pnfVars, p7Vars, netVars, vars
<1>1. CASE UNCHANGED lis BY <1>1
<1>2. CASE lis'.pc # "push" BY <1>2
<1>3. CASE LisReceive
  <2>1. Head(socket) \in 1 .. MaxDgram
    BY <1>3, TailAt DEF LisReceive, PlaneType, Sockets
  <2> QED BY <1>3, <2>1 DEF LisReceive, Datagram
<1>4. Thread("check").pc = "check" /\ Thread("off").pc = "off" /\ Thread("select").pc = "select"
      /\ Thread("exited").pc = "exited"
  BY DEF Thread
<1>5. CASE P5
  BY <1>1, <1>2, <1>4, <1>5
     DEF P5, P5Check, P5Timeout, P5Accept, P5Reject, P5Read, P5Sent, P5JoinListener,
         P5EnterRunning, P5NoListener, P5NoRxTask, P5JoinFailed, P5JoinRx, P5Disconnected, P5SendFails
<1>6. CASE Listener
  BY <1>2, <1>3, <1>4, <1>6
     DEF Listener, LisCheck, LisTimeout, LisDiscard, LisPush, LisPushDropped
<1>7. CASE RxTask
  BY <1>1, <1>7 DEF RxTask, RxCheck, RxPop, RxPopNull, RxDispatch
<1>8. CASE Forwarder \/ Stop \/ Main \/ Pnf
  BY <1>1, <1>8
     DEF Forwarder, FwdTake, FwdPass, FwdGiveUp, FwdSend, Stop, Main, StopClose, StopJoinListener,
         StopJoinRx, Pnf, PnfConnect, PnfLeave, PnfSendP7
<1> QED BY <1>5, <1>6, <1>7, <1>8 DEF Next

-----------------------------------------------------------------------------
(* A sequence of one request, as Append, Head and Tail see it.             *)
LEMMA OneRequest ==
    ASSUME NEW r
    PROVE  /\ Append(<<>>, r) = <<r>> /\ Tail(<<r>>) = <<>> /\ Head(<<r>>) = r /\ <<r>> # <<>>
<1>1. <<>> \in Seq({r}) /\ Len(<<>>) = 0
  BY EmptySeq
<1> QED BY <1>1

(* p5_listener keeps Session: it gets past the join of the listener only   *)
(* when the VNF stops, because the listener exits for no other reason.     *)
LEMMA SessionP5 ==
    ASSUME SessionType, Session, Handshake, DataPlane, P5
    PROVE  Session'
<1> USE DEF Session, p5Vars, At, Joining
<1>1. CASE P5Check BY <1>1 DEF P5Check
<1>2. CASE P5Timeout BY <1>2 DEF P5Timeout
<1>3. CASE P5Accept BY <1>3 DEF P5Accept
<1>4. CASE P5Reject BY <1>4 DEF P5Reject
<1>5. CASE P5Read
  <2>1. p5Sock # "none" /\ p5.pc = "select" /\ main \in {"up", "join_p5"}
    BY <1>5 DEF P5Read, Handshake, SessionType
  <2>2. p5'.pc \in {"send", "enter_running"} /\ UNCHANGED <<running, main, p5Sock, pnfState, started, fwd>>
    <3>1. Head(inbox) \in Request
      BY <1>5, TailAt DEF P5Read, SessionType, Inboxes
    <3> QED BY <1>5, <3>1 DEF P5Read, Request
  <2> QED BY <2>1, <2>2
<1>6. CASE P5Disconnected BY <1>6 DEF P5Disconnected, P5Close, CloseSession, ResetSession
<1>7. CASE P5Sent
  <2>1. SentState[p5.req] # "RUNNING"
    BY DEF SessionType, P5Thread, SentState, Request
  <2> QED BY <1>7, <2>1 DEF P5Sent
<1>8. CASE P5SendFails BY <1>8 DEF P5SendFails, P5Close, CloseSession, ResetSession
<1>9. CASE P5EnterRunning BY <1>9 DEF P5EnterRunning
<1>10. CASE P5NoListener BY <1>10 DEF P5NoListener, ResetSession
<1>11. CASE P5NoRxTask BY <1>11 DEF P5NoRxTask
<1>12. CASE P5JoinFailed BY <1>12 DEF P5JoinFailed, ResetSession
<1>13. CASE P5JoinListener BY <1>13 DEF P5JoinListener, DataPlane
<1>14. CASE P5JoinRx BY <1>14 DEF P5JoinRx, ResetSession
<1> QED
  BY <1>1, <1>2, <1>3, <1>4, <1>5, <1>6, <1>7, <1>8, <1>9, <1>10, <1>11, <1>12, <1>13, <1>14
     DEF P5

(* Every step keeps Session.                                               *)
LEMMA SessionNext ==
    ASSUME SessionType, Session, Handshake, DataPlane, Next
    PROVE  Session'
<1> USE DEF Session, vars, p5Vars, pnfVars, p7Vars, netVars, Joining
<1>1. CASE P5 BY <1>1, SessionP5
<1>2. CASE Listener \/ RxTask
  <2>1. UNCHANGED <<running, main, p5Vars, fwd>>
    BY <1>2 DEF Listener, RxTask, LisCheck, LisTimeout, LisDiscard, LisReceive, LisPush,
                LisPushDropped, RxCheck, RxPop, RxPopNull, RxDispatch
  <2> QED BY <2>1
<1>3. CASE Forwarder BY <1>3 DEF Forwarder, FwdTake, FwdPass, FwdGiveUp, FwdSend
<1>4. CASE Stop BY <1>4 DEF Stop
<1>5. CASE StopClose BY <1>5 DEF StopClose, CloseSession, ResetSession
<1>6. CASE StopJoinListener BY <1>6 DEF StopJoinListener
<1>7. CASE StopJoinRx BY <1>7 DEF StopJoinRx, ResetSession
<1>8. CASE Pnf BY <1>8 DEF Pnf, PnfConnect, PnfLeave, PnfSendP7
<1> QED BY <1>1, <1>2, <1>3, <1>4, <1>5, <1>6, <1>7, <1>8 DEF Next, Main

(* Every step keeps Handshake: each request is sent in answer to the       *)
(* response before, which p5_listener has taken out of the socket.         *)
LEMMA HandshakeNext ==
    ASSUME SessionType, Session, Handshake, Next
    PROVE  Handshake'
<1> USE DEF Handshake, vars, p5Vars, pnfVars, p7Vars, netVars, Joining
<1>1. CASE P5
  <2> USE DEF At
  <2>1. CASE P5Check BY <2>1 DEF P5Check
  <2>2. CASE P5Timeout BY <2>2 DEF P5Timeout
  <2>3. CASE P5Accept BY <2>3 DEF P5Accept, Session
  <2>4. CASE P5Reject BY <2>4 DEF P5Reject
  <2>5. CASE P5Read
    <3> PICK r \in Request : inbox = <<r>>
      BY <2>5 DEF P5Read
    <3>1. Head(inbox) = r /\ inbox' = <<>>
      BY <2>5, OneRequest DEF P5Read
    <3>2. started => r = "PNF_START"
      BY OneRequest
    <3>3. r = "PNF_PARAM" \/ r = "PNF_CONFIG" \/ r = "PNF_START"
      BY DEF Request
    <3>4. p5'.pc \in {"send", "enter_running"} /\ (p5'.pc = "send" => r # "PNF_START") /\ started' = started
      BY <2>5, <3>1, <3>3 DEF P5Read
    <3> QED BY <3>1, <3>2, <3>4
  <2>6. CASE P5Disconnected BY <2>6 DEF P5Disconnected, P5Close, CloseSession, ResetSession
  <2>7. CASE P5Sent
    <3>1. inbox = <<>> /\ ~started /\ started' = started /\ p5Sock' = p5Sock
      BY <2>7 DEF P5Sent
    <3>2. p5.req \in Request
      BY DEF SessionType, P5Thread
    <3>3. inbox' \in {<<>>, <<p5.req>>} /\ (inbox' # <<>> => p5Sock # "none")
      BY <2>7, <3>1, OneRequest DEF P5Sent
    <3>4. p5'.pc = IF p5.req = "PNF_START" THEN "enter_running" ELSE "check"
      BY <2>7 DEF P5Sent
    <3> QED BY <3>1, <3>2, <3>3, <3>4
  <2>8. CASE P5SendFails BY <2>8 DEF P5SendFails, P5Close, CloseSession, ResetSession
  <2>9. CASE P5EnterRunning BY <2>9 DEF P5EnterRunning
  <2>10. CASE P5NoListener BY <2>10 DEF P5NoListener, ResetSession
  <2>11. CASE P5NoRxTask BY <2>11 DEF P5NoRxTask
  <2>12. CASE P5JoinFailed BY <2>12 DEF P5JoinFailed, ResetSession
  <2>13. CASE P5JoinListener BY <2>13 DEF P5JoinListener
  <2>14. CASE P5JoinRx BY <2>14 DEF P5JoinRx, ResetSession
  <2> QED
    BY <1>1, <2>1, <2>2, <2>3, <2>4, <2>5, <2>6, <2>7, <2>8, <2>9, <2>10, <2>11, <2>12, <2>13,
       <2>14 DEF P5
<1>2. CASE Listener \/ RxTask
  <2>1. UNCHANGED <<p5Vars, inbox>>
    BY <1>2 DEF Listener, RxTask, LisCheck, LisTimeout, LisDiscard, LisReceive, LisPush,
                LisPushDropped, RxCheck, RxPop, RxPopNull, RxDispatch
  <2> QED BY <2>1
<1>3. CASE Forwarder \/ Stop
  BY <1>3 DEF Forwarder, FwdTake, FwdPass, FwdGiveUp, FwdSend, Stop
<1>4. CASE StopClose BY <1>4 DEF StopClose, CloseSession, ResetSession
<1>5. CASE StopJoinListener BY <1>5 DEF StopJoinListener
<1>6. CASE StopJoinRx BY <1>6 DEF StopJoinRx, ResetSession
<1>7. CASE Pnf BY <1>7 DEF Pnf, PnfConnect, PnfLeave, PnfSendP7
<1> QED BY <1>1, <1>2, <1>3, <1>4, <1>5, <1>6, <1>7 DEF Next, Main

(* Every step keeps DataPlane.                                             *)
LEMMA DataPlaneNext ==
    ASSUME Session, Handshake, DataPlane, Next
    PROVE  DataPlane'
<1> USE DEF DataPlane, vars, p5Vars, pnfVars, p7Vars, netVars, Joining, Session
<1>1. CASE P5
  <2> USE DEF At, Thread
  <2>1. CASE P5Check BY <2>1 DEF P5Check
  <2>2. CASE P5Timeout BY <2>2 DEF P5Timeout
  <2>3. CASE P5Accept BY <2>3 DEF P5Accept
  <2>4. CASE P5Reject BY <2>4 DEF P5Reject
  <2>5. CASE P5Read
    <3>1. p5'.pc \in {"send", "enter_running"} /\ p5.pc = "select"
      <4> PICK r \in Request : inbox = <<r>>
        BY <2>5 DEF P5Read, Handshake
      <4>1. r = "PNF_PARAM" \/ r = "PNF_CONFIG" \/ r = "PNF_START"
        BY DEF Request
      <4> QED BY <2>5, <4>1, OneRequest DEF P5Read
    <3> QED BY <2>5, <3>1 DEF P5Read
  <2>6. CASE P5Disconnected BY <2>6 DEF P5Disconnected, P5Close, CloseSession, ResetSession
  <2>7. CASE P5Sent BY <2>7 DEF P5Sent
  <2>8. CASE P5SendFails BY <2>8 DEF P5SendFails, P5Close, CloseSession, ResetSession
  <2>9. CASE P5EnterRunning BY <2>9 DEF P5EnterRunning
  <2>10. CASE P5NoListener BY <2>10 DEF P5NoListener, ResetSession
  <2>11. CASE P5NoRxTask BY <2>11 DEF P5NoRxTask
  <2>12. CASE P5JoinFailed BY <2>12 DEF P5JoinFailed, ResetSession
  <2>13. CASE P5JoinListener BY <2>13 DEF P5JoinListener
  <2>14. CASE P5JoinRx BY <2>14 DEF P5JoinRx, ResetSession
  <2> QED
    BY <1>1, <2>1, <2>2, <2>3, <2>4, <2>5, <2>6, <2>7, <2>8, <2>9, <2>10, <2>11, <2>12, <2>13,
       <2>14 DEF P5
<1>2. CASE Listener
  <2> USE DEF Thread
  <2>1. CASE LisCheck BY <2>1 DEF LisCheck
  <2>2. CASE LisTimeout BY <2>2 DEF LisTimeout
  <2>3. CASE LisDiscard BY <2>3 DEF LisDiscard
  <2>4. CASE LisReceive BY <2>4 DEF LisReceive
  <2>5. CASE LisPush
    <3>1. started \/ main # "up"
      BY <2>5 DEF LisPush
    <3> QED BY <2>5, <3>1 DEF LisPush
  <2>6. CASE LisPushDropped BY <2>6 DEF LisPushDropped
  <2> QED BY <1>2, <2>1, <2>2, <2>3, <2>4, <2>5, <2>6 DEF Listener
<1>3. CASE RxTask
  <2> USE DEF Thread
  <2>1. CASE RxCheck BY <2>1 DEF RxCheck
  <2>2. CASE RxPop
    <3>1. started \/ main # "up"
      BY <2>2 DEF RxPop
    <3> QED BY <2>2, <3>1 DEF RxPop
  <2>3. CASE RxPopNull BY <2>3 DEF RxPopNull
  <2>4. CASE RxDispatch BY <2>4 DEF RxDispatch
  <2> QED BY <1>3, <2>1, <2>2, <2>3, <2>4 DEF RxTask
<1>4. CASE Forwarder BY <1>4 DEF Forwarder, FwdTake, FwdPass, FwdGiveUp, FwdSend
<1>5. CASE Stop BY <1>5 DEF Stop
<1>6. CASE StopClose BY <1>6 DEF StopClose, CloseSession, ResetSession
<1>7. CASE StopJoinListener BY <1>7 DEF StopJoinListener
<1>8. CASE StopJoinRx BY <1>8 DEF StopJoinRx, ResetSession
<1>9. CASE Pnf BY <1>9 DEF Pnf, PnfConnect, PnfLeave, PnfSendP7
<1> QED BY <1>1, <1>2, <1>3, <1>4, <1>5, <1>6, <1>7, <1>8, <1>9 DEF Next, Main

-----------------------------------------------------------------------------
(* Who holds which slot.  Slots(q) are the slots a queue q names.          *)
Slots(q)    == {q[i].slot : i \in DOMAIN q}
Distinct(q) == \A i, j \in DOMAIN q : q[i].slot = q[j].slot => i = j

(* A queue that one more datagram is put into ...                          *)
LEMMA SlotsAppend ==
    ASSUME NEW q \in Seq(Datagram), NEW d \in Datagram
    PROVE  /\ Slots(Append(q, d)) = Slots(q) \cup {d.slot}
           /\ Distinct(q) /\ d.slot \notin Slots(q) => Distinct(Append(q, d))
<1> DEFINE t == Append(q, d)
<1>1. /\ DOMAIN q = 1 .. Len(q) /\ DOMAIN t = 1 .. Len(q) + 1 /\ t[Len(q) + 1] = d
      /\ \A i \in 1 .. Len(q) : t[i] = q[i] /\ i \in 1 .. Len(q) + 1
      /\ \A i \in 1 .. Len(q) + 1 : i \in 1 .. Len(q) \/ i = Len(q) + 1
      /\ Len(q) + 1 \in 1 .. Len(q) + 1
  BY AppendAt, LenProperties
<1> HIDE DEF t
<1>2. Slots(t) = Slots(q) \cup {d.slot}
  BY <1>1 DEF Slots
<1>3. ASSUME Distinct(q), d.slot \notin Slots(q) PROVE Distinct(t)
  BY <1>1, <1>3 DEF Distinct, Slots
<1> QED BY <1>2, <1>3 DEF t

(* ... and one that the first is taken from.                               *)
LEMMA SlotsTail ==
    ASSUME NEW q \in Seq(Datagram), q # <<>>
    PROVE  /\ Slots(q) = Slots(Tail(q)) \cup {Head(q).slot}
           /\ Distinct(q) => Distinct(Tail(q)) /\ Head(q).slot \notin Slots(Tail(q))
<1> DEFINE t == Tail(q)
           n == Len(q)
<1>1. /\ DOMAIN q = 1 .. n /\ n \in Nat \ {0} /\ DOMAIN t = 1 .. n - 1 /\ Head(q) = q[1]
      /\ \A i \in 1 .. n - 1 : t[i] = q[i + 1] /\ i + 1 \in 1 .. n
      /\ 1 \in DOMAIN q
  BY TailAt
<1> HIDE DEF t, n
<1>2. \A j \in 1 .. n : j = 1 \/ (j - 1 \in 1 .. n - 1 /\ q[j] = t[j - 1])
  BY <1>1
<1>3. Slots(q) = Slots(t) \cup {q[1].slot}
  <2>1. ASSUME NEW x \in Slots(t) PROVE x \in Slots(q)
    <3> PICK i \in 1 .. n - 1 : x = t[i].slot
      BY <1>1 DEF Slots
    <3>1. i + 1 \in 1 .. n /\ x = q[i + 1].slot
      BY <1>1
    <3> QED BY <1>1, <3>1 DEF Slots
  <2>2. ASSUME NEW x \in Slots(q) PROVE x \in Slots(t) \cup {q[1].slot}
    <3> PICK j \in 1 .. n : x = q[j].slot
      BY <1>1 DEF Slots
    <3>1. x = q[1].slot \/ (j - 1 \in 1 .. n - 1 /\ x = t[j - 1].slot)
      BY <1>2
    <3> QED BY <1>1, <3>1 DEF Slots
  <2>3. q[1].slot \in Slots(q)
    BY <1>1 DEF Slots
  <2> QED BY <2>1, <2>2, <2>3
<1>4. ASSUME Distinct(q) PROVE Distinct(t) /\ q[1].slot \notin Slots(t)
  <2>1. \A i, j \in 1 .. n : q[i].slot = q[j].slot => i = j
    BY <1>1, <1>4 DEF Distinct
  <2>2. ASSUME NEW i \in 1 .. n - 1, NEW j \in 1 .. n - 1, t[i].slot = t[j].slot PROVE i = j
    <3>1. i + 1 = j + 1
      BY <1>1, <2>1, <2>2
    <3> QED BY <3>1
  <2>3. ASSUME NEW i \in 1 .. n - 1 PROVE t[i].slot # q[1].slot
    <3>1. i + 1 # 1 /\ i + 1 \in 1 .. n /\ 1 \in 1 .. n /\ t[i] = q[i + 1]
      BY <1>1
    <3> QED BY <2>1, <3>1
  <2> QED BY <1>1, <2>2, <2>3 DEF Distinct, Slots
<1> QED BY <1>1, <1>3, <1>4 DEF t

(* Every slot has one holder, and outside a teardown no slot is in use     *)
(* without one.                                                            *)
Holders ==
    /\ lis.slot # None <=> lis.pc = "push"
    /\ rx.slot # None <=> rx.pc = "dispatch"
    /\ lis.slot # None => lis.slot # rx.slot /\ lis.slot \notin Slots(queue)
    /\ rx.slot # None => rx.slot \notin Slots(queue)
    /\ Distinct(queue)
    /\ Held \subseteq inUse
    /\ main = "up" /\ p5.pc \notin Joining => inUse = Held

(* Held, before and after a step, in terms of Slots.                       *)
LEMMA HeldSlots ==
    /\ Held = Slots(queue) \cup ({lis.slot, rx.slot} \ {None})
    /\ Held' = Slots(queue') \cup ({lis'.slot, rx'.slot} \ {None})
    /\ Slots(<<>>) = {} /\ Distinct(<<>>)
BY EmptySeq DEF Held, Queued, Slots, Distinct

(* p5_listener keeps Holders: it empties the queue only while it is empty  *)
(* or while a teardown is on.                                              *)
LEMMA HoldersP5 ==
    ASSUME SessionType, Session, Handshake, DataPlane, Holders, P5
    PROVE  Holders'
<1> USE HeldSlots DEF Holders, p5Vars, pnfVars, p7Vars, netVars, Joining, At, Thread
<1>1. CASE P5Check BY <1>1 DEF P5Check
<1>2. CASE P5Timeout BY <1>2 DEF P5Timeout
<1>3. CASE P5Accept BY <1>3 DEF P5Accept
<1>4. CASE P5Reject BY <1>4 DEF P5Reject
<1>5. CASE P5Read BY <1>5 DEF P5Read
<1>6. CASE P5Disconnected BY <1>6 DEF P5Disconnected, P5Close, CloseSession, ResetSession
<1>7. CASE P5Sent BY <1>7 DEF P5Sent
<1>8. CASE P5SendFails BY <1>8 DEF P5SendFails, P5Close, CloseSession, ResetSession
<1>9. CASE P5EnterRunning
  <2>1. CASE pnfState = "RUNNING" \/ started
    BY <1>9, <2>1 DEF P5EnterRunning
  <2>2. CASE ~(pnfState = "RUNNING" \/ started)
    <3>1. main = "up" => queue = <<>> /\ lis.pc = "off" /\ rx.pc = "off"
      BY <1>9, <2>2 DEF P5EnterRunning, DataPlane
    <3> QED BY <1>9, <2>2, <3>1 DEF P5EnterRunning
  <2> QED BY <2>1, <2>2
<1>10. CASE P5NoListener
  <2>1. main = "up" => queue = <<>>
    BY <1>10 DEF P5NoListener, DataPlane
  <2> QED BY <1>10, <2>1 DEF P5NoListener
<1>11. CASE P5NoRxTask BY <1>11 DEF P5NoRxTask
<1>12. CASE P5JoinFailed BY <1>12 DEF P5JoinFailed, DataPlane
<1>13. CASE P5JoinListener BY <1>13 DEF P5JoinListener
<1>14. CASE P5JoinRx BY <1>14 DEF P5JoinRx, Session
<1> QED
  BY <1>1, <1>2, <1>3, <1>4, <1>5, <1>6, <1>7, <1>8, <1>9, <1>10, <1>11, <1>12, <1>13, <1>14
     DEF P5

(* The P7 threads hand a slot on and never copy it; the listener drops one *)
(* only when the queue is inactive, which is a teardown.                   *)
LEMMA HoldersPlane ==
    ASSUME PlaneType, Pushing, Session, DataPlane, Holders, Listener \/ RxTask
    PROVE  Holders'
<1> USE HeldSlots DEF Holders, p5Vars, pnfVars, p7Vars, netVars, Joining, Thread
<1>1. CASE LisCheck BY <1>1 DEF LisCheck
<1>2. CASE LisTimeout BY <1>2 DEF LisTimeout
<1>3. CASE LisDiscard BY <1>3 DEF LisDiscard
<1>4. CASE LisReceive
  <2> PICK s \in Slot \ inUse : /\ lis' = [pc |-> "push", slot |-> s, dg |-> Head(socket)]
                                /\ inUse' = inUse \cup {s}
    BY <1>4 DEF LisReceive
  <2>1. s # None
    BY VnfAssumption
  <2> QED BY <1>4, <2>1 DEF LisReceive
<1>5. CASE LisPush
  <2> DEFINE d == [slot |-> lis.slot, dg |-> lis.dg]
  <2>1. d \in Datagram /\ d.slot = lis.slot
    BY <1>5 DEF LisPush, Pushing
  <2>2. /\ Slots(queue') = Slots(queue) \cup {lis.slot}
        /\ lis.slot \notin Slots(queue) => Distinct(queue')
    BY <1>5, <2>1, SlotsAppend DEF LisPush, PlaneType, Queues
  <2> QED BY <1>5, <2>2 DEF LisPush
<1>6. CASE LisPushDropped
  <2>1. main # "up" \/ p5.pc \in Joining
    BY <1>6 DEF LisPushDropped, DataPlane
  <2> QED BY <1>6, <2>1 DEF LisPushDropped
<1>7. CASE RxCheck BY <1>7 DEF RxCheck
<1>8. CASE RxPop
  <2>1. /\ Slots(queue) = Slots(queue') \cup {Head(queue).slot}
        /\ Distinct(queue') /\ Head(queue).slot \notin Slots(queue')
    BY <1>8, SlotsTail DEF RxPop, PlaneType, Queues
  <2>2. Head(queue).slot # None
    <3>1. Head(queue) \in Datagram
      BY <1>8, TailAt DEF RxPop, PlaneType, Queues
    <3> QED BY <3>1, VnfAssumption DEF Datagram
  <2> QED BY <1>8, <2>1, <2>2 DEF RxPop
<1>9. CASE RxPopNull BY <1>9 DEF RxPopNull
<1>10. CASE RxDispatch BY <1>10 DEF RxDispatch
<1> QED
  BY <1>1, <1>2, <1>3, <1>4, <1>5, <1>6, <1>7, <1>8, <1>9, <1>10 DEF Listener, RxTask

(* Nobody else touches a slot.                                             *)
LEMMA HoldersOther ==
    ASSUME Session, Holders, Forwarder \/ Stop \/ Main \/ Pnf
    PROVE  Holders'
<1> USE HeldSlots DEF Holders, p5Vars, pnfVars, p7Vars, netVars
<1>1. CASE Forwarder BY <1>1 DEF Forwarder, FwdTake, FwdPass, FwdGiveUp, FwdSend
<1>2. CASE Stop BY <1>2 DEF Stop
<1>3. CASE StopClose BY <1>3 DEF StopClose, CloseSession, ResetSession
<1>4. CASE StopJoinListener BY <1>4 DEF StopJoinListener
<1>5. CASE StopJoinRx BY <1>5 DEF StopJoinRx, ResetSession
<1>6. CASE Pnf BY <1>6 DEF Pnf, PnfConnect, PnfLeave, PnfSendP7
<1> QED BY <1>1, <1>2, <1>3, <1>4, <1>5, <1>6 DEF Main

-----------------------------------------------------------------------------
(* The inductive invariant.                                                *)
VnfInv ==
    /\ SessionType /\ PlaneType /\ Pushing
    /\ Session /\ Handshake /\ DataPlane /\ Holders

(* It holds initially ...                                                  *)
LEMMA VnfInvInit == Init => VnfInv
<1> SUFFICES ASSUME Init PROVE VnfInv
  OBVIOUS
<1>1. SessionType /\ PlaneType /\ Pushing
  BY TypeInit
<1>2. Session
  BY DEF Init, Session, At, Joining
<1>3. Handshake /\ DataPlane
  BY DEF Init, Handshake, DataPlane, At, Thread, Joining
<1>4. Holders
  BY HeldSlots DEF Init, Holders, Thread
<1> QED BY <1>1, <1>2, <1>3, <1>4 DEF VnfInv

(* ... and every step keeps it.                                            *)
LEMMA VnfInvNext == VnfInv /\ [Next]_vars => VnfInv'
<1> SUFFICES ASSUME VnfInv, [Next]_vars PROVE VnfInv'
  OBVIOUS
<1> USE DEF VnfInv
<1>1. CASE Next
  <2>1. SessionType' /\ PlaneType' /\ Pushing'
    BY <1>1, SessionTypeP5, PlaneTypeP5, TypePlane, TypeOther, PushingNext DEF Next
  <2>2. Session' /\ Handshake' /\ DataPlane'
    BY <1>1, SessionNext, HandshakeNext, DataPlaneNext
  <2>3. Holders'
    BY <1>1, HoldersP5, HoldersPlane, HoldersOther DEF Next
  <2> QED BY <2>1, <2>2, <2>3
<1>2. CASE UNCHANGED vars
  <2> USE <1>2 DEF vars, p5Vars, pnfVars, p7Vars, netVars
  <2>1. SessionType' /\ PlaneType' /\ Pushing'
    BY DEF SessionType, PlaneType, Pushing
  <2>2. Session' /\ Handshake' /\ DataPlane'
    BY DEF Session, Handshake, DataPlane
  <2>3. Holders'
    BY HeldSlots DEF Holders
  <2> QED BY <2>1, <2>2, <2>3
<1> QED BY <1>1, <1>2

(* So it holds in every reachable state of the VNF.                        *)
THEOREM VnfInvariant == Spec => []VnfInv
BY VnfInvInit, VnfInvNext, PTL DEF Spec

(* The VNF keeps its types: no queue beyond its capacity, no slot outside  *)
(* the pool, no datagram number beyond those sent.                         *)
THEOREM VnfTypeCorrect == Spec => []VnfTypeOK
<1>1. VnfInv => VnfTypeOK
  BY Typing DEF VnfInv
<1> QED BY <1>1, VnfInvariant, PTL

(* A session that says RUNNING has both P7 threads and a live queue,       *)
(* whatever p5_listener, the P7 threads and oai_vnf_stop interleave.       *)
THEOREM RunningSessionAlive == Spec => []RunningHasDataPlane
<1>1. VnfInv => RunningHasDataPlane
  BY DEF VnfInv, Session, DataPlane, SessionType, RunningHasDataPlane, Closing, Joining
<1> QED BY <1>1, VnfInvariant, PTL

(* The handshake's sends and the forwarder's never overlap on p5_tx_buf.   *)
THEOREM OneSender == Spec => []SingleSender
<1>1. VnfInv => SingleSender
  BY DEF VnfInv, Session, Handshake, SingleSender
<1> QED BY <1>1, VnfInvariant, PTL

-----------------------------------------------------------------------------
(* A queue of distinct slots has as many slots as items.                   *)
LEMMA CountSlots ==
    ASSUME NEW q \in Seq(Datagram), Distinct(q)
    PROVE  IsFiniteSet(Slots(q)) /\ Cardinality(Slots(q)) = Len(q)
<1> DEFINE f == [i \in 1 .. Len(q) |-> q[i].slot]
<1>1. DOMAIN q = 1 .. Len(q) /\ Len(q) \in Nat
  BY LenProperties
<1>2. f \in Bijection(1 .. Len(q), Slots(q))
  BY <1>1 DEF Distinct, Slots, Bijection, Injection, Surjection, IsInjective
<1>3. ExistsBijection(1 .. Len(q), Slots(q))
  BY <1>2 DEF ExistsBijection
<1>4. IsFiniteSet(1 .. Len(q)) /\ Cardinality(1 .. Len(q)) = Len(q)
  BY <1>1, FS_Interval
<1> QED BY <1>3, <1>4, FS_Bijection

(* The slots held are those queued and those of the two threads, counted   *)
(* once each.                                                              *)
LEMMA CountHeld ==
    ASSUME PlaneType, Holders
    PROVE  Cardinality(Held) = Len(queue) + Cardinality({t \in {"lis", "rx"} :
                               (IF t = "lis" THEN lis ELSE rx).slot # None})
<1> DEFINE T == {t \in {"lis", "rx"} : (IF t = "lis" THEN lis ELSE rx).slot # None}
           Q == Slots(queue)
<1>1. IsFiniteSet(Q) /\ Cardinality(Q) = Len(queue) /\ Len(queue) \in Nat
  BY CountSlots, LenProperties DEF PlaneType, Queues, Holders
<1>2. Held = Q \cup ({lis.slot, rx.slot} \ {None})
  BY HeldSlots
<1>3. /\ lis.slot # None => lis.slot # rx.slot /\ lis.slot \notin Q
      /\ rx.slot # None => rx.slot \notin Q
  BY DEF Holders
<1> HIDE DEF Q
<1>4. \A x : x \notin Q => IsFiniteSet(Q \cup {x}) /\ Cardinality(Q \cup {x}) = Len(queue) + 1
  BY <1>1, FS_AddElement
<1>5. CASE lis.slot = None /\ rx.slot = None
  <2>1. T = {} /\ Held = Q
    BY <1>2, <1>5
  <2>2. Cardinality(T) = 0
    BY <2>1, FS_EmptySet
  <2> QED BY <1>1, <2>1, <2>2
<1>6. CASE lis.slot # None /\ rx.slot = None
  <2>1. T = {"lis"} /\ Held = Q \cup {lis.slot}
    BY <1>2, <1>6
  <2> QED BY <1>3, <1>4, <1>6, <2>1, FS_Singleton
<1>7. CASE lis.slot = None /\ rx.slot # None
  <2>1. T = {"rx"} /\ Held = Q \cup {rx.slot}
    BY <1>2, <1>7
  <2> QED BY <1>3, <1>4, <1>7, <2>1, FS_Singleton
<1>8. CASE lis.slot # None /\ rx.slot # None
  <2>1. T = {"lis"} \cup {"rx"} /\ Held = (Q \cup {lis.slot}) \cup {rx.slot}
    BY <1>2, <1>8
  <2>2. Cardinality(T) = 2
    <3>1. IsFiniteSet({"lis"}) /\ Cardinality({"lis"}) = 1 /\ "rx" \notin {"lis"}
      BY FS_Singleton
    <3>2. Cardinality({"lis"} \cup {"rx"}) = 1 + 1
      BY <3>1, FS_AddElement
    <3> QED BY <2>1, <3>2
  <2>3. Cardinality((Q \cup {lis.slot}) \cup {rx.slot}) = Len(queue) + 2
    <3>1. IsFiniteSet(Q \cup {lis.slot}) /\ Cardinality(Q \cup {lis.slot}) = Len(queue) + 1
      BY <1>3, <1>4, <1>8
    <3>2. rx.slot \notin Q \cup {lis.slot}
      BY <1>3, <1>8
    <3>3. Cardinality((Q \cup {lis.slot}) \cup {rx.slot}) = Cardinality(Q \cup {lis.slot}) + 1
      BY <3>1, <3>2, FS_AddElement
    <3> QED BY <1>1, <3>1, <3>3
  <2> QED BY <2>1, <2>2, <2>3
<1> QED BY <1>5, <1>6, <1>7, <1>8

(* No slot is received into while someone holds it, and none is in use     *)
(* without a holder while the queue is active.                             *)
THEOREM SlotsAccounted == Spec => []SlotAccounting
<1>1. ASSUME VnfInv PROVE SlotAccounting
  <2>1. Held \subseteq inUse
    BY <1>1 DEF VnfInv, Holders
  <2>2. active /\ ~Closing => inUse = Held
    BY <1>1 DEF VnfInv, Holders, DataPlane, Closing, Joining
  <2> QED BY <1>1, <2>1, <2>2, CountHeld DEF VnfInv, SlotAccounting
<1> QED BY <1>1, VnfInvariant, PTL

-----------------------------------------------------------------------------
(* Where a datagram is: dispatched last, with rx_task, in the queue, with  *)
(* the listener, or in the socket.  Order says that each place holds older *)
(* datagrams than the one behind it.                                       *)
Numbering(q) == {q[i].dg : i \in DOMAIN q}
Rising(q)    == \A i, j \in DOMAIN q : i < j => q[i].dg < q[j].dg
Increasing(s) == \A i, j \in DOMAIN s : i < j => s[i] < s[j]
Before(A, B) == \A a \in A, b \in B : a < b
RxDg  == IF rx.pc = "dispatch" THEN {rx.dg} ELSE {}
LisDg == IF lis.pc = "push" THEN {lis.dg} ELSE {}

Order ==
    /\ Before({delivered}, RxDg) /\ Before({delivered}, Numbering(queue))
    /\ Before({delivered}, LisDg) /\ Before({delivered}, Range(socket))
    /\ Before(RxDg, Numbering(queue)) /\ Before(RxDg, LisDg) /\ Before(RxDg, Range(socket))
    /\ Before(Numbering(queue), LisDg) /\ Before(Numbering(queue), Range(socket))
    /\ Before(LisDg, Range(socket))
    /\ Before({delivered}, {sent + 1}) /\ Before(RxDg, {sent + 1})
    /\ Before(Numbering(queue), {sent + 1}) /\ Before(LisDg, {sent + 1})
    /\ Before(Range(socket), {sent + 1})
    /\ Rising(queue) /\ Increasing(socket)

(* Order within the queue and within the socket, as items come and go.     *)
LEMMA RisingAppend ==
    ASSUME NEW q \in Seq(Datagram), NEW d \in Datagram
    PROVE  /\ Numbering(Append(q, d)) = Numbering(q) \cup {d.dg}
           /\ Rising(q) /\ Before(Numbering(q), {d.dg}) => Rising(Append(q, d))
<1> DEFINE t == Append(q, d)
<1>1. /\ DOMAIN q = 1 .. Len(q) /\ DOMAIN t = 1 .. Len(q) + 1 /\ t[Len(q) + 1] = d
      /\ \A i \in 1 .. Len(q) : t[i] = q[i] /\ i \in 1 .. Len(q) + 1
      /\ \A i \in 1 .. Len(q) + 1 : i \in 1 .. Len(q) \/ i = Len(q) + 1
      /\ Len(q) + 1 \in 1 .. Len(q) + 1
      /\ \A i \in 1 .. Len(q) + 1 : ~ (Len(q) + 1 < i)
  BY AppendAt, LenProperties
<1> HIDE DEF t
<1>2. Numbering(t) = Numbering(q) \cup {d.dg}
  BY <1>1 DEF Numbering
<1>3. ASSUME Rising(q), Before(Numbering(q), {d.dg}) PROVE Rising(t)
  <2> SUFFICES ASSUME NEW i \in 1 .. Len(q) + 1, NEW j \in 1 .. Len(q) + 1, i < j
               PROVE  t[i].dg < t[j].dg
    BY <1>1 DEF Rising
  <2>1. i \in 1 .. Len(q) /\ t[i] = q[i] /\ q[i].dg \in Numbering(q)
    BY <1>1 DEF Numbering
  <2>2. CASE j = Len(q) + 1
    BY <1>1, <1>3, <2>1, <2>2 DEF Before
  <2>3. CASE j \in 1 .. Len(q)
    BY <1>1, <1>3, <2>1, <2>3 DEF Rising
  <2> QED BY <1>1, <2>2, <2>3
<1> QED BY <1>2, <1>3 DEF t

(* The first datagram of a queue in order is older than the others.        *)
LEMMA RisingTail ==
    ASSUME NEW q \in Seq(Datagram), q # <<>>
    PROVE  /\ Numbering(Tail(q)) \subseteq Numbering(q) /\ Head(q).dg \in Numbering(q)
           /\ Rising(q) => Rising(Tail(q)) /\ Before({Head(q).dg}, Numbering(Tail(q)))
<1> DEFINE t == Tail(q)
           n == Len(q)
<1>1. /\ DOMAIN q = 1 .. n /\ n \in Nat \ {0} /\ DOMAIN t = 1 .. n - 1 /\ Head(q) = q[1]
      /\ \A i \in 1 .. n - 1 : t[i] = q[i + 1] /\ i + 1 \in 1 .. n
      /\ 1 \in DOMAIN q
  BY TailAt
<1> HIDE DEF t, n
<1>2. Numbering(t) \subseteq Numbering(q) /\ q[1].dg \in Numbering(q)
  <2>1. ASSUME NEW x \in Numbering(t) PROVE x \in Numbering(q)
    <3> PICK i \in 1 .. n - 1 : x = t[i].dg
      BY <1>1 DEF Numbering
    <3>1. i + 1 \in 1 .. n /\ x = q[i + 1].dg
      BY <1>1
    <3> QED BY <1>1, <3>1 DEF Numbering
  <2>2. q[1].dg \in Numbering(q)
    BY <1>1 DEF Numbering
  <2> QED BY <2>1, <2>2
<1>3. ASSUME Rising(q) PROVE Rising(t) /\ Before({q[1].dg}, Numbering(t))
  <2>1. \A i, j \in 1 .. n : i < j => q[i].dg < q[j].dg
    BY <1>1, <1>3 DEF Rising
  <2>2. ASSUME NEW i \in 1 .. n - 1, NEW j \in 1 .. n - 1, i < j PROVE t[i].dg < t[j].dg
    <3>1. i + 1 < j + 1 /\ i + 1 \in 1 .. n /\ j + 1 \in 1 .. n
      BY <1>1, <2>2
    <3> QED BY <1>1, <2>1, <3>1
  <2>3. ASSUME NEW i \in 1 .. n - 1 PROVE q[1].dg < t[i].dg
    <3>1. 1 < i + 1 /\ i + 1 \in 1 .. n /\ 1 \in 1 .. n /\ t[i] = q[i + 1]
      BY <1>1
    <3> QED BY <2>1, <3>1
  <2> QED BY <1>1, <2>2, <2>3 DEF Rising, Before, Numbering
<1> QED BY <1>1, <1>2, <1>3 DEF t

(* The same two facts of the numbers in the socket.                        *)
LEMMA IncreasingAppend ==
    ASSUME NEW s \in Seq(Int), NEW x \in Int, Increasing(s), Before(Range(s), {x})
    PROVE  Increasing(Append(s, x))
<1> DEFINE t == Append(s, x)
<1>1. /\ DOMAIN s = 1 .. Len(s) /\ DOMAIN t = 1 .. Len(s) + 1 /\ t[Len(s) + 1] = x
      /\ \A i \in 1 .. Len(s) : t[i] = s[i]
      /\ \A i \in 1 .. Len(s) + 1 : i \in 1 .. Len(s) \/ i = Len(s) + 1
      /\ \A i \in 1 .. Len(s) + 1 : ~ (Len(s) + 1 < i)
  BY AppendAt, LenProperties
<1> HIDE DEF t
<1> SUFFICES ASSUME NEW i \in 1 .. Len(s) + 1, NEW j \in 1 .. Len(s) + 1, i < j
             PROVE  t[i] < t[j]
  BY <1>1 DEF Increasing, t
<1>2. i \in 1 .. Len(s) /\ t[i] = s[i] /\ s[i] \in Range(s)
  BY <1>1 DEF Range
<1>3. CASE j = Len(s) + 1
  BY <1>1, <1>2, <1>3 DEF Before
<1>4. CASE j \in 1 .. Len(s)
  BY <1>1, <1>2, <1>4 DEF Increasing
<1> QED BY <1>1, <1>3, <1>4

(* The first number of the socket is the smallest.                         *)
LEMMA IncreasingTail ==
    ASSUME NEW s \in Seq(Int), s # <<>>, Increasing(s)
    PROVE  Increasing(Tail(s)) /\ Before({Head(s)}, Range(Tail(s)))
<1> DEFINE t == Tail(s)
           n == Len(s)
<1>1. /\ DOMAIN s = 1 .. n /\ n \in Nat \ {0} /\ DOMAIN t = 1 .. n - 1 /\ Head(s) = s[1]
      /\ \A i \in 1 .. n - 1 : t[i] = s[i + 1] /\ i + 1 \in 1 .. n
  BY TailAt
<1> HIDE DEF t, n
<1>2. \A i, j \in 1 .. n : i < j => s[i] < s[j]
  BY <1>1 DEF Increasing
<1>3. ASSUME NEW i \in 1 .. n - 1, NEW j \in 1 .. n - 1, i < j PROVE t[i] < t[j]
  <2>1. i + 1 < j + 1 /\ i + 1 \in 1 .. n /\ j + 1 \in 1 .. n
    BY <1>1, <1>3
  <2> QED BY <1>1, <1>2, <2>1
<1>4. ASSUME NEW i \in 1 .. n - 1 PROVE s[1] < t[i]
  <2>1. 1 < i + 1 /\ i + 1 \in 1 .. n /\ 1 \in 1 .. n /\ t[i] = s[i + 1]
    BY <1>1
  <2> QED BY <1>2, <2>1
<1>5. Increasing(t) /\ Before({s[1]}, Range(t))
  BY <1>1, <1>3, <1>4 DEF Increasing, Before, Range
<1> QED BY <1>1, <1>5 DEF t

(* Losing datagrams on the way keeps the order of the others.              *)
LEMMA OrderShrinks ==
    ASSUME Order, UNCHANGED <<sent, delivered>>, RxDg' \subseteq RxDg, LisDg' \subseteq LisDg,
           Numbering(queue') \subseteq Numbering(queue), Range(socket') \subseteq Range(socket),
           Rising(queue'), Increasing(socket')
    PROVE  Order'
BY DEF Order, Before

(* The datagram rx_task holds is newer than all it has dispatched.         *)
LEMMA DispatchIsLater ==
    ASSUME PlaneType, Order, RxDispatch
    PROVE  delivered' > delivered
<1>1. delivered \in Int /\ rx.dg \in Int
  BY DEF PlaneType, Numbers, RxThread
<1>2. RxDg = {rx.dg} /\ delivered' = rx.dg
  BY DEF RxDispatch, RxDg
<1> QED BY <1>1, <1>2 DEF Order, Before

(* The P7 threads pass datagrams on in order.                              *)
LEMMA OrderPlane ==
    ASSUME PlaneType, Pushing, Order, Listener \/ RxTask
    PROVE  Order' /\ (delivered' # delivered => delivered' > delivered)
<1> USE DEF netVars
<1>1. /\ socket \in Seq(1 .. MaxDgram) /\ socket \in Seq(Int) /\ queue \in Seq(Datagram)
      /\ delivered \in Int /\ rx.dg \in Int
  <2>1. socket \in Seq(1 .. MaxDgram) /\ queue \in Seq(Datagram)
    BY DEF PlaneType, Sockets, Queues
  <2>2. 1 .. MaxDgram \subseteq Int
    OBVIOUS
  <2>3. socket \in Seq(Int)
    BY <2>1, <2>2, SeqMonotonic
  <2>4. delivered \in Int /\ rx.dg \in Int
    BY DEF PlaneType, Numbers, RxThread
  <2> QED BY <2>1, <2>3, <2>4
<1>2. ASSUME socket # <<>>
      PROVE  /\ Range(Tail(socket)) \subseteq Range(socket) /\ Head(socket) \in Range(socket)
             /\ Increasing(Tail(socket)) /\ Before({Head(socket)}, Range(Tail(socket)))
  BY <1>1, <1>2, TailFacts, IncreasingTail DEF Order
<1>3. Rising(queue) /\ Increasing(socket)
  BY DEF Order
<1>4. CASE LisCheck \/ LisTimeout \/ LisPushDropped
  <2>1. LisDg' \subseteq LisDg /\ RxDg' \subseteq RxDg
    BY <1>4 DEF LisCheck, LisTimeout, LisPushDropped, LisDg, RxDg, Thread
  <2>2. UNCHANGED <<queue, socket, sent, delivered>>
    BY <1>4 DEF LisCheck, LisTimeout, LisPushDropped
  <2> QED BY <1>3, <2>1, <2>2, OrderShrinks
<1>5. CASE LisDiscard
  <2>1. LisDg' \subseteq LisDg /\ RxDg' \subseteq RxDg
    BY <1>5 DEF LisDiscard, LisDg, RxDg, Thread
  <2>2. UNCHANGED <<queue, sent, delivered>> /\ socket' = Tail(socket) /\ socket # <<>>
    BY <1>5 DEF LisDiscard
  <2> QED BY <1>2, <1>3, <2>1, <2>2, OrderShrinks
<1>6. CASE LisReceive
  <2>1. LisDg' = {Head(socket)} /\ RxDg' = RxDg
    BY <1>6 DEF LisReceive, LisDg, RxDg
  <2>2. UNCHANGED <<queue, sent, delivered>> /\ socket' = Tail(socket) /\ socket # <<>>
    BY <1>6 DEF LisReceive
  <2> QED BY <1>2, <2>1, <2>2 DEF Order, Before
<1>7. CASE LisPush
  <2> DEFINE d == [slot |-> lis.slot, dg |-> lis.dg]
  <2>1. d \in Datagram /\ d.dg = lis.dg
    BY <1>7 DEF LisPush, Pushing
  <2>2. LisDg = {lis.dg} /\ LisDg' = {} /\ RxDg' = RxDg
    BY <1>7 DEF LisPush, LisDg, RxDg, Thread
  <2>3. UNCHANGED <<socket, sent, delivered>> /\ queue' = Append(queue, d)
    BY <1>7 DEF LisPush
  <2>4. Numbering(queue') = Numbering(queue) \cup LisDg
    BY <1>1, <2>1, <2>2, <2>3, RisingAppend
  <2>5. Rising(queue')
    BY <1>1, <2>1, <2>2, <2>3, RisingAppend DEF Order
  <2> QED BY <2>2, <2>3, <2>4, <2>5 DEF Order, Before
<1>8. CASE RxCheck \/ RxPopNull
  <2>1. LisDg' \subseteq LisDg /\ RxDg' \subseteq RxDg
    BY <1>8 DEF RxCheck, RxPopNull, LisDg, RxDg, Thread
  <2>2. UNCHANGED <<queue, socket, sent, delivered>>
    BY <1>8 DEF RxCheck, RxPopNull
  <2> QED BY <1>3, <2>1, <2>2, OrderShrinks
<1>9. CASE RxPop
  <2>1. LisDg' = LisDg /\ RxDg' = {Head(queue).dg}
    BY <1>9 DEF RxPop, LisDg, RxDg
  <2>2. UNCHANGED <<socket, sent, delivered>> /\ queue' = Tail(queue) /\ queue # <<>>
    BY <1>9 DEF RxPop
  <2>3. /\ Numbering(queue') \subseteq Numbering(queue) /\ Head(queue).dg \in Numbering(queue)
        /\ Rising(queue') /\ Before({Head(queue).dg}, Numbering(queue'))
    BY <1>1, <1>3, <2>2, RisingTail
  <2> QED BY <2>1, <2>2, <2>3 DEF Order, Before
<1>10. CASE RxDispatch
  <2>1. LisDg' = LisDg /\ RxDg = {rx.dg} /\ RxDg' = {}
    BY <1>10 DEF RxDispatch, LisDg, RxDg, Thread
  <2>2. UNCHANGED <<queue, socket, sent>> /\ delivered' = rx.dg
    BY <1>10 DEF RxDispatch
  <2>3. delivered' > delivered
    BY <1>10, DispatchIsLater
  <2>4. Order'
    BY <2>1, <2>2 DEF Order, Before
  <2> QED BY <2>3, <2>4
<1> QED
  BY <1>4, <1>5, <1>6, <1>7, <1>8, <1>9, <1>10
     DEF Listener, RxTask, LisCheck, LisTimeout, LisPushDropped, LisDiscard, LisReceive, LisPush,
         RxCheck, RxPop, RxPopNull

(* p5_listener at most empties the queue.                                  *)
LEMMA OrderP5 ==
    ASSUME Order, P5
    PROVE  Order' /\ delivered' = delivered
<1> USE DEF p5Vars, pnfVars, p7Vars, netVars
<1>1. UNCHANGED netVars
  BY DEF P5, P5Check, P5Timeout, P5Accept, P5Reject, P5Read, P5Sent, P5JoinListener,
         P5EnterRunning, P5NoListener, P5NoRxTask, P5JoinFailed, P5JoinRx, P5Disconnected, P5SendFails
<1>2. queue' \in {queue, <<>>}
  BY DEF P5, P5Check, P5Timeout, P5Accept, P5Reject, P5Read, P5Sent, P5JoinListener,
         P5EnterRunning, P5NoListener, P5NoRxTask, P5JoinFailed, P5JoinRx, P5Disconnected, P5SendFails
<1>3. /\ lis' = lis \/ lis' = Thread("check") \/ lis' = Thread("off")
      /\ rx' = rx \/ rx' = Thread("check") \/ rx' = Thread("off")
  BY DEF P5, P5Check, P5Timeout, P5Accept, P5Reject, P5Read, P5Sent, P5JoinListener,
         P5EnterRunning, P5NoListener, P5NoRxTask, P5JoinFailed, P5JoinRx, P5Disconnected, P5SendFails
<1>4. LisDg' \subseteq LisDg /\ RxDg' \subseteq RxDg
  BY <1>3 DEF LisDg, RxDg, Thread
<1>5. Numbering(<<>>) = {} /\ Rising(<<>>)
  BY EmptySeq DEF Numbering, Rising
<1> QED BY <1>1, <1>2, <1>4, <1>5, OrderShrinks DEF Order

(* The PNF's next datagram has the highest number.                         *)
LEMMA OrderOther ==
    ASSUME PlaneType, Order, Forwarder \/ Stop \/ Main \/ Pnf
    PROVE  Order' /\ delivered' = delivered
<1> USE DEF p5Vars, pnfVars, p7Vars, netVars
<1>1. CASE ~PnfSendP7
  <2>1. UNCHANGED <<lis, rx, queue, netVars>>
    BY <1>1 DEF Forwarder, FwdTake, FwdPass, FwdGiveUp, FwdSend, Stop, Main, StopClose,
                StopJoinListener, StopJoinRx, CloseSession, Pnf, PnfConnect, PnfLeave
  <2>2. UNCHANGED <<LisDg, RxDg>>
    BY <2>1 DEF LisDg, RxDg
  <2> QED BY <2>1, <2>2, OrderShrinks DEF Order
<1>2. CASE PnfSendP7
  <2>1. /\ sent' = sent + 1 /\ socket' = Append(socket, sent + 1)
        /\ UNCHANGED <<LisDg, RxDg, queue, delivered>>
    BY <1>2 DEF PnfSendP7, LisDg, RxDg
  <2>2. /\ socket \in Seq(Int) /\ sent \in Int /\ sent + 1 \in Int
        /\ {delivered} \subseteq Int /\ RxDg \subseteq Int /\ LisDg \subseteq Int
    <3>1. socket \in Seq(1 .. MaxDgram)
      BY DEF PlaneType, Sockets
    <3>2. 1 .. MaxDgram \subseteq Int
      OBVIOUS
    <3>4. socket \in Seq(Int)
      BY <3>1, <3>2, SeqMonotonic
    <3>3. sent \in Int /\ delivered \in Int /\ rx.dg \in Int /\ lis.dg \in Int
      BY DEF PlaneType, Numbers, RxThread, LisThread
    <3> QED BY <3>3, <3>4 DEF RxDg, LisDg
  <2>3. Numbering(queue) \subseteq Int
    <3> SUFFICES ASSUME NEW i \in DOMAIN queue PROVE queue[i].dg \in Int
      BY DEF Numbering
    <3>1. queue[i] \in Datagram
      BY DEF PlaneType, Queues
    <3> QED BY <3>1 DEF Datagram
  <2>4. Range(socket) \subseteq Int /\ Range(socket') = Range(socket) \cup {sent + 1}
    <3>1. Range(socket') = Range(socket) \cup {sent + 1}
      BY <2>1, <2>2, AppendFacts
    <3>2. \A i \in DOMAIN socket : socket[i] \in Int
      BY <2>2, ElementOfSeq, LenProperties
    <3> QED BY <3>1, <3>2 DEF Range
  <2>5. Increasing(socket')
    BY <2>1, <2>2, IncreasingAppend DEF Order
  <2> DEFINE S == Range(socket)
             Q == Numbering(queue)
  <2>6. ASSUME NEW A \in SUBSET Int, Before(A, {sent + 1}) PROVE Before(A, {sent' + 1})
    BY <2>1, <2>2, <2>6 DEF Before
  <2>7. /\ Before({delivered}, {sent' + 1}) /\ Before(RxDg, {sent' + 1})
        /\ Before(Q, {sent' + 1}) /\ Before(LisDg, {sent' + 1}) /\ Before(S, {sent' + 1})
    BY <2>2, <2>3, <2>4, <2>6 DEF Order
  <2>8. Before(S \cup {sent + 1}, {sent' + 1})
    BY <2>1, <2>2, <2>7 DEF Before
  <2>9. /\ Before({delivered}, S \cup {sent + 1}) /\ Before(RxDg, S \cup {sent + 1})
        /\ Before(Q, S \cup {sent + 1}) /\ Before(LisDg, S \cup {sent + 1})
    BY DEF Order, Before
  <2> QED BY <2>1, <2>4, <2>5, <2>7, <2>8, <2>9 DEF Order
<1> QED BY <1>1, <1>2

(* Only rx_task itself ends a dispatch: nobody creates or joins the thread *)
(* while it is in one.                                                     *)
LEMMA OnlyTaskEndsDispatch ==
    ASSUME Session, DataPlane, rx.pc = "dispatch", Next, ~RxDispatch
    PROVE  rx' = rx
<1> USE DEF p5Vars, pnfVars, p7Vars, netVars
<1>1. CASE P5EnterRunning
  <2>1. started
    BY <1>1 DEF P5EnterRunning, Session, DataPlane
  <2> QED BY <1>1, <2>1 DEF P5EnterRunning
<1>2. ~P5JoinRx
  BY DEF P5JoinRx
<1>3. CASE P5 /\ ~P5EnterRunning
  BY <1>2, <1>3
  DEF P5, P5Check, P5Timeout, P5Accept, P5Reject, P5Read, P5Sent, P5JoinListener,
      P5NoListener, P5NoRxTask, P5JoinFailed, P5Disconnected, P5SendFails
<1>4. CASE Listener
  BY <1>4 DEF Listener, LisCheck, LisTimeout, LisDiscard, LisReceive, LisPush, LisPushDropped
<1>5. CASE Forwarder \/ Stop \/ Main \/ Pnf
  BY <1>5 DEF Forwarder, FwdTake, FwdPass, FwdGiveUp, FwdSend, Stop, Main, StopClose,
              StopJoinListener, StopJoinRx, CloseSession, Pnf, PnfConnect, PnfLeave, PnfSendP7
<1>6. ~RxTask
  BY DEF RxTask, RxCheck, RxPop, RxPopNull
<1> QED BY <1>1, <1>3, <1>4, <1>5, <1>6 DEF Next

(* Every step keeps Order, and dispatches a later datagram or none.        *)
LEMMA OrderNext ==
    ASSUME VnfInv, Order, [Next]_vars
    PROVE  Order' /\ (Dispatching \/ delivered' # delivered => delivered' > delivered)
<1>1. CASE Next
  <2>1. Order' /\ (RxDispatch \/ delivered' # delivered => delivered' > delivered)
    BY <1>1, OrderPlane, DispatchIsLater, OrderP5, OrderOther DEF Next, RxTask, VnfInv
  <2>2. Dispatching => RxDispatch
    BY <1>1, OnlyTaskEndsDispatch DEF Dispatching, VnfInv
  <2> QED BY <2>1, <2>2
<1>2. CASE UNCHANGED vars
  BY <1>2 DEF vars, p7Vars, netVars, Order, LisDg, RxDg, Dispatching
<1> QED BY <1>1, <1>2

(* Initially there are no datagrams.                                       *)
LEMMA OrderInit == Init => Order
<1>1. Numbering(<<>>) = {} /\ Rising(<<>>) /\ Range(<<>>) = {} /\ Increasing(<<>>)
  BY EmptySeq DEF Numbering, Rising, Range, Increasing
<1> QED BY <1>1 DEF Init, Order, Before, LisDg, RxDg, Thread

(* rx_task dispatches the datagrams in the order they came, none twice:    *)
(* every dispatch is of a datagram newer than all before it.               *)
THEOREM DispatchedInOrder == Spec => DispatchInOrder
<1>1. VnfInv /\ Order /\ [Next]_vars
        => Order' /\ [Dispatching \/ delivered' # delivered => delivered' > delivered]_vars
  BY OrderNext
<1> QED BY <1>1, OrderInit, VnfInvInit, VnfInvNext, PTL DEF Spec, DispatchInOrder
=============================================================================
