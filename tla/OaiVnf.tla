------------------------------- MODULE OaiVnf -------------------------------
(***************************************************************************)
(* The nFAPI VNF of the OAI_OCUDU bridge: core/OAI_OCUDU/oai_vnf.c (P5     *)
(* session over SCTP), oai_p7.c (P7 data plane over UDP) and the gate of   *)
(* forwarder_l2_to_oai.c.                                                  *)
(*                                                                         *)
(* Five threads share the session: p5_listener accepts one PNF, drives the *)
(* handshake and tears the session down; p7_listener moves datagrams from  *)
(* the UDP socket into rx-pool slots and queues them; rx_task dispatches   *)
(* them and releases the slots; the L2->OAI forwarder sends cell-level P5  *)
(* once the PNF is RUNNING; the main thread stops everything.              *)
(*                                                                         *)
(* The pc of a thread says which call it is in.  Sends to a PNF that is    *)
(* gone may still succeed; the PNF answers each request it receives, and   *)
(* PNF_START.request only if it is a build that does.                      *)
(*                                                                         *)
(* A definition that no action of Next uses (RunningWithoutThreads, ...)   *)
(* is a changed form of the one that follows it, the way a slip in the C   *)
(* code would change it; each property is checked to notice one of them.   *)
(***************************************************************************)
EXTENDS Integers, Sequences, FiniteSets, Functions

CONSTANTS Slot,        \* slots of the P7 rx pool
          QueueCap,    \* ITC_QUEUE_CAPACITY
          SocketCap,   \* datagrams the UDP socket buffers (bound)
          MaxConn,     \* connection attempts of PNFs (bound)
          MaxDgram,    \* datagrams the PNF sends (bound)
          None         \* no slot

ASSUME VnfAssumption ==
    /\ None \notin Slot
    /\ {QueueCap, SocketCap, MaxConn, MaxDgram} \subseteq Nat \ {0}

VARIABLES running,    \* v->running
          main,       \* main thread: "up", then the step of oai_vnf_stop it is in
          p5,         \* p5_listener: [pc, req]
          p5Sock,     \* v->p5_sock: "none", or open with its PNF "up" or "gone"
          pnfState,   \* v->pnf_state
          started,    \* v->p7_threads_started
          knock,      \* a connection waits in the listen backlog
          conns,      \* connection attempts so far
          inbox,      \* P5 messages received on p5_sock and not read yet
          lis,        \* p7_listener: [pc, slot, dg]
          rx,         \* rx_task: [pc, slot, dg]
          queue,      \* p7_rx_queue: [slot, dg]
          active,     \* p7_rx_queue.is_active
          inUse,      \* rx-pool slots acquired
          socket,     \* datagrams in the UDP socket
          sent,       \* datagrams the PNF has sent, numbered 1 ..
          delivered,  \* the datagram rx_task dispatched last
          fwd         \* L2->OAI forwarder: "idle", "gate" or "send"

p5Vars   == <<p5, p5Sock, pnfState, started>>
pnfVars  == <<knock, conns, inbox>>
p7Vars   == <<lis, rx, queue, active, inUse>>
netVars  == <<socket, sent, delivered>>
vars     == <<running, main, p5Vars, pnfVars, p7Vars, netVars, fwd>>

Request  == {"PNF_PARAM", "PNF_CONFIG", "PNF_START"}
SentState == [PNF_PARAM  |-> "PNF_PARAM_SENT",
              PNF_CONFIG |-> "PNF_CONFIG_SENT",
              PNF_START  |-> "PNF_START_SENT"]
PnfState == {"DISCONNECTED", "CONNECTED", "RUNNING"} \cup Range(SentState)

Thread(pc) == [pc |-> pc, slot |-> None, dg |-> 0]
At(pc)     == [pc |-> pc, req |-> "PNF_PARAM"]

Init ==
    /\ running = TRUE /\ main = "up"
    /\ p5 = At("check") /\ p5Sock = "none" /\ pnfState = "DISCONNECTED" /\ started = FALSE
    /\ knock = FALSE /\ conns = 0 /\ inbox = <<>>
    /\ lis = Thread("off") /\ rx = Thread("off")
    /\ queue = <<>> /\ active = FALSE /\ inUse = {}
    /\ socket = <<>> /\ sent = 0 /\ delivered = 0
    /\ fwd = "idle"

-----------------------------------------------------------------------------
(* Session teardown.  oai_vnf_close_pnf_session first deactivates the      *)
(* queue and joins the P7 threads, if they were started, and then resets   *)
(* the session; the joins are steps of their own because they wait.        *)

ResetSession ==
    /\ p5Sock' = "none" /\ inbox' = <<>>
    /\ pnfState' = "DISCONNECTED" /\ started' = FALSE

(* The caller goes to joining when there are P7 threads, else to done.     *)
CloseSession(joining, done) ==
    IF started
    THEN /\ active' = FALSE /\ joining
         /\ UNCHANGED <<p5Sock, inbox, pnfState, started>>
    ELSE ResetSession /\ done /\ UNCHANGED active

P5Close == CloseSession(p5' = At("join_listener"), p5' = At("check"))

-----------------------------------------------------------------------------
(* oai_vnf_p5_listener_thread *)

P5Check ==
    /\ p5.pc = "check"
    /\ p5' = At(IF running THEN "select" ELSE "exited")
    /\ UNCHANGED <<running, main, p5Sock, pnfState, started, pnfVars, p7Vars, netVars, fwd>>

(* select() times out *)
P5Timeout ==
    /\ p5.pc = "select" /\ ~knock /\ inbox = <<>> /\ p5Sock # "gone"
    /\ p5' = At("check")
    /\ UNCHANGED <<running, main, p5Sock, pnfState, started, pnfVars, p7Vars, netVars, fwd>>

(* oai_vnf_accept_pnf, and on to PNF_PARAM.request *)
P5Accept ==
    /\ p5.pc = "select" /\ knock /\ p5Sock = "none"
    /\ knock' = FALSE /\ p5Sock' = "up" /\ pnfState' = "CONNECTED"
    /\ p5' = [pc |-> "send", req |-> "PNF_PARAM"]
    /\ UNCHANGED <<running, main, started, conns, inbox, p7Vars, netVars, fwd>>

(* oai_vnf_accept_pnf with a PNF attached: accept and close the extra one. *)
P5Reject ==
    /\ p5.pc = "select" /\ knock /\ p5Sock # "none"
    /\ knock' = FALSE
    /\ UNCHANGED <<running, main, p5Vars, conns, inbox, p7Vars, netVars, fwd>>

(* oai_vnf_handle_p5_message: what each PNF response leads to, whatever    *)
(* the session state.                                                      *)
P5Read ==
    /\ p5.pc = "select" /\ inbox # <<>>
    /\ inbox' = Tail(inbox)
    /\ p5' = CASE Head(inbox) = "PNF_PARAM"  -> [pc |-> "send", req |-> "PNF_CONFIG"]
               [] Head(inbox) = "PNF_CONFIG" -> [pc |-> "send", req |-> "PNF_START"]
               [] Head(inbox) = "PNF_START"  -> At("enter_running")
    /\ UNCHANGED <<running, main, p5Sock, pnfState, started, knock, conns, p7Vars, netVars, fwd>>

(* oai_vnf_p5_read_dispatch returns 0 or less: tear the session down.      *)
P5Disconnected ==
    /\ p5.pc = "select" /\ inbox = <<>> /\ p5Sock = "gone"
    /\ P5Close
    /\ UNCHANGED <<running, main, knock, conns, lis, rx, queue, inUse, netVars, fwd>>

SentAwaitingStartResponse ==
    /\ p5.pc = "send"
    /\ pnfState' = SentState[p5.req]
    /\ p5' = At("check")
    /\ \/ p5Sock = "up" /\ inbox' = Append(inbox, p5.req)
       \/ (p5Sock = "gone" \/ p5.req = "PNF_START") /\ UNCHANGED inbox
    /\ UNCHANGED <<running, main, p5Sock, started, knock, conns, p7Vars, netVars, fwd>>

(* oai_vnf_send_p5 succeeds; the PNF answers if it is there.               *)
P5Sent ==
    /\ p5.pc = "send"
    /\ pnfState' = SentState[p5.req]
    /\ p5' = At(IF p5.req = "PNF_START" THEN "enter_running" ELSE "check")
    /\ \/ p5Sock = "up" /\ inbox' = Append(inbox, p5.req)
       \/ (p5Sock = "gone" \/ p5.req = "PNF_START") /\ UNCHANGED inbox
    /\ UNCHANGED <<running, main, p5Sock, started, knock, conns, p7Vars, netVars, fwd>>

P5SendFails ==
    /\ p5.pc = "send" /\ p5Sock = "gone"
    /\ P5Close
    /\ UNCHANGED <<running, main, knock, conns, lis, rx, queue, inUse, netVars, fwd>>

RunningWithoutThreads ==
    /\ p5.pc = "enter_running"
    /\ pnfState' = "RUNNING" /\ started' = TRUE
    /\ p5' = At("check")
    /\ UNCHANGED <<running, main, p5Sock, pnfVars, p7Vars, netVars, fwd>>

(* oai_vnf_enter_running, oai_p7_threads_start *)
P5EnterRunning ==
    /\ p5.pc = "enter_running"
    /\ pnfState' = "RUNNING" /\ started' = TRUE
    /\ p5' = At("check")
    /\ IF pnfState = "RUNNING" \/ started
       THEN UNCHANGED p7Vars
       ELSE /\ queue' = <<>> /\ active' = TRUE
            /\ lis' = Thread("check") /\ rx' = Thread("check")
            /\ UNCHANGED inUse
    /\ UNCHANGED <<running, main, p5Sock, pnfVars, netVars, fwd>>

(* pthread_create(p7_listener) fails: the queue stays initialised.         *)
P5NoListener ==
    /\ p5.pc = "enter_running" /\ ~started
    /\ queue' = <<>> /\ active' = TRUE
    /\ ResetSession /\ p5' = At("check")
    /\ UNCHANGED <<running, main, knock, conns, lis, rx, inUse, netVars, fwd>>

(* pthread_create(rx_task) fails: destroy the queue, join the listener.    *)
P5NoRxTask ==
    /\ p5.pc = "enter_running" /\ ~started
    /\ queue' = <<>> /\ active' = FALSE
    /\ lis' = Thread("check") /\ p5' = At("join_failed")
    /\ UNCHANGED <<running, main, p5Sock, pnfState, started, pnfVars, rx, inUse, netVars, fwd>>

P5JoinFailed ==
    /\ p5.pc = "join_failed" /\ lis.pc = "exited"
    /\ lis' = Thread("off") /\ ResetSession /\ p5' = At("check")
    /\ UNCHANGED <<running, main, knock, conns, rx, queue, active, inUse, netVars, fwd>>

(* oai_p7_threads_stop, the two joins *)
P5JoinListener ==
    /\ p5.pc = "join_listener" /\ lis.pc = "exited"
    /\ p5' = At("join_rx")
    /\ UNCHANGED <<running, main, p5Sock, pnfState, started, pnfVars, p7Vars, netVars, fwd>>

P5JoinRx ==
    /\ p5.pc = "join_rx" /\ rx.pc = "exited"
    /\ lis' = Thread("off") /\ rx' = Thread("off")
    /\ ResetSession /\ p5' = At("check")
    /\ UNCHANGED <<running, main, knock, conns, queue, active, inUse, netVars, fwd>>

P5 ==
    \/ P5Check \/ P5Timeout \/ P5Accept \/ P5Reject \/ P5Read \/ P5Disconnected
    \/ P5Sent \/ P5SendFails \/ P5EnterRunning \/ P5NoListener \/ P5NoRxTask
    \/ P5JoinFailed \/ P5JoinListener \/ P5JoinRx

-----------------------------------------------------------------------------
(* oai_p7_listener_thread *)

LisCheck ==
    /\ lis.pc = "check"
    /\ lis' = Thread(IF running THEN "select" ELSE "exited")
    /\ UNCHANGED <<running, main, p5Vars, pnfVars, rx, queue, active, inUse, netVars, fwd>>

LisTimeout ==
    /\ lis.pc = "select" /\ socket = <<>>
    /\ lis' = Thread("check")
    /\ UNCHANGED <<running, main, p5Vars, pnfVars, rx, queue, active, inUse, netVars, fwd>>

(* A runt, an unpackable header, an implausible or a wrong length, or a    *)
(* pool with no free slot: the datagram is drained.                        *)
LisDiscard ==
    /\ lis.pc = "select" /\ socket # <<>>
    /\ socket' = Tail(socket) /\ lis' = Thread("check")
    /\ UNCHANGED <<running, main, p5Vars, pnfVars, rx, queue, active, inUse, sent, delivered, fwd>>

ReceiveIntoAnySlot ==
    /\ lis.pc = "select" /\ socket # <<>>
    /\ \E s \in Slot : lis' = [pc |-> "push", slot |-> s, dg |-> Head(socket)]
                       /\ inUse' = inUse \cup {s}
    /\ socket' = Tail(socket)
    /\ UNCHANGED <<running, main, p5Vars, pnfVars, rx, queue, active, sent, delivered, fwd>>

(* oai_p7_rx_pool_acquire and recvfrom into the slot *)
LisReceive ==
    /\ lis.pc = "select" /\ socket # <<>>
    /\ \E s \in Slot \ inUse : lis' = [pc |-> "push", slot |-> s, dg |-> Head(socket)]
                               /\ inUse' = inUse \cup {s}
    /\ socket' = Tail(socket)
    /\ UNCHANGED <<running, main, p5Vars, pnfVars, rx, queue, active, sent, delivered, fwd>>

PushWithoutWaiting ==
    /\ lis.pc = "push" /\ active
    /\ queue' = Append(queue, [slot |-> lis.slot, dg |-> lis.dg])
    /\ lis' = Thread("check")
    /\ UNCHANGED <<running, main, p5Vars, pnfVars, rx, active, inUse, netVars, fwd>>

(* itc_queue_push: blocks while the queue is full and active *)
LisPush ==
    /\ lis.pc = "push" /\ active /\ Len(queue) < QueueCap
    /\ queue' = Append(queue, [slot |-> lis.slot, dg |-> lis.dg])
    /\ lis' = Thread("check")
    /\ UNCHANGED <<running, main, p5Vars, pnfVars, rx, active, inUse, netVars, fwd>>

(* itc_queue_push on an inactive queue drops the item; its slot stays in   *)
(* use.                                                                    *)
LisPushDropped ==
    /\ lis.pc = "push" /\ ~active
    /\ lis' = Thread("check")
    /\ UNCHANGED <<running, main, p5Vars, pnfVars, rx, queue, active, inUse, netVars, fwd>>

Listener ==
    LisCheck \/ LisTimeout \/ LisDiscard \/ LisReceive \/ LisPush \/ LisPushDropped

-----------------------------------------------------------------------------
(* oai_p7_rx_task_thread *)

RxCheck ==
    /\ rx.pc = "check"
    /\ rx' = Thread(IF running THEN "pop" ELSE "exited")
    /\ UNCHANGED <<running, main, p5Vars, pnfVars, lis, queue, active, inUse, netVars, fwd>>

PopWithoutRemoval ==
    /\ rx.pc = "pop" /\ queue # <<>>
    /\ rx' = [pc |-> "dispatch", slot |-> Head(queue).slot, dg |-> Head(queue).dg]
    /\ UNCHANGED <<running, main, p5Vars, pnfVars, lis, queue, active, inUse, netVars, fwd>>

(* itc_queue_pop: an inactive queue is drained before it gives NULL. *)
RxPop ==
    /\ rx.pc = "pop" /\ queue # <<>>
    /\ rx' = [pc |-> "dispatch", slot |-> Head(queue).slot, dg |-> Head(queue).dg]
    /\ queue' = Tail(queue)
    /\ UNCHANGED <<running, main, p5Vars, pnfVars, lis, active, inUse, netVars, fwd>>

RxPopNull ==
    /\ rx.pc = "pop" /\ queue = <<>> /\ ~active
    /\ rx' = Thread("exited")
    /\ UNCHANGED <<running, main, p5Vars, pnfVars, lis, queue, active, inUse, netVars, fwd>>

(* dispatch, then oai_p7_rx_pool_release *)
RxDispatch ==
    /\ rx.pc = "dispatch"
    /\ delivered' = rx.dg /\ inUse' = inUse \ {rx.slot}
    /\ rx' = Thread("check")
    /\ UNCHANGED <<running, main, p5Vars, pnfVars, lis, queue, active, socket, sent, fwd>>

RxTask == RxCheck \/ RxPop \/ RxPopNull \/ RxDispatch

-----------------------------------------------------------------------------
(* l2_to_oai_forward for a cell-level P5 message.  The wait for RUNNING is *)
(* bounded: it gives up after P5_RUNNING_WAIT_MS and drops the message.    *)

FwdTake ==
    /\ fwd = "idle" /\ main = "up"
    /\ fwd' = "gate"
    /\ UNCHANGED <<running, main, p5Vars, pnfVars, p7Vars, netVars>>

FwdUngated ==
    /\ fwd = "gate"
    /\ fwd' = "send"
    /\ UNCHANGED <<running, main, p5Vars, pnfVars, p7Vars, netVars>>

FwdPass ==
    /\ fwd = "gate" /\ pnfState = "RUNNING"
    /\ fwd' = "send"
    /\ UNCHANGED <<running, main, p5Vars, pnfVars, p7Vars, netVars>>

FwdGiveUp ==
    /\ fwd = "gate" /\ pnfState # "RUNNING"
    /\ fwd' = "idle"
    /\ UNCHANGED <<running, main, p5Vars, pnfVars, p7Vars, netVars>>

(* oai_vnf_send_p5_msg: packs into v->p5_tx_buf and sends *)
FwdSend ==
    /\ fwd = "send"
    /\ fwd' = "idle"
    /\ UNCHANGED <<running, main, p5Vars, pnfVars, p7Vars, netVars>>

Forwarder == FwdTake \/ FwdPass \/ FwdGiveUp \/ FwdSend

-----------------------------------------------------------------------------
(* app_destroy: the forwarder is stopped before oai_vnf_stop. *)

Stop ==
    /\ main = "up" /\ fwd = "idle"
    /\ running' = FALSE /\ main' = "join_p5"
    /\ UNCHANGED <<p5Vars, pnfVars, p7Vars, netVars, fwd>>

StopJoinsBeforeDeactivating ==
    /\ main = "join_p5" /\ p5.pc = "exited"
    /\ IF started
       THEN main' = "join_listener"
            /\ UNCHANGED <<active, p5Sock, inbox, pnfState, started>>
       ELSE ResetSession /\ main' = "stopped" /\ UNCHANGED active
    /\ UNCHANGED <<running, p5, knock, conns, lis, rx, queue, inUse, netVars, fwd>>

StopClose ==
    /\ main = "join_p5" /\ p5.pc = "exited"
    /\ CloseSession(main' = "join_listener", main' = "stopped")
    /\ UNCHANGED <<running, p5, knock, conns, lis, rx, queue, inUse, netVars, fwd>>

StopJoinListener ==
    /\ main = "join_listener" /\ lis.pc = "exited"
    /\ main' = "join_rx"
    /\ UNCHANGED <<running, p5Vars, pnfVars, p7Vars, netVars, fwd>>

StopJoinRx ==
    /\ main = "join_rx" /\ rx.pc = "exited"
    /\ ResetSession /\ main' = "stopped"
    /\ UNCHANGED <<running, p5, knock, conns, p7Vars, netVars, fwd>>

Main == StopClose \/ StopJoinListener \/ StopJoinRx

-----------------------------------------------------------------------------
(* PNFs and their datagrams *)

PnfConnect ==
    /\ ~knock /\ conns < MaxConn /\ main # "stopped"
    /\ knock' = TRUE /\ conns' = conns + 1
    /\ UNCHANGED <<running, main, p5Vars, inbox, p7Vars, netVars, fwd>>

(* The association ends; what it had delivered may be lost with it.        *)
PnfLeave ==
    /\ p5Sock = "up"
    /\ p5Sock' = "gone"
    /\ inbox' \in {inbox, <<>>}
    /\ UNCHANGED <<running, main, p5, pnfState, started, knock, conns, p7Vars, netVars, fwd>>

PnfSendP7 ==
    /\ lis.pc # "off" /\ Len(socket) < SocketCap /\ sent < MaxDgram
    /\ sent' = sent + 1 /\ socket' = Append(socket, sent')
    /\ UNCHANGED <<running, main, p5Vars, pnfVars, p7Vars, delivered, fwd>>

Pnf == PnfConnect \/ PnfLeave \/ PnfSendP7

Next == P5 \/ Listener \/ RxTask \/ Forwarder \/ Stop \/ Main \/ Pnf

(* Each thread is scheduled: a thread that is not waiting goes on.  Nobody *)
(* has to stop the VNF, connect, leave or send a datagram.                 *)
Fairness ==
    /\ WF_vars(P5) /\ WF_vars(Listener) /\ WF_vars(RxTask)
    /\ WF_vars(Forwarder) /\ WF_vars(Main)

Spec == Init /\ [][Next]_vars /\ Fairness

-----------------------------------------------------------------------------
VnfTypeOK ==
    /\ running \in BOOLEAN /\ started \in BOOLEAN /\ knock \in BOOLEAN /\ active \in BOOLEAN
    /\ main \in {"up", "join_p5", "join_listener", "join_rx", "stopped"}
    /\ p5 \in [pc : {"check", "select", "send", "enter_running", "join_failed",
                     "join_listener", "join_rx", "exited"}, req : Request]
    /\ p5Sock \in {"none", "up", "gone"} /\ pnfState \in PnfState
    /\ conns \in 0 .. MaxConn /\ inbox \in Seq(Request)
    /\ lis \in [pc : {"off", "check", "select", "push", "exited"},
                slot : Slot \cup {None}, dg : 0 .. MaxDgram]
    /\ rx \in [pc : {"off", "check", "pop", "dispatch", "exited"},
               slot : Slot \cup {None}, dg : 0 .. MaxDgram]
    /\ queue \in Seq([slot : Slot, dg : 1 .. MaxDgram]) /\ Len(queue) <= QueueCap
    /\ inUse \subseteq Slot
    /\ socket \in Seq(1 .. MaxDgram)
    /\ sent \in 0 .. MaxDgram /\ delivered \in 0 .. MaxDgram
    /\ fwd \in {"idle", "gate", "send"}

Closing == p5.pc \in {"join_listener", "join_rx"} \/ main # "up"

(* A session that says RUNNING has a data plane: both P7 threads are alive *)
(* and the queue between them takes items, except while p5_listener or     *)
(* oai_vnf_stop is tearing the session down.                               *)
RunningHasDataPlane ==
    pnfState = "RUNNING" /\ ~Closing =>
        /\ p5Sock # "none" /\ started /\ active
        /\ lis.pc \in {"check", "select", "push"} /\ rx.pc \in {"check", "pop", "dispatch"}

Queued == {queue[i].slot : i \in DOMAIN queue}
Held   == Queued \cup ({lis.slot, rx.slot} \ {None})

(* No slot is received into while it is queued or being dispatched, and    *)
(* while the queue is active no slot is in use without a holder: it comes  *)
(* back to the pool, whichever of the paths it takes.                      *)
SlotAccounting ==
    /\ Held \subseteq inUse
    /\ Cardinality(Held) = Len(queue) + Cardinality({t \in {"lis", "rx"} :
                               (IF t = "lis" THEN lis ELSE rx).slot # None})
    /\ active /\ ~Closing => inUse = Held

(* rx_task dispatches datagrams in the order the socket delivered them,    *)
(* none twice: whenever it has finished with one, and whenever delivered   *)
(* changes, the one dispatched is newer than all before it.                *)
Dispatching == rx.pc = "dispatch" /\ rx' # rx

DispatchInOrder == [][Dispatching \/ delivered' # delivered => delivered' > delivered]_vars

(* p5_tx_buf has one user at a time: p5_listener's handshake sends and the *)
(* forwarder's cell-level sends never overlap ("P5 thread is               *)
(* single-threaded sender", oai_vnf.h).  Only the RUNNING gate ensures it. *)
SingleSender == ~(p5.pc = "send" /\ fwd = "send")

(* oai_vnf_stop returns, whatever the threads were doing: even a P5 thread *)
(* stuck in a teardown and a listener blocked on a full queue are freed.   *)
StopReturns == main = "join_p5" ~> main = "stopped"

(* A PNF that stays and answers is brought to RUNNING, unless the VNF      *)
(* stops or the system has no thread for the data plane.                   *)
HandshakeCompletes ==
    p5Sock = "up" ~> \/ pnfState = "RUNNING" \/ p5Sock # "up" \/ ~running
                     \/ p5.pc = "join_failed"

(* "borrowed pool slot (released by rx_task)" (oai_vnf.h): a slot in use   *)
(* is held by the listener, the queue or rx_task as long as the VNF runs.  *)
NoLeakedSlot == main = "up" => inUse \subseteq Held

(* "tearing down session and returning to listen" (oai_vnf.c): when the    *)
(* PNF disconnects, its session ends and a new PNF can be accepted.        *)
SurvivesDisconnect == p5Sock = "gone" ~> (p5Sock = "none" \/ ~running)
=============================================================================
