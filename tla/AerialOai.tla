----------------------------- MODULE AerialOai -----------------------------
(***************************************************************************)
(* The AERIAL_OAI bridge (core/AERIAL_OAI): the nFAPI PNF that connects    *)
(* out to the OAI VNF (oai_pnf.c, oai_p7.c), the nvIPC client attached to  *)
(* Aerial (aerial_nvipc.c) and the bridge between them                     *)
(* (aerial_oai_bridge.c, aerial_send.c), from its start to app_destroy.    *)
(*                                                                         *)
(* Five threads: p5_listener answers the VNF or hands its request to       *)
(* Aerial; p7_listener and rx_task carry downlink datagrams to Aerial; the *)
(* nvIPC rx thread (nv) carries what Aerial says to the VNF, over the      *)
(* sockets and the p5_tx_buf of the PNF; main starts and stops all.  A     *)
(* thread's loop condition is evaluated at the end of the step before it.  *)
(*                                                                         *)
(* A VNF asks for one thing at a time, for the next when it has its        *)
(* answer.  Aerial answers CONFIG with a response and STOP with an         *)
(* indication, and a START with nothing.  A message to or from Aerial      *)
(* carries, for the properties, the association it belongs to.             *)
(*                                                                         *)
(* A definition no other one uses is a changed form of the one that        *)
(* follows it, the way a slip in the C code would change it.               *)
(***************************************************************************)
EXTENDS Integers, Sequences, FiniteSets

CONSTANTS PoolSize,  \* OAI_PNF_P7_RX_POOL_SLOTS
          QueueCap,  \* ITC_QUEUE_CAPACITY
          Segments,  \* datagrams of one uplink message
          AirCap,    \* messages that wait in the nvIPC queue from Aerial (bound)
          MaxConn,   \* associations (bound)
          MaxRunts,  \* P5 messages shorter than a header (bound)
          Blocking   \* nv->blocking, nvipc.blocking of the configuration

ASSUME AerialOaiAssumption ==
    /\ {PoolSize, QueueCap, Segments, AirCap, MaxConn} \subseteq Nat \ {0}
    /\ MaxRunts \in Nat /\ Blocking \in BOOLEAN

VARIABLES main,        \* "init", "up", the join of app_destroy it waits in, "stopped"
          pnf,         \* aerial_oai_ctx.pnf: "none", "up" or "freed"
          running,     \* p->running
          p5,          \* p5_listener: "off", or the call it is in
          sock,        \* p->p5_sock: "none", or open with its VNF "up" or "gone"
          state,       \* p->state
          started,     \* p->p7_threads_started
          addrKnown,   \* p->p7_addr_known
          txBuf,       \* the message in p->p5_tx_buf
          lis, rx,     \* p7_listener and rx_task: the call each is in
          queue,       \* number of datagrams in p7_rx_queue
          active,      \* p7_rx_queue.is_active
          inUse,       \* rx-pool slots acquired
          nv,          \* nvIPC rx thread: [pc, msg, seg]
          nvRunning,   \* nv->running
          ipc,         \* nv->ipc is set
          seqUsed,     \* a datagram went out under the present p->p7_sequence
          toAerial,    \* P5 requests in the nvIPC queue to Aerial
          fromAerial,  \* messages in the nvIPC queue from Aerial
          cell,        \* Aerial's cell is started
          vnf,         \* the VNF's side of the association: [at, waiting]
          inbox,       \* P5 messages received on p5_sock and not read
          conns,       \* associations so far
          runts,       \* short P5 messages so far
          lost         \* a request of this association for Aerial was lost

mainVars == <<main, pnf, running>>
sessVars == <<sock, state, started, addrKnown>>
p5Vars   == <<p5, sessVars>>
p7Vars   == <<lis, rx, queue, active, inUse>>
nvVars   == <<nv, nvRunning, ipc, seqUsed>>
airVars  == <<toAerial, fromAerial, cell>>
vnfVars  == <<vnf, inbox, conns, runts>>
vars     == <<mainVars, p5Vars, txBuf, p7Vars, nvVars, airVars, vnfVars, lost>>

(* The requests of a VNF, in the order it asks for them. *)
Script == <<"PNF_PARAM", "PNF_CONFIG", "PNF_START", "PARAM", "CONFIG", "START", "STOP">>
Id     == {Script[i] : i \in DOMAIN Script}
Runt   == "RUNT"
Nothing == [id |-> "UP", of |-> 0]
Msg    == [id : Id, of : 1 .. MaxConn] \cup [id : {"UP"}, of : {0}]

Fresh   == [at |-> 1, waiting |-> FALSE]
Nv(pc)  == [pc |-> pc, msg |-> Nothing, seg |-> 0]

Init ==
    /\ main = "init" /\ pnf = "none" /\ running = FALSE
    /\ p5 = "off" /\ sock = "none" /\ state = "DISCONNECTED" /\ started = FALSE
    /\ addrKnown = FALSE /\ txBuf = Nothing
    /\ lis = "off" /\ rx = "off" /\ queue = 0 /\ active = FALSE /\ inUse = 0
    /\ nv = Nv("attach") /\ nvRunning = TRUE /\ ipc = FALSE
    /\ seqUsed = FALSE
    /\ toAerial = <<>> /\ fromAerial = <<>> /\ cell = FALSE
    /\ vnf = Fresh /\ inbox = <<>> /\ conns = 0 /\ runts = 0 /\ lost = FALSE

-----------------------------------------------------------------------------
(* app_init: nvIPC is started; oai_pnf_start opens the P7 socket, learns   *)
(* the VNF's address if remote_ip is one, and starts p5_listener.          *)

StartPnf ==
    /\ main = "init"
    /\ main' = "up" /\ pnf' = "up" /\ running' = TRUE /\ p5' = "select"
    /\ addrKnown' \in BOOLEAN
    /\ UNCHANGED <<sock, state, started, txBuf, p7Vars, nvVars, airVars,
                   vnfVars, lost>>

StartPnfFails ==
    /\ main = "init"
    /\ main' = "join_nv" /\ nvRunning' = FALSE
    /\ UNCHANGED <<pnf, running, p5Vars, txBuf, p7Vars, nv, ipc, seqUsed, airVars, vnfVars, lost>>

-----------------------------------------------------------------------------
(* oai_pnf_close_vnf_session: the P7 threads, if started, are joined       *)
(* before the session is reset.                                            *)

ResetSession ==
    /\ sock' = "none" /\ inbox' = <<>> /\ vnf' = Fresh
    /\ state' = "DISCONNECTED" /\ started' = FALSE /\ addrKnown' = FALSE

CloseSession(joining, done) ==
    IF started
    THEN active' = FALSE /\ joining /\ UNCHANGED <<sessVars, inbox, vnf>>
    ELSE ResetSession /\ done /\ UNCHANGED active

-----------------------------------------------------------------------------
(* oai_pnf_p5_listener_thread *)

Loop == IF running THEN "select" ELSE "exited"

(* oai_pnf_connect_vnf; the address of the VNF is that of its P5 peer      *)
(* unless the configuration gave one.                                      *)
P5Connect ==
    /\ p5 = "select" /\ sock = "none" /\ conns < MaxConn
    /\ sock' = "up" /\ state' = "CONNECTED" /\ addrKnown' = TRUE
    /\ conns' = conns + 1 /\ vnf' = Fresh /\ lost' = FALSE
    /\ UNCHANGED <<mainVars, p5, started, txBuf, p7Vars, nvVars, airVars, inbox, runts>>

(* connect() fails, or select() times out *)
P5Idle ==
    /\ p5 = "select" /\ (sock = "none" \/ (sock = "up" /\ inbox = <<>>))
    /\ p5' = Loop
    /\ UNCHANGED <<mainVars, sessVars, txBuf, p7Vars, nvVars, airVars, vnfVars, lost>>

(* oai_pnf_p5_read_dispatch peeks less than a header and returns 1.        *)
P5Runt ==
    /\ p5 = "select" /\ inbox # <<>> /\ Head(inbox) = Runt
    /\ p5' = Loop
    /\ UNCHANGED <<mainVars, sessVars, txBuf, p7Vars, nvVars, airVars, vnfVars, lost>>

Disconnected ==
    /\ p5 = "select" /\ inbox = <<>> /\ sock = "gone"
    /\ CloseSession(p5' = "join_lis", p5' = Loop)
    /\ UNCHANGED <<mainVars, txBuf, lis, rx, queue, inUse, nvVars, airVars, conns,
                   runts, lost>>

Request(id) ==
    /\ p5 = "select" /\ inbox # <<>> /\ Head(inbox) = id
    /\ inbox' = Tail(inbox)

Answer(id) == [id |-> id, of |-> conns]

(* oai_pnf_handle_p5_message packs the response into p5_tx_buf.            *)
Respond(id) ==
    /\ txBuf' = Answer(id)
    /\ p5' = IF id = "PNF_CONFIG" THEN "tx_config" ELSE "tx"

Sending == p5 \in {"tx", "tx_config"}

(* Requests answered here, and no more than answered. *)
AnsweredHere == {"PNF_PARAM", "PNF_CONFIG", "PARAM"}

P5Respond ==
    /\ \E id \in AnsweredHere : Request(id) /\ Respond(id)
    /\ UNCHANGED <<mainVars, sessVars, p7Vars, nvVars, airVars, vnf, conns, runts, lost>>

(* aerial_nvipc_send fails when nvIPC is not attached, and when it has no  *)
(* buffer or the queue takes no message.                                   *)
ToAerial(id) ==
    \/ ipc /\ toAerial' = Append(toAerial, Answer(id)) /\ UNCHANGED lost
    \/ UNCHANGED toAerial /\ lost' = TRUE

ForwardAndRespond ==
    /\ \E id \in {"CONFIG", "STOP"} : Request(id) /\ ToAerial(id) /\ Respond(id)
    /\ UNCHANGED <<mainVars, sessVars, p7Vars, nvVars, fromAerial, cell, vnf, conns, runts>>

(* aerial_oai_bridge_p5_to_aerial, its result ignored *)
P5Forward ==
    /\ \E id \in {"CONFIG", "STOP"} : Request(id) /\ ToAerial(id)
    /\ p5' = Loop
    /\ UNCHANGED <<mainVars, sessVars, txBuf, p7Vars, nvVars, fromAerial, cell, vnf,
                   conns, runts>>

StartLeftToAerial ==
    /\ Request("START") /\ p5' = Loop
    /\ \/ ipc /\ toAerial' = Append(toAerial, Answer("START"))
       \/ UNCHANGED toAerial
    /\ UNCHANGED <<mainVars, sessVars, txBuf, p7Vars, nvVars, fromAerial, cell, vnf, conns, runts,
                   lost>>

(* A cell START is sent on to Aerial and answered here.                    *)
P5Start ==
    /\ Request("START") /\ Respond("START")
    /\ \/ ipc /\ toAerial' = Append(toAerial, Answer("START"))
       \/ UNCHANGED toAerial
    /\ UNCHANGED <<mainVars, sessVars, p7Vars, nvVars, fromAerial, cell, vnf, conns,
                   runts, lost>>

(* oai_pnf_enter_running, oai_pnf_p7_threads_start: a failure leaves the   *)
(* state and is answered like a success.                                   *)
P5PnfStart ==
    /\ Request("PNF_START")
    /\ \/ /\ (state = "RUNNING" \/ started) /\ state' = "RUNNING"
          /\ Respond("PNF_START") /\ UNCHANGED <<started, p7Vars>>
       \/ /\ state # "RUNNING" /\ ~started
          /\ state' = "RUNNING" /\ started' = TRUE
          /\ queue' = 0 /\ active' = TRUE /\ lis' = "select" /\ rx' = "pop"
          /\ Respond("PNF_START") /\ UNCHANGED inUse
       \/ /\ state # "RUNNING" /\ ~started              \* no p7_listener
          /\ queue' = 0 /\ active' = TRUE
          /\ Respond("PNF_START") /\ UNCHANGED <<state, started, lis, rx, inUse>>
       \/ /\ state # "RUNNING" /\ ~started              \* no rx_task
          /\ queue' = 0 /\ active' = FALSE /\ lis' = "select"
          /\ p5' = "join_failed" /\ UNCHANGED <<state, started, rx, inUse, txBuf>>
    /\ UNCHANGED <<mainVars, sock, addrKnown, nvVars, airVars, vnf, conns, runts, lost>>

P5JoinFailed ==
    /\ p5 = "join_failed" /\ lis = "exited"
    /\ lis' = "off" /\ Respond("PNF_START")
    /\ UNCHANGED <<mainVars, sessVars, rx, queue, active, inUse, nvVars, airVars,
                   vnfVars, lost>>

(* The VNF gets message m of association m.of; an answer to what it asked  *)
(* lets it go on.                                                          *)
Delivered(m) ==
    vnf' = IF vnf.waiting /\ m = Answer(Script[vnf.at])
           THEN [at |-> vnf.at + 1, waiting |-> FALSE] ELSE vnf

(* sctp_sendmsg sends what p5_tx_buf holds. *)
P5Sent ==
    /\ Sending
    /\ p5' = Loop
    /\ state' = IF p5 = "tx_config" THEN "CONFIGURED" ELSE state
    /\ IF sock = "up" THEN Delivered(txBuf) ELSE UNCHANGED vnf
    /\ UNCHANGED <<mainVars, sock, started, addrKnown, txBuf, p7Vars, nvVars, airVars,
                   inbox, conns, runts, lost>>

P5SendFails ==
    /\ Sending /\ sock = "gone"
    /\ CloseSession(p5' = "join_lis", p5' = Loop)
    /\ UNCHANGED <<mainVars, txBuf, lis, rx, queue, inUse, nvVars, airVars, conns,
                   runts, lost>>

(* oai_pnf_p7_threads_stop, the two joins *)
P5JoinListener ==
    /\ p5 = "join_lis" /\ lis = "exited"
    /\ p5' = "join_rx"
    /\ UNCHANGED <<mainVars, sessVars, txBuf, p7Vars, nvVars, airVars, vnfVars, lost>>

P5JoinRx ==
    /\ p5 = "join_rx" /\ rx = "exited"
    /\ lis' = "off" /\ rx' = "off" /\ p5' = Loop /\ ResetSession
    /\ UNCHANGED <<mainVars, txBuf, queue, active, inUse, nvVars, airVars, conns, runts,
                   lost>>

P5Run ==
    \/ P5Idle \/ P5Runt \/ Disconnected \/ P5Respond \/ P5Forward \/ P5Start \/ P5PnfStart
    \/ P5JoinFailed \/ P5Sent \/ P5SendFails \/ P5JoinListener \/ P5JoinRx

-----------------------------------------------------------------------------
(* oai_pnf_p7_listener_thread and oai_pnf_p7_rx_task_thread.  A datagram   *)
(* is a runt, is too long or finds no slot and is drained, which is like   *)
(* no datagram, or is received into a slot and queued.                     *)

LisIdle ==
    /\ lis = "select"
    /\ lis' = Loop
    /\ UNCHANGED <<mainVars, p5Vars, txBuf, rx, queue, active, inUse, nvVars, airVars,
                   vnfVars, lost>>

ReceiveIntoAnySlot ==
    /\ lis = "select"
    /\ inUse' = inUse + 1 /\ lis' = "push"
    /\ UNCHANGED <<mainVars, p5Vars, txBuf, rx, queue, active, nvVars, airVars, vnfVars, lost>>

LisReceive ==
    /\ lis = "select" /\ inUse < PoolSize
    /\ inUse' = inUse + 1 /\ lis' = "push"
    /\ UNCHANGED <<mainVars, p5Vars, txBuf, rx, queue, active, nvVars, airVars, vnfVars,
                   lost>>

(* itc_queue_push waits while the queue is full, and drops the datagram    *)
(* when it is no longer active.                                            *)
LisPush ==
    /\ lis = "push" /\ (active => queue < QueueCap)
    /\ queue' = IF active THEN queue + 1 ELSE queue
    /\ lis' = Loop
    /\ UNCHANGED <<mainVars, p5Vars, txBuf, rx, active, inUse, nvVars, airVars, vnfVars,
                   lost>>

Listener == LisIdle \/ LisReceive \/ LisPush

(* itc_queue_pop: NULL once the queue is empty and inactive *)
RxPop ==
    /\ rx = "pop" /\ (queue > 0 \/ ~active)
    /\ IF queue > 0 THEN queue' = queue - 1 /\ rx' = "dispatch"
                    ELSE rx' = "exited" /\ UNCHANGED queue
    /\ UNCHANGED <<mainVars, p5Vars, txBuf, lis, active, inUse, nvVars, airVars,
                   vnfVars, lost>>

DispatchWithoutRelease ==
    /\ rx = "dispatch"
    /\ rx' = IF running THEN "pop" ELSE "exited"
    /\ UNCHANGED <<mainVars, p5Vars, txBuf, lis, queue, active, inUse, nvVars, airVars, vnfVars,
                   lost>>

(* oai_pnf_p7_dispatch: on to Aerial, or lost on the way; the slot is free *)
RxDispatch ==
    /\ rx = "dispatch"
    /\ inUse' = inUse - 1
    /\ rx' = IF running THEN "pop" ELSE "exited"
    /\ UNCHANGED <<mainVars, p5Vars, txBuf, lis, queue, active, nvVars, airVars,
                   vnfVars, lost>>

RxTask == RxPop \/ RxDispatch

-----------------------------------------------------------------------------
(* aerial_nvipc_rx_thread *)

NvLoop == Nv(IF nvRunning THEN "wait" ELSE "exited")

(* aerial_nvipc_attach, and the epoll set-up of the non-blocking loop *)
NvAttach ==
    /\ nv.pc = "attach"
    /\ ipc' = TRUE
    /\ nv' = NvLoop \/ (~Blocking /\ nv' = Nv("exited"))
    /\ UNCHANGED <<mainVars, p5Vars, txBuf, p7Vars, nvRunning, seqUsed,
                   airVars, vnfVars, lost>>

NvNotThere ==
    /\ nv.pc = "attach" /\ ~nvRunning
    /\ nv' = Nv("exited")
    /\ UNCHANGED <<mainVars, p5Vars, txBuf, p7Vars, nvRunning, ipc, seqUsed,
                   airVars, vnfVars, lost>>

(* epoll_wait has a timeout, rx_tti_sem_wait of the blocking mode has none. *)
NvTimeout ==
    /\ nv.pc = "wait" /\ fromAerial = <<>> /\ ~Blocking
    /\ nv' = NvLoop
    /\ UNCHANGED <<mainVars, p5Vars, txBuf, p7Vars, nvRunning, ipc, seqUsed,
                   airVars, vnfVars, lost>>

(* aerial_nvipc_drain, to the end of the queue *)
NvDrained ==
    /\ nv.pc = "drain" /\ fromAerial = <<>>
    /\ nv' = NvLoop
    /\ UNCHANGED <<mainVars, p5Vars, txBuf, p7Vars, nvRunning, ipc, seqUsed,
                   airVars, vnfVars, lost>>

Take == nv.pc \in {"wait", "drain"} /\ fromAerial # <<>> /\ fromAerial' = Tail(fromAerial)

(* aerial_oai_bridge_p5_to_oai, oai_pnf_send_p5_raw: packed into the same  *)
(* p5_tx_buf, if there is an association.                                  *)
NvP5 ==
    /\ Take /\ Head(fromAerial).id # "UP"
    /\ IF pnf = "up" /\ sock # "none"
       THEN nv' = [Nv("tx") EXCEPT !.msg = Head(fromAerial)] /\ txBuf' = Head(fromAerial)
       ELSE nv' = Nv("drain") /\ UNCHANGED txBuf
    /\ UNCHANGED <<mainVars, p5Vars, p7Vars, nvRunning, ipc, seqUsed, toAerial,
                   cell, vnfVars, lost>>

NvSent ==
    /\ nv.pc = "tx" /\ pnf = "up"
    /\ nv' = Nv("drain")
    /\ IF sock = "up" THEN Delivered(txBuf) ELSE UNCHANGED vnf
    /\ UNCHANGED <<mainVars, p5Vars, txBuf, p7Vars, nvRunning, ipc, seqUsed,
                   airVars, inbox, conns, runts, lost>>

(* aerial_oai_bridge_p7_to_oai, bridge_rx_data_to_oai: a message that      *)
(* does not unpack, or an RX_DATA that overruns its data, is dropped.      *)
NvP7 ==
    /\ Take /\ Head(fromAerial).id = "UP"
    /\ \/ pnf = "up" /\ nv' = [Nv("segment") EXCEPT !.msg = Head(fromAerial)]
       \/ nv' = Nv("drain")
    /\ UNCHANGED <<mainVars, p5Vars, txBuf, p7Vars, nvRunning, ipc, seqUsed,
                   toAerial, cell, vnfVars, lost>>

SegmentKeepingSequence ==
    /\ nv.pc = "segment" /\ pnf = "up"
    /\ \/ /\ addrKnown
          /\ IF nv.seg + 1 < Segments
             THEN nv' = [nv EXCEPT !.seg = @ + 1] /\ seqUsed' = TRUE
             ELSE nv' = Nv("drain") /\ seqUsed' = FALSE
       \/ nv' = Nv("drain") /\ UNCHANGED seqUsed
    /\ UNCHANGED <<mainVars, p5Vars, txBuf, p7Vars, nvRunning, ipc, airVars, vnfVars, lost>>

(* oai_pnf_send_p7: the message goes as datagrams of one sequence number;  *)
(* a datagram that cannot be sent ends it, and the number is used up.      *)
NvSegment ==
    /\ nv.pc = "segment" /\ pnf = "up"
    /\ \/ /\ addrKnown
          /\ IF nv.seg + 1 < Segments
             THEN nv' = [nv EXCEPT !.seg = @ + 1] /\ seqUsed' = TRUE
             ELSE nv' = Nv("drain") /\ seqUsed' = FALSE
       \/ nv' = Nv("drain") /\ seqUsed' = FALSE
    /\ UNCHANGED <<mainVars, p5Vars, txBuf, p7Vars, nvRunning, ipc, airVars, vnfVars, lost>>

(* The PNF was freed between the lookup of ctx->pnf and its use: what is   *)
(* read there may look like a closed socket, or end the process.           *)
NvOnFreed ==
    /\ nv.pc \in {"tx", "segment"} /\ pnf = "freed"
    /\ nv' \in {Nv("drain"), Nv("crashed")}
    /\ UNCHANGED <<mainVars, p5Vars, txBuf, p7Vars, nvRunning, ipc, seqUsed,
                   airVars, vnfVars, lost>>

NvRun == NvNotThere \/ NvTimeout \/ NvDrained \/ NvP5 \/ NvSent \/ NvP7 \/ NvSegment \/ NvOnFreed

-----------------------------------------------------------------------------
(* app_destroy: oai_pnf_stop, then aerial_nvipc_stop.  The nvIPC thread    *)
(* runs on while the PNF is stopped and freed.                             *)

Stop ==
    /\ main = "up"
    /\ main' = "join_p5" /\ running' = FALSE
    /\ UNCHANGED <<pnf, p5Vars, txBuf, p7Vars, nvVars, airVars, vnfVars, lost>>

FreePnf == pnf' = "freed" /\ main' = "join_nv" /\ nvRunning' = FALSE

StopWithoutQueue ==
    /\ main = "join_p5" /\ p5 = "exited"
    /\ IF started
       THEN main' = "join_lis" /\ UNCHANGED <<sessVars, inbox, vnf, active, pnf, nvRunning>>
       ELSE ResetSession /\ FreePnf /\ UNCHANGED active
    /\ UNCHANGED <<running, p5, txBuf, lis, rx, queue, inUse, nv, ipc, seqUsed, airVars, conns, runts, lost>>

StopClose ==
    /\ main = "join_p5" /\ p5 = "exited"
    /\ CloseSession(main' = "join_lis" /\ UNCHANGED <<pnf, nvRunning>>, FreePnf)
    /\ UNCHANGED <<running, p5, txBuf, lis, rx, queue, inUse, nv, ipc, seqUsed, airVars, conns, runts, lost>>

StopJoinListener ==
    /\ main = "join_lis" /\ lis = "exited"
    /\ main' = "join_rx"
    /\ UNCHANGED <<pnf, running, p5Vars, txBuf, p7Vars, nvVars, airVars,
                   vnfVars, lost>>

StopJoinRx ==
    /\ main = "join_rx" /\ rx = "exited"
    /\ ResetSession /\ FreePnf
    /\ UNCHANGED <<running, p5, txBuf, p7Vars, nv, ipc, seqUsed,
                   airVars, conns, runts, lost>>

StopJoinNv ==
    /\ main = "join_nv" /\ nv.pc = "exited"
    /\ main' = "stopped" /\ ipc' = FALSE
    /\ UNCHANGED <<pnf, running, p5Vars, txBuf, p7Vars, nv, nvRunning, seqUsed, airVars, vnfVars,
                   lost>>

Main == StopClose \/ StopJoinListener \/ StopJoinRx \/ StopJoinNv

-----------------------------------------------------------------------------
(* The VNF and Aerial *)

VnfAsk ==
    /\ sock = "up" /\ ~vnf.waiting /\ vnf.at <= Len(Script)
    /\ vnf' = [vnf EXCEPT !.waiting = TRUE] /\ inbox' = Append(inbox, Script[vnf.at])
    /\ UNCHANGED <<mainVars, p5Vars, txBuf, p7Vars, nvVars, airVars, conns, runts, lost>>

VnfRunt ==
    /\ sock = "up" /\ runts < MaxRunts
    /\ inbox' = Append(inbox, Runt) /\ runts' = runts + 1
    /\ UNCHANGED <<mainVars, p5Vars, txBuf, p7Vars, nvVars, airVars, vnf, conns, lost>>

(* The association ends; what it had delivered may be lost with it.        *)
VnfLeave ==
    /\ sock = "up"
    /\ sock' = "gone" /\ vnf' = Fresh /\ inbox' \in {inbox, <<>>}
    /\ UNCHANGED <<mainVars, p5, state, started, addrKnown, txBuf, p7Vars, nvVars,
                   airVars, conns, runts, lost>>

Aerial ==
    /\ toAerial # <<>> /\ Len(fromAerial) < AirCap
    /\ toAerial' = Tail(toAerial)
    /\ fromAerial' = IF Head(toAerial).id = "START" THEN fromAerial
                     ELSE Append(fromAerial, Head(toAerial))
    /\ cell' = CASE Head(toAerial).id = "START" -> TRUE
                 [] Head(toAerial).id = "STOP" -> FALSE
                 [] OTHER -> cell
    /\ UNCHANGED <<mainVars, p5Vars, txBuf, p7Vars, nvVars, vnfVars, lost>>

(* Indications of the slots of a started cell.  The requests that have     *)
(* arrived come first, and a drain is over before the next slot's come:    *)
(* aerial_nvipc_drain would otherwise not end.                             *)
AerialUp ==
    /\ nv.pc = "wait" /\ cell /\ toAerial = <<>> /\ Len(fromAerial) < AirCap
    /\ fromAerial' = Append(fromAerial, Nothing)
    /\ UNCHANGED <<mainVars, p5Vars, txBuf, p7Vars, nvVars, toAerial, cell, vnfVars, lost>>

Others == VnfAsk \/ VnfRunt \/ VnfLeave \/ AerialUp

Next ==
    \/ StartPnf \/ StartPnfFails \/ P5Connect \/ P5Run \/ Listener \/ RxTask
    \/ NvAttach \/ NvRun \/ Stop \/ Main \/ Aerial \/ Others

(* Each thread that is not waiting goes on, and Aerial takes what is sent  *)
(* to it.  Nobody has to connect, attach, ask, leave or stop.              *)
Fairness ==
    /\ WF_vars(P5Run) /\ WF_vars(Listener) /\ WF_vars(RxTask) /\ WF_vars(NvRun)
    /\ WF_vars(Main) /\ WF_vars(Aerial)

Spec == Init /\ [][Next]_vars /\ Fairness

-----------------------------------------------------------------------------
AerialOaiTypeOK ==
    /\ main \in {"init", "up", "join_p5", "join_lis", "join_rx", "join_nv", "stopped"}
    /\ pnf \in {"none", "up", "freed"} /\ sock \in {"none", "up", "gone"}
    /\ {running, started, addrKnown, active, nvRunning, ipc, cell, lost, seqUsed}
           \subseteq BOOLEAN
    /\ p5 \in {"off", "select", "tx", "tx_config", "join_failed", "join_lis", "join_rx", "exited"}
    /\ state \in {"DISCONNECTED", "CONNECTED", "CONFIGURED", "RUNNING"}
    /\ txBuf \in Msg
    /\ lis \in {"off", "select", "push", "exited"} /\ rx \in {"off", "pop", "dispatch", "exited"}
    /\ queue \in 0 .. QueueCap /\ inUse \in 0 .. PoolSize
    /\ conns \in 0 .. MaxConn /\ runts \in 0 .. MaxRunts
    /\ nv \in [pc : {"attach", "wait", "drain", "tx", "segment", "exited", "crashed"},
               msg : Msg, seg : 0 .. Segments - 1]
    /\ toAerial \in Seq(Msg) /\ fromAerial \in Seq(Msg)
    /\ vnf \in [at : 1 .. Len(Script) + 1, waiting : BOOLEAN]
    /\ inbox \in Seq(Id \cup {Runt})

(* p5_tx_buf has no lock although p5_listener and the nvIPC thread both    *)
(* pack into it.  They meet there only over an answer Aerial gives to an   *)
(* association that is over: within one, the VNF waits for the answer      *)
(* before it asks p5_listener for something else.                          *)
SingleTransmitter == ~(Sending /\ nv.pc = "tx" /\ nv.msg.of = conns)

(* The VNF joins the datagrams of one sequence number into one message: no *)
(* number is used for two, also when a message ends half way.              *)
UplinkWhole == nv.pc = "segment" /\ nv.seg = 0 => ~seqUsed

(* Every slot of the rx pool in use is held by the listener, the queue or  *)
(* rx_task while the data plane is up.                                     *)
SlotsHeld ==
    active /\ started /\ main = "up" =>
        inUse = queue + Cardinality({t \in {1, 2} : <<lis = "push", rx = "dispatch">>[t]})

Late == \E m \in {toAerial[i] : i \in DOMAIN toAerial} \cup {nv.msg}
                 \cup {fromAerial[i] : i \in DOMAIN fromAerial} : m.id # "UP" /\ m.of # conns

(* A VNF that stays gets an answer to each request, over p5_listener or    *)
(* over Aerial and the nvIPC thread, unless the request is lost on the way *)
(* to Aerial, an answer comes late for an association that is over, a runt *)
(* holds up its association, a thread of xFAPI could not start, or the     *)
(* application stops.                                                      *)
EveryRequestAnswered ==
    vnf.waiting /\ inbox # <<>> ~>
        \/ ~vnf.waiting \/ lost \/ Late \/ ~running \/ Runt \in {inbox[i] : i \in DOMAIN inbox}
        \/ p5 = "join_failed" \/ nv.pc = "exited"

(* app_destroy returns whatever the threads were doing, also when          *)
(* p5_listener is in the joins of a teardown: except for the blocking mode *)
(* of nvIPC, where it waits for the next message of Aerial, and unless the *)
(* nvIPC thread used the freed PNF.                                        *)
StopReturns == main = "join_p5" /\ ~Blocking ~> main = "stopped" \/ nv.pc = "crashed"
=============================================================================
