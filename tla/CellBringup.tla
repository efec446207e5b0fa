---------------------------- MODULE CellBringup ----------------------------
(***************************************************************************)
(* A cell between OCUDU-L2 and Aerial (the AERIAL_OCUDU build): the        *)
(* L2-to-Aerial forwarder (core/AERIAL_OCUDU/forwarder_l2_to_aerial.c),    *)
(* the nvIPC client (aerial_nvipc.c, aerial_send.c), the translation of    *)
(* cell-level messages (translation/AERIAL_L1_OCUDU), and what app_init    *)
(* and app_destroy do with them (aerial_l1_interface.c, app_manager.c).    *)
(*                                                                         *)
(* The forwarder thread (fwd) takes requests from the xSM ring of L2 and   *)
(* sends them over nvIPC; the nvIPC rx thread (nv) takes what Aerial says  *)
(* and puts it into the ring to L2.  Both rings use buffers of one region. *)
(*                                                                         *)
(* OCUDU-L2 asks for PARAM and CONFIG and waits for each answer; START and *)
(* STOP it does not wait for.  It may configure a stopped cell again; when *)
(* that is refused it may ask again, or start the cell as it was.          *)
(* Slot-level requests are DATA, indications SLOT; P7Translation has what  *)
(* becomes of their fields.                                                *)
(*                                                                         *)
(* A definition no other one uses is a changed form of the one that        *)
(* follows it, the way a slip in the C code would change it.               *)
(***************************************************************************)
EXTENDS CellConfig, Sequences, FiniteSets

CONSTANTS Configs,   \* configurations OCUDU-L2 may ask for
          Buffers,   \* buffers of the region shared with L2
          RingCap,   \* messages a ring of h_l2 takes
          NvCap,     \* messages an nvIPC queue takes (bound)
          None       \* no configuration

ASSUME BringupAssumption == {Buffers, RingCap, NvCap} \subseteq Nat \ {0} /\ None \notin Configs

VARIABLES main,        \* "init", "up", the join of app_destroy it waits in, "stopped"
          xsm,         \* h_l2 and region_l2: "open" or "closed"
          fwd,         \* forwarder: [pc, msg]
          fwdRunning,  \* fwd_l2_to_aerial_running
          numerology,  \* cell_numerology
          nv,          \* nvIPC rx thread: [pc, msg]
          nvRunning,   \* nv->running
          ipc,         \* the client: "none" (nv->ipc not set), "up" or "freed"
          down, up,    \* rings of h_l2, from and to L2
          free,        \* number of free buffers of the region
          reading,     \* number of buffers L2 reads
          leaked,      \* number of buffers nobody returned
          toAerial,    \* nvIPC queue to Aerial
          fromAerial,  \* nvIPC queue from Aerial
          aerial,      \* Aerial: [cfg, on]
          l2,          \* L2: [at, waiting, asked, cfg], cfg the one it knows is accepted
          lost         \* a cell-level request or its answer was lost

xsmVars  == <<down, up, free, reading, leaked>>
nvVars   == <<nv, nvRunning, ipc>>
mainVars == <<main, xsm, fwdRunning>>
airVars  == <<toAerial, fromAerial, aerial>>
vars == <<mainVars, fwd, numerology, nvVars, xsmVars, airVars, l2, lost>>

Request(id, cfg)     == [id |-> id, cfg |-> cfg]
Report(id, ok, mu)   == [id |-> id, ok |-> ok, mu |-> mu]
NoRequest == Request("DATA", None)
NoReport  == Report("ERROR", TRUE, 0)
Awaited   == {"PARAM", "CONFIG"}

Fwd(pc) == [pc |-> pc, msg |-> NoRequest]
Nv(pc)  == [pc |-> pc, msg |-> NoReport]

(* aerial_l1_init: xSM is open to L2 and the nvIPC client is attaching.    *)
Init ==
    /\ main = "init" /\ xsm = "open" /\ fwd = Fwd("off") /\ fwdRunning = FALSE
    /\ numerology = 0
    /\ nv = Nv("attach") /\ nvRunning = TRUE /\ ipc = "none"
    /\ down = <<>> /\ up = <<>> /\ free = Buffers /\ reading = 0 /\ leaked = 0
    /\ toAerial = <<>> /\ fromAerial = <<>> /\ aerial = [cfg |-> None, on |-> FALSE]
    /\ l2 = [at |-> "param", waiting |-> FALSE, asked |-> None, cfg |-> None] /\ lost = FALSE

Lose(id) == lost' = (lost \/ id \in Awaited)

-----------------------------------------------------------------------------
(* ocudu_fwd_l2_to_aerial_start; when it fails main returns, and the       *)
(* process is gone with all it holds.                                      *)

StartForwarder ==
    /\ main = "init"
    /\ main' = "up" /\ fwdRunning' = TRUE /\ fwd' = Fwd("get")
    /\ UNCHANGED <<xsm, numerology, nvVars, xsmVars, airVars, l2, lost>>

StartFails ==
    /\ main = "init"
    /\ main' = "stopped" /\ nv' = Nv("exited") /\ ipc' = "freed" /\ xsm' = "closed"
    /\ fwd' = Fwd("exited")
    /\ UNCHANGED <<fwdRunning, numerology, nvRunning, xsmVars, airVars, l2, lost>>

-----------------------------------------------------------------------------
(* fwd_l2_to_aerial_main.  The run flag is only looked at once the ring is *)
(* empty.                                                                  *)

FwdGet ==
    /\ fwd.pc = "get" /\ down # <<>>
    /\ down' = Tail(down)
    /\ fwd' = [pc |-> "forward", msg |-> Head(down)]
    /\ UNCHANGED <<mainVars, numerology, nvVars, up, free, reading, leaked, airVars, l2, lost>>

(* XSM_PhysToVirt fails: the loop goes on without XSM_ReturnBuffer.        *)
FwdNoAddress ==
    /\ fwd.pc = "get" /\ down # <<>>
    /\ down' = Tail(down) /\ leaked' = leaked + 1 /\ Lose(Head(down).id)
    /\ UNCHANGED <<mainVars, fwd, numerology, nvVars, up, free, reading, airVars, l2>>

(* aerial_nvipc_send: nvIPC may not be attached, have no buffer, or take   *)
(* no message.                                                             *)
Send(m) ==
    \/ ipc = "up" /\ Len(toAerial) < NvCap /\ toAerial' = Append(toAerial, m) /\ UNCHANGED lost
    \/ Lose(m.id) /\ UNCHANGED toAerial

Forwarded == fwd' = [fwd EXCEPT !.pc = "return"]

FwdSend ==
    /\ fwd.pc = "forward" /\ fwd.msg.id # "CONFIG"
    /\ Send(fwd.msg) /\ Forwarded
    /\ UNCHANGED <<mainVars, numerology, nvVars, xsmVars, fromAerial, aerial, l2>>

(* aerial_l2l1_config_request latches the numerology before it allocates   *)
(* what it sends.                                                          *)
FwdConfig ==
    /\ fwd.pc = "forward" /\ fwd.msg.id = "CONFIG"
    /\ numerology' = fwd.msg.cfg.mu
    /\ Send(Request("CONFIG", ConfigRequest(fwd.msg.cfg))) /\ Forwarded
    /\ UNCHANGED <<mainVars, nvVars, xsmVars, fromAerial, aerial, l2>>

FwdReturn ==
    /\ fwd.pc = "return"
    /\ free' = free + 1 /\ fwd' = Fwd("get")
    /\ UNCHANGED <<mainVars, numerology, nvVars, down, up, reading, leaked, airVars, l2, lost>>

FwdExit ==
    /\ fwd.pc = "get" /\ down = <<>> /\ ~fwdRunning
    /\ fwd' = Fwd("exited")
    /\ UNCHANGED <<mainVars, numerology, nvVars, xsmVars, airVars, l2, lost>>

Forwarder == FwdGet \/ FwdNoAddress \/ FwdSend \/ FwdConfig \/ FwdReturn \/ FwdExit

-----------------------------------------------------------------------------
(* aerial_nvipc_rx_thread, in its epoll mode *)

NvLoop == Nv(IF nvRunning THEN "wait" ELSE "exited")

(* aerial_nvipc_attach; the set-up of epoll may fail.                      *)
NvAttach ==
    /\ nv.pc = "attach"
    /\ ipc' = "up" /\ nv' \in {NvLoop, Nv("exited")}
    /\ UNCHANGED <<mainVars, fwd, numerology, nvRunning, xsmVars, airVars, l2, lost>>

NvNotThere ==
    /\ nv.pc = "attach" /\ ~nvRunning
    /\ nv' = Nv("exited")
    /\ UNCHANGED <<mainVars, fwd, numerology, nvRunning, ipc, xsmVars, airVars, l2, lost>>

(* epoll_wait times out, or aerial_nvipc_drain is at the end of the queue. *)
NvIdle ==
    /\ nv.pc \in {"wait", "drain"} /\ fromAerial = <<>>
    /\ nv' = NvLoop
    /\ UNCHANGED <<mainVars, fwd, numerology, nvRunning, ipc, xsmVars, airVars, l2, lost>>

Received == nv.pc \in {"wait", "drain"} /\ fromAerial # <<>> /\ fromAerial' = Tail(fromAerial)

(* aerial_l1l2_slot_indication rebuilds the slot from cell_numerology.     *)
Translated(m) == IF m.id = "SLOT" THEN [m EXCEPT !.mu = numerology] ELSE m

HandleParamResponseOnly ==
    /\ Received
    /\ nv' = IF Head(fromAerial).id \in {"PARAM", "SLOT"}
             THEN [pc |-> "acquire", msg |-> Translated(Head(fromAerial))] ELSE Nv("drain")
    /\ UNCHANGED <<mainVars, fwd, numerology, nvRunning, ipc, xsmVars, toAerial, aerial, l2, lost>>

(* aerial_nvipc_handle_rx: answers to PARAM and CONFIG, and indications;   *)
(* a STOP.indication or an ERROR.indication goes no further.               *)
NvHandle ==
    /\ Received
    /\ nv' = IF Head(fromAerial).id \in {"PARAM", "CONFIG", "SLOT"}
             THEN [pc |-> "acquire", msg |-> Translated(Head(fromAerial))] ELSE Nv("drain")
    /\ UNCHANGED <<mainVars, fwd, numerology, nvRunning, ipc, xsmVars, toAerial, aerial, l2, lost>>

(* aerial_l2_xsm_put *)
NvAcquire ==
    /\ nv.pc = "acquire" /\ free > 0
    /\ free' = free - 1 /\ nv' = [nv EXCEPT !.pc = "put"]
    /\ UNCHANGED <<mainVars, fwd, numerology, nvRunning, ipc, down, up, reading, leaked,
                   airVars, l2, lost>>

NvNoBuffer ==
    /\ nv.pc = "acquire" /\ free = 0
    /\ nv' = Nv("drain") /\ Lose(nv.msg.id)
    /\ UNCHANGED <<mainVars, fwd, numerology, nvRunning, ipc, xsmVars, airVars, l2>>

NvPut ==
    /\ nv.pc = "put" /\ Len(up) < RingCap
    /\ up' = Append(up, nv.msg) /\ nv' = Nv("drain")
    /\ UNCHANGED <<mainVars, fwd, numerology, nvRunning, ipc, down, free, reading, leaked,
                   airVars, l2, lost>>

PutFailsWithoutReturn ==
    /\ nv.pc = "put"
    /\ nv' = Nv("drain") /\ Lose(nv.msg.id)
    /\ UNCHANGED <<mainVars, fwd, numerology, nvRunning, ipc, xsmVars, airVars, l2>>

(* The buffer has no address here, or XSM_Put fails: it is given back.     *)
NvPutFails ==
    /\ nv.pc = "put"
    /\ free' = free + 1 /\ nv' = Nv("drain") /\ Lose(nv.msg.id)
    /\ UNCHANGED <<mainVars, fwd, numerology, nvRunning, ipc, down, up, reading, leaked,
                   airVars, l2>>

NvRun ==
    \/ NvNotThere \/ NvIdle \/ NvHandle \/ NvAcquire \/ NvNoBuffer \/ NvPut \/ NvPutFails

-----------------------------------------------------------------------------
(* app_destroy *)

Stop ==
    /\ main = "up"
    /\ main' = "join_fwd" /\ fwdRunning' = FALSE
    /\ UNCHANGED <<xsm, fwd, numerology, nvVars, xsmVars, airVars, l2, lost>>

GoOnWithoutForwarder ==
    /\ main = "join_fwd"
    /\ main' = "join_nv" /\ nvRunning' = FALSE
    /\ UNCHANGED <<xsm, fwd, fwdRunning, numerology, nv, ipc, xsmVars, airVars, l2, lost>>

(* ocudu_fwd_l2_to_aerial_stop, then aerial_nvipc_stop *)
JoinForwarder ==
    /\ main = "join_fwd" /\ fwd.pc = "exited"
    /\ main' = "join_nv" /\ nvRunning' = FALSE
    /\ UNCHANGED <<xsm, fwd, fwdRunning, numerology, nv, ipc, xsmVars, airVars, l2, lost>>

(* aerial_nvipc_stop, XSM_Free and XSM_Close *)
JoinNv ==
    /\ main = "join_nv" /\ nv.pc = "exited"
    /\ main' = "stopped" /\ ipc' = "freed" /\ xsm' = "closed"
    /\ UNCHANGED <<fwd, fwdRunning, numerology, nv, nvRunning, xsmVars, airVars, l2, lost>>

Main == StartForwarder \/ StartFails \/ JoinForwarder \/ JoinNv

-----------------------------------------------------------------------------
(* OCUDU-L2 *)

L2Puts(m) ==
    /\ xsm = "open" /\ free > 0 /\ Len(down) < RingCap
    /\ free' = free - 1 /\ down' = Append(down, m)
    /\ UNCHANGED <<mainVars, fwd, numerology, nvVars, up, reading, leaked, airVars, lost>>

L2Param ==
    /\ l2.at = "param" /\ ~l2.waiting
    /\ L2Puts(Request("PARAM", None)) /\ l2' = [l2 EXCEPT !.waiting = TRUE]

L2Config ==
    /\ l2.at \in {"config", "start"} /\ ~l2.waiting
    /\ \E c \in Configs :
          /\ L2Puts(Request("CONFIG", c))
          /\ l2' = [l2 EXCEPT !.at = "config", !.waiting = TRUE, !.asked = c]

L2Start ==
    /\ l2.at = "start"
    /\ L2Puts(Request("START", None)) /\ l2' = [l2 EXCEPT !.at = "up"]

L2Stop ==
    /\ l2.at = "up"
    /\ L2Puts(Request("STOP", None)) /\ l2' = [l2 EXCEPT !.at = "start"]

L2Data ==
    /\ l2.at = "up"
    /\ L2Puts(NoRequest) /\ UNCHANGED l2

L2Sees(m) ==
    CASE l2.waiting /\ l2.at = "param" /\ m.id = "PARAM" /\ m.ok ->
             [l2 EXCEPT !.at = "config", !.waiting = FALSE]
      [] l2.waiting /\ l2.at = "config" /\ m.id = "CONFIG" /\ m.ok ->
             [l2 EXCEPT !.at = "start", !.waiting = FALSE, !.cfg = l2.asked]
      [] l2.waiting /\ m.id \in Awaited /\ ~m.ok ->
             [l2 EXCEPT !.at = IF l2.cfg = None THEN l2.at ELSE "start", !.waiting = FALSE]
      [] OTHER -> l2

L2Take ==
    /\ xsm = "open" /\ up # <<>>
    /\ up' = Tail(up) /\ reading' = reading + 1 /\ l2' = L2Sees(Head(up))
    /\ UNCHANGED <<mainVars, fwd, numerology, nvVars, down, free, leaked, airVars, lost>>

L2Done ==
    /\ xsm = "open" /\ reading > 0
    /\ reading' = reading - 1 /\ free' = free + 1
    /\ UNCHANGED <<mainVars, fwd, numerology, nvVars, down, up, leaked, airVars, l2, lost>>

L2Asks == L2Param \/ L2Config \/ L2Start \/ L2Stop \/ L2Data

-----------------------------------------------------------------------------
(* Aerial: it may refuse a PARAM or a CONFIG, and refuses a CONFIG of a    *)
(* cell that runs and a START of one that was not configured.              *)

Says(m) == fromAerial' = Append(fromAerial, m)

Takes(m) ==
    CASE m.id = "PARAM"  -> (\E ok \in BOOLEAN : Says(Report("PARAM", ok, 0))) /\ UNCHANGED aerial
      [] m.id = "CONFIG" ->
           \/ Says(Report("CONFIG", FALSE, 0)) /\ UNCHANGED aerial
           \/ ~aerial.on /\ Says(Report("CONFIG", TRUE, 0)) /\ aerial' = [aerial EXCEPT !.cfg = m.cfg]
      [] m.id = "START" ->
           IF aerial.cfg = None THEN Says(NoReport) /\ UNCHANGED aerial
           ELSE aerial' = [aerial EXCEPT !.on = TRUE] /\ UNCHANGED fromAerial
      [] m.id = "STOP" -> Says(Report("STOP", TRUE, 0)) /\ aerial' = [aerial EXCEPT !.on = FALSE]
      [] OTHER -> UNCHANGED <<fromAerial, aerial>>

Aerial ==
    /\ toAerial # <<>> /\ Len(fromAerial) < NvCap
    /\ toAerial' = Tail(toAerial) /\ Takes(Head(toAerial))
    /\ UNCHANGED <<mainVars, fwd, numerology, nvVars, xsmVars, l2, lost>>

(* Slots come when the last one's indication has been drained.             *)
AerialSlot ==
    /\ aerial.on /\ nv.pc = "wait" /\ toAerial = <<>> /\ fromAerial = <<>>
    /\ Says(Report("SLOT", TRUE, aerial.cfg.scs))
    /\ UNCHANGED <<mainVars, fwd, numerology, nvVars, xsmVars, toAerial, aerial, l2, lost>>

Next ==
    \/ Main \/ Forwarder \/ NvAttach \/ NvRun \/ Stop
    \/ L2Asks \/ L2Take \/ L2Done \/ Aerial \/ AerialSlot

(* Every thread that is not waiting goes on, Aerial takes what is sent to  *)
(* it and L2 what is in its ring.                                          *)
Fairness ==
    /\ WF_vars(Main) /\ WF_vars(Forwarder) /\ WF_vars(NvRun)
    /\ WF_vars(Aerial) /\ WF_vars(L2Take) /\ WF_vars(L2Done)

Spec == Init /\ [][Next]_vars /\ Fairness

-----------------------------------------------------------------------------
Holds(thread, pcs) == IF thread.pc \in pcs THEN 1 ELSE 0

(* The buffers of the region are shared by both directions.  Each is free, *)
(* in a ring, or with the forwarder, the nvIPC thread or L2, whatever send *)
(* failed; only a request whose address does not translate keeps its own.  *)
BufferAccounting ==
    Buffers = free + Len(down) + Len(up) + reading + leaked
              + Holds(fwd, {"forward", "return"}) + Holds(nv, {"put"})

(* A running cell is the one OCUDU-L2 was told is accepted, through STOP,  *)
(* new configurations and refused ones: the same numerology, directions of *)
(* every symbol, SSBs and carrier, and 64 PRACH preambles.  Its slots are  *)
(* counted in its own numerology unless the last CONFIG is unanswered or   *)
(* was refused.                                                            *)
CellAsConfigured ==
    /\ aerial.on => SameCell(l2.cfg, aerial.cfg)
    /\ l2.at \in {"start", "up"} /\ l2.asked = l2.cfg =>
           /\ aerial.on => numerology = aerial.cfg.scs
           /\ \A m \in {up[i] : i \in DOMAIN up} : m.id = "SLOT" => m.mu = l2.cfg.mu

(* "Latch the cell numerology for the P7 SLOT.indication translator"       *)
(* (config_request.c): in the cell OCUDU-L2 started, slots are counted in  *)
(* the numerology of the cell, whatever was refused before it started.     *)
SlotsInCellNumerology == aerial.on /\ l2.at = "up" => numerology = aerial.cfg.scs

(* app_destroy stops the forwarder before it frees the nvIPC client the    *)
(* forwarder sends through, and both before it closes the rings they use.  *)
NoUseAfterClose ==
    /\ ipc = "freed" => fwd.pc = "exited"
    /\ xsm = "closed" => fwd.pc = "exited" /\ nv.pc = "exited"

(* OCUDU-L2 gets the answer to each PARAM and CONFIG, unless it is lost in *)
(* a queue or a ring or because nvIPC is not attached, the nvIPC thread    *)
(* could not set up epoll, or the application does not start or stops.     *)
CellRequestAnswered ==
    l2.waiting ~> ~l2.waiting \/ lost \/ nv.pc = "exited" \/ main \notin {"init", "up"}
=============================================================================
