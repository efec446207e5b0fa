# A TLA+ development for xFAPI

xFAPI sits between a 5G L1 and a 5G L2 that were not made for each other and
carries FAPI messages across: it moves them between shared-memory rings
(libxsm), SCTP/UDP sockets (nFAPI) and NVIDIA's nvIPC, and translates them on
the way. One of four pairs is built at a time:

| pair | L1 side | L2 side | code |
|---|---|---|---|
| OCUDU_OCUDU | OCUDU-L1 over xSM | OCUDU-L2 over xSM | `src/src/core/OCUDU_OCUDU` |
| OAI_OCUDU | OAI-L1, a nFAPI PNF | OCUDU-L2 over xSM | `src/src/core/OAI_OCUDU` |
| AERIAL_OAI | Aerial cuBB over nvIPC | OAI-L2, a nFAPI VNF | `src/src/core/AERIAL_OAI` |
| AERIAL_OCUDU | Aerial cuBB over nvIPC | OCUDU-L2 over xSM | `src/src/core/AERIAL_OCUDU` |

Paths below are relative to the repository's `src/`.

## 1. Inventory

| component | state it keeps | operations | what is hard | what makes it correct |
|---|---|---|---|---|
| Pair-0 master pool (`core/OCUDU_OCUDU/pair0_master_pool.c`) | free list, slot records | create, acquire, on_slot_indication | a block is freed by counting slots, nobody returns one | no block shared or lost, no array overrun, none handed out again before `DL_SLOT_DEPTH` slots |
| OCUDU_OCUDU forwarders (`forwarder_l1_to_l2.c`, `forwarder_l2_to_l1.c`) | the message in hand | get, acquire, copy, return, put, rotate | two threads and two processes around one pool; every call can fail | no block recycled under a reader, every buffer comes back but those the code is known to lose |
| Split forwarders (`forwarder_split_l1.c`, `forwarder_split_l2.c`) | the message in hand | the same with an Ethernet transport in the middle | as above, and a lossy wire | as above |
| VNF (`core/OAI_OCUDU/oai_vnf.c`, `oai_p7.c`) | P5 socket and state, P7 threads, rx pool, queue | accept, handshake, teardown, receive, dispatch, stop | five threads, joins, creation failures, disconnects | RUNNING means there is a data plane; slots come back; stop returns; a disconnect is survived |
| L2 to OAI forwarder (`forwarder_l2_to_oai.c`) | message in hand | bounded wait for RUNNING, translate, send | reads the session unsynchronised, shares a transmit buffer | one sender at a time |
| P7 segmentation (`oai_p7.c` of both nFAPI pairs) | sequence number, reassembly table | send, receive a segment, reset | loss, reordering, duplication, 8-bit sequence numbers, full table | what is dispatched is one message, whole |
| Inter-thread queue (`utils/task_mngr/itc_queue.c`) | ring, flag, two condition variables | init, push, pop, destroy | lost wakeups, destruction under waiters | a bounded FIFO, nobody sleeps for ever |
| OAI/OCUDU and Aerial/OCUDU translation (`translation/`) | numerology, cell id, carrier | one function per message | two dialects that encode the same field differently, structures of variable length, counters that wrap | L1 acts in the slot L2 meant, on whole requests whose fields mean the same; L2 is told the truth; the cell is the one asked for |
| PNF (`core/AERIAL_OAI/oai_pnf.c`, `oai_p7.c`) | P5 connection, state, P7 threads | connect, read, respond, RUNNING, stop | as the VNF, with a reconnect loop | as the VNF |
| nvIPC clients and bridges (`aerial_nvipc.c`, `aerial_send.c`, `aerial_oai_bridge.c`, `forwarder_l2_to_aerial.c`) | attach state, epoll thread | attach, drain, receive, send, stop | attach races with L2, message released on each path | one user of the shared transmit buffer; each request answered; shared buffers come back |
| Application life cycle (`main/app_manager.c`, `framework/*_l1_interface.c`) | handles and threads started | init, run, destroy | unwinding after a failure, a detached wait thread | what was started is stopped, in order |
| Configuration (`utils/config`) | none after start | parse, defaults, range checks | defaults that depend on other fields | accepted configurations are in range |
| Logger, message statistics (`utils/logs`, `utils/stats_generation`) | shared buffers | append, dump | no lock, wrapping index | an entry is written by one thread |
| Thread manager, memory helpers, DPDK start-up, dashboard | - | - | not on the message path | - |

How they interact. In OCUDU_OCUDU the uplink thread copies each L1 message into
an L2 buffer and rotates the pool after a SLOT.indication; the downlink thread
takes a pool block for each L2 message; L1 reads it out of shared memory. In
OAI_OCUDU `p5_listener` owns the session and starts `p7_listener` and
`rx_task`, which pass rx-pool slots over an `ITC_Queue_t`; the forwarder thread
polls `pnf_state` and sends through the VNF; the main thread stops them in turn.
In AERIAL_OAI `p5_listener` connects out to the VNF, answers what it can and
hands the rest to Aerial; the P7 threads carry downlink datagrams to Aerial; the
nvIPC thread carries what Aerial says to the VNF over the PNF's sockets. In
AERIAL_OCUDU the forwarder thread translates L2's messages and sends them over
nvIPC, and the nvIPC thread translates what Aerial says and puts it into the ring
to L2; both use buffers of one region.

`PROJECT.json` lists every hazard found in this code at its line, with the
properties that watch it.

## 2. Modules

| module | models | state ↔ code | role |
|---|---|---|---|
| `DeferredPool` | what a pool of slot-deferred blocks promises | `age` of a block | abstract specification |
| `MasterPool` | `pair0_master_pool.c` | `freeList` = `free_list[0..free_top-1]`, `slots` = `slots[].buffers[]` | refines `DeferredPool` |
| `OcuduBridge` | the two forwarder threads, L1, L2, both rings | `up`/`down` = locals and program point of the threads, `fromL1`, `toL2`, `fromL2`, `toL1` = the xSM rings | extends `MasterPool` |
| `OaiVnf` | `oai_vnf.c`, `oai_p7.c`, gate of `forwarder_l2_to_oai.c`, stop | fields of `oai_vnf_t`; `p5`, `lis`, `rx`, `fwd`, `main` = program points | five threads and a PNF |
| `BoundedFifo` | what a queue promises | `contents`, `taken`, `open` | abstract specification |
| `ItcQueue` | `itc_queue.c` | fields of `ITC_Queue_t`; `pc` = where a caller is | refines `BoundedFifo` |
| `SegReassembly` | `oai_vnf_send_p7`, `oai_p7_handle_segmented`, the table | `table` = `seg_queue.entries`, `sizes` = messages sent | sender, network, receiver |
| `FapiWire` | `ocudu_fapi_wire.h`, the walkers of the P7 translators | a message = a sequence of units, a structure = a layout of `Fix`, `Vec`, `Alt`, `Opt`, ...; a walk = `ocudu_rd_t` at one place of a message | reader and writer of OCUDU's format |
| `P7Requests` | `L2_to_L1/P7/*.c` of both families | an operator per translator, `Map...` per `map_*` | pure; used by `P7Translation` |
| `P7Indications` | `L1_to_L2/P7/*.c` of both families | an operator per translator | pure; used by `P7Translation` |
| `P7Translation` | the dispatchers `*_p7.c`, between L2 and L1 | `mu` = `cell_numerology`, `ring`, `inbox` = messages under way | the translators put to work |
| `AerialOai` | `oai_pnf.c`, `oai_p7.c`, `aerial_nvipc.c`, `aerial_oai_bridge.c`, start and `app_destroy` | fields of `oai_pnf_t` and `aerial_nvipc_t`; `p5`, `lis`, `rx`, `nv`, `main` = program points | five threads, VNF and Aerial |
| `CellConfig` | `P5/config_request.c` | an operator per helper; `ConfigRequest` = the message built | pure; used by `CellBringup` |
| `CellBringup` | `forwarder_l2_to_aerial.c`, `aerial_nvipc.c`, the P5 translation, `aerial_l1_interface.c`, `app_destroy` | `fwd`, `nv`, `main` = program points, `down`, `up` = rings of `h_l2`, `free` = buffers of the region | three threads, L2 and Aerial |
| `OcuduBridgeProofs`, `OaiVnfProofs`, `ItcQueueProofs`, `SegReassemblyProofs`, `AerialOaiProofs`, `CellBringupProofs`, `P7TranslationProofs` | - | - | proofs about the module each is named after; those about `MasterPool` come first in `OcuduBridgeProofs` |
| `SequenceFacts` | - | - | lemmas on sequences, division and induction that those proofs share |
| `MC*` | - | - | TLC instances |

`OaiVnf` uses the queue through the FIFO contract (blocking push, dropping push
when inactive, pop that drains before NULL) that `ItcQueue` is shown to have.

`CellBringup` extends `CellConfig` and `P7Translation` the two modules of
translators, so that a pure translation is judged by what it makes the two sides
do. Both families of translators are modelled side by side and `P7Translation`
chooses one for a whole behaviour (`pair`), as the build does. `config_request.c`
exists twice with the same text but for the OAI-only P7 address; `map` names
either copy.

A P7 message keeps every field a walker has to step over, as units of a layout,
because a walker that steps wrongly is what goes wrong there; of the values it
keeps those whose encoding differs between the two sides. A field copied as it is
says nothing and is left out. Reader and writer are the same walk over the items
of the body (`Walk`, one item for each field of each structure of each PDU); they
differ in where the next unit comes from, the message or the PDUs. The walk is
a function of the number of units taken, cut into blocks of `BlockSize`
because TLC recurs as deep as such a function does; the cut has no counterpart in
the code, and the proof shows that it makes no difference (`ReadWalk`, `WriteWalk`).

Granularity. A critical section is one action, and so is a stretch of code that
only touches thread-local state; each call that can block, fail or be seen by
another thread (an xSM call, a send, a join, a test of `running`) is a step of
its own. `XSM_*`, sockets, L1, L2 and PNF are not in the repository and are
modelled from how the code uses them.

Definitions that no next-state relation uses (`UpNoBufferWithoutReturn`,
`FwdUngated`, `StoredTwice`, ...) are changed forms of the definition that
follows them. Substituting one shows that the property named with it in
`PROJECT.json` notices that slip.

## 3. What is checked

| run | question | bounds, and why they are enough | distinct states |
|---|---|---|---|
| `ocudu_bridge` | does the pool share, lose or free a block early, is one recycled under a reader, is a buffer lost? | a pool of depth 4 with Hold = Backlog = Lag = 1, the tightest the assumption `Hold + Backlog + Lag < Depth` allows; rings of 1, 2 buffers and 3 blocks of which one is handed out per slot, so that every ring fills, the free list runs empty, records fill and are recycled; each address translation may fail at any time; proved for all values | 709,000 |
| `oai_vnf` | are the five threads' invariants kept, does stop return? | 3 slots against a queue of 2 (the queue, not the pool, fills first, so push blocks), 2 connection attempts (one to attach, one to be refused or to follow), 3 datagrams | 175,000 |
| `oai_vnf_disconnect` | is a disconnect survived? | smallest instance with a data plane | violated |
| `oai_vnf_leak` | does each rx slot come back? | the same | violated |
| `seg_reassembly` | the VNF end: is what is dispatched whole, and once, under loss, reordering and duplication? | 4 messages of up to 2 segments with at most 4 datagrams under way, one of them doubled, a table of 2 entries, 3 sequence numbers, last segments short or not: gaps, overlapping messages, a full table, a number that comes round on what a loss or a short last segment left behind (3 segments with 2 numbers, and the PNF end, show the same); proved for all values and both ends | 1,760,000 |
| `seg_wrap` | is it whole when the 8-bit number comes round on a stale entry? | the PNF end; 2 sequence numbers stand for 256 | violated |
| `seg_legacy` | is it whole when the last segment is short? | the VNF end; one message of 2 segments and a network that loses nothing is enough | violated |
| `itc_queue` | FIFO? lost wakeups? destruction? | capacity 2, two producers and two consumers (the code has one of each), 3 items each: the ring wraps and fills, waiters compete | 8,800 |
| `p7_translation` | do L2 and L1 mean the same by a slot message? | both families, two numerologies, 2 frames of 1 subframe so that the frame number wraps, lists of up to 2 PDUs of every type, also unknown ones, vectors of 0 or 1 element, bodies cut short and too long, a message of L2 of at most 120 units (`MaxBody`; the longest has 110), buffers that hold 1 or 2 reports, a DCI that fits its word (4 bits for 64) and one that does not: every walker, every limit and every loss happens | 192,000 |
| `aerial_oai` | do the five threads of the AERIAL_OAI bridge answer, share and stop properly? | 2 associations (one ends at any point and the next begins), 2 slots against a queue of 1, messages of 2 segments, nvIPC queue of 1, one runt | 270,000 |
| `cell_bringup` | is the cell that runs the one that was accepted, whatever is refused, lost or configured again? | 3 configurations (30 kHz TDD, 120 kHz TDD with beams in both SSB masks, 15 kHz FDD) in any order and any number of times, 2 buffers against rings of 2 and nvIPC queues of 1: region, ring and queue all run out | 182,000 |
| `cell_numerology` | are slots counted in the numerology of the cell that runs? | the same with rings of 1 | violated |

No run checks for deadlock, since each system may stop: in `ocudu_bridge` both
sides run out of buffers when every one was lost to a failing address translation
or `XSM_Put`; elsewhere the bounded PNF, producers and messages run out, or the
VNF or the application has stopped. Where a thread must not wait for ever,
a liveness property says so.

### What the runs show

- **The pool keeps its promise** (`ocudu_bridge`, and proved): a block handed out
  is not handed out again before `Depth` SLOT.indications, whatever fails.
- **No block is recycled under L1**, but only because of timing. Nothing in the
  code tells the pool that L1 is done. The model names what the code relies on:
  at most `Hold` rotations overtake the downlink thread between its acquire and
  its put, at most `Backlog` SLOT.indications wait in the uplink direction, L1
  keeps a block for at most `Lag` SLOT.indications; together fewer than `Depth`
  (16 in the code). `AgeBound` is the reason: the rotations a block has seen
  plus those already on their way are at most Hold + Backlog + those L1 has
  caused since.
- **Buffers.** Where the code loses a buffer, the model does: the one acquired for
  a message whose `XSM_Put` to L2 fails (`forwarder_l1_to_l2.c:95`), the one
  acquired when its own address does not translate (`:76`), an L1 buffer
  (`:60`) and an L2 buffer (`forwarder_l2_to_l1.c:56`) whose address does not
  translate. `lost` and `l1Lost` count them. `L1BufferAccounting` and
  `L2BufferAccounting` say that there are no other leaks: a buffer is in one place,
  and every other exit of the two loops, `forwarder_l2_to_l1.c:70` included, gives
  its buffer back or on. A block whose address does not translate stays in the
  newest slot record and comes back with it.
- **A session that says RUNNING has a data plane**, rx slots are never shared,
  and each dispatch is of a datagram that came after all those dispatched before:
  none is overtaken and none dispatched twice (`DispatchInOrder`).
- **`p5_tx_buf` has one user** only because the forwarder sends in RUNNING and
  the handshake sends before it. (No second handshake can start while a forwarder
  that saw the first session RUNNING is still sending, because the session does
  not survive its PNF: see the finding below.)
- **`oai_vnf_stop` returns** from every state, also with a listener blocked on a
  full queue or a P5 thread stuck in a join. Today `app_destroy` is only reached
  when initialisation fails (`app_run` never ends and `handle_signal` in `main.c`
  exits), so this is about the contract in `oai_vnf.h`.
- **Handshake**: a PNF that stays is brought to RUNNING, also when it does not
  answer PNF_START.request. `oai_vnf.h:65` says RUNNING follows
  PNF_START.response; the code enters it once the request is sent and says why.
- **Findings in OAI_OCUDU.** (1) `oai_p7_threads_stop` joins a listener that only exits when
  the VNF stops, so a disconnect in RUNNING wedges the P5 thread for good.
  (2) `itc_queue_push` on an inactive queue drops the item without a result, and
  the rx-pool slot with it. (3) `rx_task` looks for
  segments with the legacy header unpack (`oai_p7.c:383`), which finds the low half
  of the NR message length where it expects segment and more bits. A last segment
  of fewer than 256 bytes is therefore dispatched alone, and its message never
  completed (`seg_legacy`); an unsegmented message of 256 bytes or more goes
  through the table, where it is complete at once. `oai_p7.c:157` says that the NR
  unpack must be used; AERIAL_OAI's `rx_task` uses it.
- **Finding at both ends.** (4) A segment lost leaves its entry in the table until the
  sequence number comes round, and then two messages are mixed (`seg_wrap`).
- **Reassembly is otherwise whole** (checked at the VNF end, proved for both), under loss, reordering, duplication
  and refusals by a full table (`WholeUnlessLeftover`): what is dispatched is a whole
  message in order, or one of the two cases above, of a message that was sent while
  an entry of its number was left (`leftover`) or has a short last segment
  (`shortTail`). `DispatchedUnlessLost` says that every other message of which
  nothing was lost arrives.
- **The queue** is a FIFO, loses no wakeup although push and pop signal one
  thread, and frees every thread when it is destroyed.

- **Slots agree** in both directions and over the wrap of the frame number, since
  both use the numerology latched from CONFIG.request; requests are whole or not
  there, also when damaged; HARQ, SINR and detection are recoded truthfully.
- **`p5_tx_buf` of the PNF** is packed by `p5_listener` and by the nvIPC thread
  without a lock. `SingleTransmitter` says why this goes well within one
  association: a VNF that waits for Aerial's answer asks `p5_listener` for
  nothing. An answer that comes late, for an association that is over, has no
  such protection, and the property excepts it.
- **AERIAL_OAI's requests are answered**, except where `EveryRequestAnswered` says
  so. What it excepts is what the code does: PARAM, CONFIG and STOP that Aerial
  does not get are dropped without an answer; START.response and
  PNF_START.response are sent even though forwarding or the start of the P7
  threads failed; a message shorter than a header is peeked over and over
  (`oai_pnf.c:316` says "Drain it (below)", nothing does); after a disconnect in
  RUNNING `p5_listener` waits for `p7_listener` for ever, as in the VNF.
- **Stop** of AERIAL_OAI returns in epoll mode. In blocking mode it waits for
  Aerial's next message. `app_destroy` frees the PNF before it joins the nvIPC
  thread, which may send through it (`NvOnFreed`); `StopReturns` excepts that.
- **The cell that runs is one that was accepted** (`CellAsConfigured`, and proved),
  down to the direction of each symbol over two frames. L2 may stop a cell and
  configure it again; a refused CONFIG.request leaves Aerial with the earlier
  configuration, which L2 may start. While L2 asks for no other one, slots are
  counted in the numerology of the cell.
- **Finding** (`cell_numerology`): after a refused CONFIG.request of another
  numerology they are not. `config_request.c:220` latches the numerology before
  L1 has seen the request and nothing takes it back, so that the SLOT.indications of
  the earlier cell, started again, are joined with the wrong number of slots.
- **Buffers of the region** come back in every case but one: a request whose
  address does not translate keeps its buffer (`forwarder_l2_to_aerial.c:64`,
  counted by `leaked`).
- **Limits of `config_request.c`**, which `WellFormed` states, the instance keeps
  clear of (`MCConfigsKept`) and the proof assumes. A slot of both
  directions is recognised only right after the downlink slots, so a pattern with
  a separate partial uplink slot comes out without its uplink symbols; the second
  pattern of a TDD configuration only lengthens the period; a period that does
  not divide the frame starts again with each frame; a period outside the nFAPI
  enumeration becomes 5 ms; a subcarrier spacing of 5 or more is taken for 1.
  For zeroCorrelationZoneConfig 0 (no cyclic shifts, so one preamble in a sequence) it
  asks for 1 root sequence (`config_request.c:94`) where line 83 promises those for
  64 preambles; with cyclic shifts there are enough, which is part of `SameCell`.
- **L2 is not told everything**: STOP.indication and ERROR.indication of Aerial
  end in `aerial_nvipc_handle_rx`, a request made before nvIPC is attached is
  dropped, and a CONFIG.response too short to hold an error code reads as
  success. As L2 is not told that a cell stopped, the L2 of the model may
  ask for a new configuration as soon as it has sent STOP, and Aerial refuses or
  takes it.

### Assumptions and fairness

- `OcuduBridge` has no fairness: it is checked for safety only. `DownInTime` and
  the guard of `L1SlotIndication` are the timing assumptions named above.
- `OaiVnf`: weak fairness for each thread, which the operating system's
  scheduler gives; none for connecting, leaving, sending a datagram, or calling
  stop. `P5SendFails`, thread-creation failures and lost datagrams may happen and
  need not.
- `ItcQueue`: weak fairness for each caller. Nothing forces a destroy. A mutex
  destroyed while used is undefined in POSIX; the model takes what glibc does
  (the lock call fails, the code goes on and sees an inactive queue).
- `AerialOai`, `CellBringup`: weak fairness for each thread and for Aerial; in
  `CellBringup` also for L2 taking what is in its ring; in `AerialOai` none for the
  VNF. Nobody has to start, ask, leave or stop, and `NvAttach` in `CellBringup` is
  not fair: Aerial may never be there.
- `P7Translation` is checked for safety only. Damage to a request is that its
  slot is out of range, or that its body ends early or goes on; L1 reports on what
  it was granted, with any outcome. A request has no more PDUs than the nFAPI
  message has room for (`ListsAssumption`): the code cuts a longer list without
  notice (`dl_tti_request.c:518`, `tx_data_request.c:87`), and then the request
  does not arrive whole. The PDCCHs of UL_DCI beyond `MaxCoresets` are cut
  in the same way, and what `Meant` says of UL_DCI takes that into account.
- `SegReassembly`: no datagram stays in the network for a full round of
  sequence numbers. Nothing is assumed of the table. `LegacyHeader` chooses the
  end, and with it the header `rx_task` reads.

## 4. What is proved

Every safety invariant and action property of the passing runs, for every value of
the constants under the assumptions the modules name. `PoolAssumption`,
`BringupAssumption`, `VnfAssumption`, `AerialOaiAssumption`, `SegAssumption`,
`SlotsAssumption`, `LimitsAssumption` and `MaxBodyAssumption` say that sizes are
positive and bounds are numbers; `ContentAssumption` and `OutcomesAssumption`, what
form the fields of a PDU and a measurement have; `TimeAssumption`, that
numerologies are 0 to 4; `QueueAssumption`, that producers and consumers are
finite and disjoint sets; `BridgeAssumption`, that `Hold + Backlog + Lag < Depth`
and `None` is no buffer; `ListsAssumption`, that L2 asks for no more PDUs in a request
than the nFAPI message has room for. One hypothesis of a theorem goes further and
is named with it below (`WellFormed`). `SequenceFacts` holds what
the proofs share: appending to, taking from and counting in sequences, division,
and induction for a set of numbers (`SetInduction`), from which
`Agreement` (two recursive functions that take the same steps agree) and
`Iteration` (there is a function that takes given steps) follow.

`OcuduBridgeProofs`, the pool
- `PoolInvariant`: `PoolInv` = types, `NoAlias`, `NoLostBlock` and the quota is
  inductive. `NoAlias` alone is not: that the popped block is outside every
  record needs the free list and the records together.
- `PoolTypeCorrect`, `PoolPartition` (`NoAlias`) and `PoolNothingLost`
  (`NoLostBlock`) follow.
- `PoolNoOverrun`: `free_list` has at most `BlockCount` entries because it is
  free of duplicates (pigeonhole), a record at most `MaxPerSlot`.
- `PoolRefinesDeferredPool`: acquiring is `HandOut` of a block of age `Depth`,
  rotating is `SlotIndication`.
- These are about `PoolSpec`, any use of the pool. `BridgeDrivesPool` (`Spec => PoolSpec`)
  says that the two forwarder threads are one, failures included, so they hold of the
  bridge; `BridgeKeepsPromise` draws the conclusion for `DeferredFree`.

`OcuduBridgeProofs`, the bridge
- `BridgeInvariant`: `BridgeInv` adds to `PoolInv` the types, what the locals of
  the threads hold at each point (`LocalsOK`), `Pending <= Backlog`,
  `OneMessagePerBlock` and `AgeBound`. `NoRecycleUnderReader` is not inductive:
  whether a rotation frees a block depends on how old it is, so the invariant
  has to say how old a block in use can be. A rotation ages every block by one
  and takes one off `Pending`; a SLOT.indication of L1 adds one to `Pending` and
  one to `seen` of every block in flight; a put moves a block of age at most
  `Hold` in flight while at most `Backlog` rotations are pending. So `AgeBound`
  is kept, and a block in use is always younger than `Depth`, the age of a free
  one (`PoolRefinesDeferredPool`'s lemmas).
- `BridgeNoRecycleUnderReader`, `BridgeOneMessagePerBlock`, `BridgeAgeBound`,
  `BridgeTypeCorrect` follow.
- `BuffersInvariant`: the places a buffer of each region can be in (free, a ring,
  a thread, a reader, `lost`) form a `Partition` of the region, and no ring holds
  one twice. Each action is then one move of one buffer between two places
  (`Partition`'s lemma), failures included. `L1BuffersComeBack` and
  `L2BuffersAccounted` follow.

`OaiVnfProofs`
- `VnfInvariant`: `VnfInv` has one part per question. `Session`: what the P5
  thread, the main thread and the forwarder say of each other. `Handshake`: at
  most one message of the PNF is on its way, and once PNF_START was sent only its
  own answer, so that no later send of the P5 thread can meet the forwarder's.
  `DataPlane`: the P7 threads live exactly while the session is started; a
  listener leaves only when the VNF stops, so a join while it runs never
  returns, which is the first finding above and the reason why a second data
  plane never starts on the slots of the first. `Holders`: who has which slot.
- `VnfTypeCorrect`, `RunningSessionAlive`, `OneSender` and `SlotsAccounted` follow.
- `DispatchedInOrder`, for each step that dispatches, also the same again: `Order` ranks the datagrams, dispatched before held by
  rx_task before queued before held by the listener before in the socket.

`ItcQueueProofs`
- `QueueInvariant`: `tail` is `head + count` modulo the capacity, and the cells in
  between hold items.
- `RingImplementsFifo`: each step of the ring is a step of `BoundedFifo` or a
  stutter. A push writes a cell that is not among those in use (two places less
  than a capacity apart are different cells, `Place`'s lemmas), a pop takes the
  head and moves all others up by one.
- `NoWakeupLost`: with the single signals of the code, for any number of threads.
  The strengthening is that nobody sleeps on an inactive queue, which is what
  the broadcast of the destroy is for.

`SegReassemblyProofs`
- `TableInvariant` and `EntriesAccounted` need nothing of the network: counters
  agree with the segments held, no two entries have one number, no complete
  entry stays.
- `OwnersInvariant`: the segments of an entry have its number, datagrams under way are
  of the latest message of theirs, and the entry of a message that met no
  leftover holds only its segments. So `WholeMessagesOnly`, for either header.
- `SegInvariant` counts. `Count`: the segments of a message under way and in the
  table, and those dispatched, are no more than it has, and the duplicates.
  `Under`: while nothing of a message is gone, it met no leftover and its last
  segment does not go alone, all of it is under way or in the table, or it was
  dispatched. `OneDispatchEach` and `NothingLingers` follow.

`AerialOaiProofs`
- `AerialOaiTypeCorrect` needs that what is queued or carried is in use.
- `OneMessagePerSequence`: a number is in use only between two datagrams of one
  message, also when the second cannot be sent.
- `RxSlotsHeld`: as in the VNF, a teardown waits in its first join while the PNF
  runs, so no second data plane starts on the slots of the first (`PlaneOK`).
- `OneTransmitter`: messages are of this association or an earlier one
  (`PastOK`), a request of this one is in one place (`OnePlace`), and the VNF waits
  for that request, whose answer nobody has packed yet (`InTurn`).

`CellBringupProofs`
- `BringupInvariant`: to `BufferAccounting` it adds the places of the threads and
  that rings are sequences (`Shape`; what the messages say does not matter),
  `Phases`, the order in which `app_destroy` waits for the threads, and `Quiet`:
  while `app_init` runs, nothing has reached Aerial. Without `Quiet` a start that
  fails could end the nvIPC thread while it holds a buffer.
- `BringupBufferAccounting` and `BringupNoUseAfterClose` follow.
- `ConfigRequestKeepsCell`: for a `WellFormed` configuration the CONFIG.request
  means the same cell. The work is in the directions of the symbols: the slots of
  a frame are a multiple of the period, so L2's count of slots, which runs on,
  and L1's, which starts again with each frame, meet in the same slot of the
  pattern.
- `CellInvariant`. At most one PARAM.request or CONFIG.request, or its answer, is
  under way, L2 waits for it and has put nothing behind it (`OneRequest`): a START
  that is under way was sent before. `Stages`: what L2 knows at each stage. `Meant`:
  a CONFIG.request under way holds what L2 asked for last, and an answer that
  accepts, what Aerial has. `Fits`: a cell that runs, or that a START under way or L2
  may start, has the configuration L2 was told is accepted; a refusal leaves that
  one. `Numbered`: once a request has passed the translation the numerology is the
  one L2 asked for last, and no SLOT.indication counted earlier is behind the
  answer in the ring. With `ConfigRequestKeepsCell`, `CellRunsAsConfigured` follows,
  if every configuration L2 may ask for is `WellFormed`.

`P7TranslationProofs`
- `WholeOrNothingHolds`. Inductive: a request on its way is as L2 put it there
  (`RequestsAsked`), and the property. What has to be shown is that translating a
  request as L2 wrote it is faithful (`TranslateFaithful`), in four steps.
  1. The walk. At the same place of the message, reader and writer have the same
     items to come, as the units read so far are those written (`Agreement`).
     The writer loses no item and is done when its walk is (`WriterHolds`,
     `StepHolds`): so each structure of each PDU is read with the mark it was
     written with and no other (`GotAsWritten`), for vectors of any length and
     either choice of each alternative.
  2. The end. An intact body ends where the walk does (`ReadIntact`); without its
     last unit, items are left over (`ReadCut`); with one more, a unit is
     (`ReadExtra`). Either way the check after the loop (`walk_ok`) fails.
  3. What is captured. `Those` keeps order and place, so what the `switch` of a
     translator picks of the PDUs read are the PDUs of that type (`CapturedIds`).
  4. The lists. Each structure's list shows its PDUs (`Listed`), they are put one
     after the other, and none is cut off, as no PDU has two types and there
     are no more than the message has room for (`FourListed`).
- `SlotAgreementHolds`. Inductive (`SlotInv`): what L2 heard last is the count of a slot
  that L1 began, and a request on its way translates to the time of the slot it is
  meant for. L2 counts on from a number that wraps with the frame number and
  never wraps it itself; the translators take the remainder again
  (`SlotTimeAhead`).
- `FeedbackTruthHolds`. Inductive (`FeedbackInv`): L1 was given no more uplink PDUs
  than fit, so each it received has an outcome, and a report on each is true. The
  verdicts are recoded one by one (`CrcReported`, `UciReported`, ...); that
  an indication is complete or not sent comes from the limits the writers check.
- `ReadAsMeantHolds`. Inductive (`MeaningInv`): `RequestsAsked`, and every entry of L1's
  lists means what was meant, a DCI of more bits than `DciBits` (nFAPI's 64) being cut to it as `dl_tti_request.c:380`
  does, which the operations on lists keep (`FitJoin`, `FitFirst`,
  `FitThose`). Each mapper has a lemma; the one with most to it is Aerial's clamp of
  a CSI-RS into the carrier, in groups of 4 resource blocks (`ClampFacts`).

Only model-checked: liveness (`StopReturns`, `HandshakeCompletes`, `EveryItemTaken`,
`DestroyFreesThreads`, `EveryRequestAnswered`, `CellRequestAnswered`), which is out of
the proof system's reach.

## 5. Not modelled

- How an address is translated between processes (`XSM_PhysToVirt`, `XSM_VirtToPhys`): an
  external contract; that it may fail is modelled wherever the forwarders ask.
  `pair0_master_pool_destroy` only frees memory.
- Message contents: a message is its buffer, its kind where the code branches on
  it, or its number.
- OCUDU_OCUDU: start and stop of the forwarders. The split forwarders have no
  caller.
- OAI_OCUDU: the cell-level responses and how the VNF learns the PNF's P7 address
  (`p7_addr_known`): it is set once, and forgotten with the session.
- AERIAL_OCUDU: the blocking receive mode of nvIPC (`AerialOai` has it), an
  `epoll_wait` that fails for another reason than a signal, and
  the detached thread that waits up to two minutes for L2 to attach and only logs.
- A failed `app_init` of OCUDU_OCUDU or OAI_OCUDU leaves what it started running;
  `main` returns and the process ends.
- The logger and the message statistics write shared buffers without a lock. No
  bridge reads them back.
- YAML parsing, DPDK arguments, thread manager, memory helpers, the dashboard: no
  state the message path depends on after start.

## 6. Plan

Done: the shared-memory path and its pool; the nFAPI session and its threads on
both sides (`OaiVnf`, `AerialOai`); segmentation; the queue; the slot-level
translation of both families; the cell-level procedure and its translation for
Aerial.

Proved: all safety properties of the passing runs.

Left, in this order:

1. The learning of the P7 address in `OaiVnf`, with downlink P7.
2. The split forwarders as a variant of `OcuduBridge`, once they have a caller.
