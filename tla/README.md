# LoRa_Rime in TLA+

TLA+ specifications of LoRa_Rime: the Contiki 3.0 kernel and the Rime
communication stack on an STM32L073 with an SX1276 LoRa radio. The modules model
the code line by line where it keeps state, TLC checks them on small instances,
and TLAPS proves every safety property and refinement of the passing runs for every
value of the constants, some under a condition that section 5 names.

Contents: [1 Inventory](#1-inventory) · [2 Plan](#2-plan) ·
[3 The models](#3-the-models) · [4 Runs](#4-runs) · [5 Proofs](#5-proofs) ·
[6 Seeded faults](#6-seeded-faults) · [7 Divergences](#7-divergences-between-code-and-documents) ·
[8 Not modelled](#8-not-modelled)

To check a run: `tlc -config <name>.cfg MC<module>.tla`. To check a proof:
`tlapm RunicastProofs.tla`, and likewise `ProcessProofs`, `ProcessKernelProofs`,
`EtimerProofs`, `CtimerProofs`, `MeshProofs`, `Sx1276Proofs` and `LeastNumber`.

Paths are relative to `contiki-3.0/core/` unless they start with another
top-level directory.

## 1 Inventory

The firmware is one image: `USER/usermain.c` initialises the board, starts the
autostart processes and calls `process_run` for ever. Everything runs either in
that main loop or in an interrupt handler (SysTick, TIM2, the DIO lines of the
radio). Nothing is persisted; a restart begins from `main`.

```
 application processes (examples/rime/example-abc.c, ...)
   |  protothreads; events, polls                  callbacks  ^
   v                                                          |
 mesh  collect  rudolph0-2  trickle  rucb  rmh  netflood ...  |    net/rime
   |                                                          |
 runicast -> stunicast -> unicast -> broadcast -> abc ------- |    net/rime
   |  queuebuf pool, ctimers                                  |
   v                                                          |
 rime_output -> NETSTACK_LLSEC -> MAC (nullmac|csma) -> RDC (nullrdc) -> framer
   |                                                          |
   v                                                          |
 radio/sx1276 <- SPI -> SX1276            DIO interrupts -----+

 ctimer -> etimer -> process kernel <- process_poll <- SysTick and other handlers
```

Everything above the radio runs in the main loop and is called synchronously:
with `nullmac`/`nullrdc` (the configuration in `contiki-conf.h`) a
send returns after its *sent* callback has run. The concurrency that matters is
therefore of three kinds: interrupt handlers between any two instructions of the
main loop; callbacks that re-enter a module half way through one of its
functions; and nodes that talk over a link that loses, delays, duplicates and
reorders frames.

| Component | State | Operations | Interacts with | What is hard | What makes it correct |
|---|---|---|---|---|---|
| Process kernel `sys/process.c`, `sys/autostart.c` | process list, per-process state and poll flag, event ring, current process | `process_start/exit/post/post_synch/poll/run` | calls every thread; polled from interrupts | polls between two steps; threads that start and exit processes while the kernel walks the list; nested synchronous calls | list stays a list; running means listed; no thread entered twice; no poll and no event lost; events in order |
| Event timers `sys/etimer.c`, `sys/timer.c`, `cpu/arm/stm32f103/clock.c` | list of timers, next expiration, clock | `etimer_set/reset/restart/adjust/stop`, the process | SysTick polls it; posts TIMER events | the clock wraps; the event queue is full; SysTick reads the list the main loop changes; processes exit | each timer expires once, not early, for its owner; none forgotten |
| Callback timers `sys/ctimer.c` | list of ctimers, `initialized` | `ctimer_set/reset/restart/stop`, the process | etimers of one process | events of timers since stopped or set again; ctimers set before the process starts | one callback per setting, not early, none lost |
| Real-time timer `sys/rtimer.c`, `sys/rtimer-arch.c` | one slot, compare register | `rtimer_set/reset/run_next` | TIM2 interrupt | check then set, against the interrupt; one slot overwritten | the callback of the last setting runs |
| Runicast `net/rime/runicast.c`, `stunicast.c` | `sndnxt`, `is_tx`, `rxmit`, queue buffer, timer | `runicast_send/open/close/cancel`, received frames, timer | queuebuf pool, ctimer, unicast | 2-bit identifier; lost, late and duplicate frames; callbacks that send again; the pool is empty | truthful and unique verdicts; buffers accounted for; every packet ends |
| Stubborn and polite senders `stbroadcast`, `polite`, `ipolite`, `trickle` | queue buffer, timer, sequence numbers | send, cancel, received copies | ctimer, queuebuf | the same buffer freed from a timer, a reception and a new send; sequence numbers wrap | buffers accounted for; every node gets the newest packet |
| Floods and routes `netflood`, `route-discovery`, `route`, `mesh`, `multihop` | last originator and number, `rrep_pending`, routing table, one queued packet | `mesh_send`, requests, replies, timeouts | ipolite, unicast, ctimer | duplicate filter and wrap; a reply that races its timeout; a second packet while one waits | floods end; a queued packet is sent or reported once; no routing loops |
| Bulk transfer `rudolph0/1/2`, `rucb`, `rmh` | chunk numbers, file positions | send, NACK, repair | runicast, trickle, cfs | lost and repeated chunks, versions | the receiver assembles the file sent |
| Collection `collect`, `collect-neighbor`, `collect-link-estimate`, `neighbor-discovery`, `announcement` | parent, rtmetric, send queue, dup table | send, ACK, timers | packetqueue, unicast-like frames | loops, queue limit, duplicate ACKs | every packet delivered or dropped, not twice |
| Channels `chameleon`, `channel`, `rime.c`, `abc`, `broadcast`, `unicast` | channel list | open, close, dispatch | MAC | a callback closes its own channel | dispatch to the open channel |
| MAC `net/mac/csma.c`, `nullmac`, `nullrdc`, framers | neighbour queues, counters | `send_packet`, `packet_sent` | queuebuf, memb, ctimer | the sent callback frees the queue under the sender; collisions | queues accounted for; one callback for each packet |
| Buffers `net/packetbuf.c`, `queuebuf.c`, `packetqueue.c`, `lib/memb.c`, `lib/list.c` | the packet, pools, lists | alloc, free, add, remove | all of Rime | pool exhausted; an item freed twice or while on a list | no leak, no double use |
| Radio `radio/sx1276/sx1276.c`, `HAL/src/sx1276-board.c` | `Settings.State`, modem, op mode (also cached) | `Send`, `SetRx`, `SetTx`, `StartCad`, `SetSleep`, DIO handlers | SPI, GPIO interrupts | handlers against the main loop; cached op mode; chip state not followed | the driver's state agrees with the chip's; every operation ends |
| Board `HAL/`, `USER/` | peripherals, application flags | init, drivers, main | ST HAL | busy waits on flags set by handlers | – |

## 2 Plan

The order puts first what the rest of the system stands on, and what has the most
behaviours that a test would not reach.

| | Module | Models | Composes | Abstract specification | Status |
|---|---|---|---|---|---|
| 1 | `Runicast` | runicast + stunicast on every node, pool, link | – | `ReliableUnicast` | done, proved |
| 2 | `Process` | process kernel, interrupts | – | `BoundedFifo` | done, proved |
| 3 | `Etimer` | etimers, clock | queue of 2 | `EventTimers` | done, proved |
| 4 | `Ctimer` | ctimers | extends `Etimer` | – | done, proved |
| 5 | `Mesh` | mesh, multihop, route discovery, route, netflood and ipolite on any topology | link, timers | – | done, proved |
| 6 | `Sx1276` | radio driver and chip, the handler of DIO0 | – | – | done for the LoRa modem, proved |
| 7 | `Csma` | neighbour queues and their timers, packet callbacks, over `memb` and `queuebuf` | – | every packet gets one callback | next |
| 8 | `Polite`, `Trickle` | suppression and dissemination | as `Runicast` | eventual consistency of `Trickle` | later |
| 9 | `Rtimer` | the slot against TIM2 | – | – | later |
| 10 | `Rudolph1`, `Collect` | bulk transfer, collection | – | file, delivery | later |

Every module takes its parameters as constants with a named assumption, has an
action for each operation and no RECURSIVE operator, so that it can be proved
about. *Proved* means that every invariant, safety action property and refinement its
runs check is a theorem; liveness stays with TLC (section 5). `LeastNumber` holds what
the proofs share: the least number principle. The modules that come next are to be
proved in the same way, `Csma` first: its callbacks against the queue buffers and the
neighbour list.

## 3 The models

### 3.1 Runicast and ReliableUnicast

`Runicast` models `net/rime/runicast.c` over `stunicast.c` on every node of a
single-hop network. Since `nullmac` and `nullrdc` report a transmission before
`unicast_send` returns, one call into runicast (a send, a timer expiry, a frame
received, a close) is one atomic step together with the callbacks it provokes.

| Model | Code |
|---|---|
| `conn[n]` (`sndnxt`, `is_tx`, `rxmit`, `max_rxmit`; `buf`, `timer`) | `struct runicast_conn` and its `struct stunicast_conn` |
| `free`, `other` | the queuebuf pool of the node, and what its other modules hold of it |
| `air` | frames underway; the radio and the link, external |
| `Send`, `SendLast`, `SendNoBuffer` | `runicast_send`: first transmission; one that is the last at once; no queue buffer |
| `Retransmit`, `RetransmitLast`, `TimerWithoutBuffer` | `send` of stunicast.c as the ctimer callback, with `sent_by_stunicast` inside |
| `RetransmitLastAndSend`, `SendLastAndSend` | the same with an application that sends again from its timedout callback |
| `RecvData`, `RecvAck`, `RecvBadAck` | `recv_from_stunicast` |
| `Close`, `Open` | `runicast_close`, `runicast_open` |
| `TakeQueuebuf`, `ReturnQueuebuf` | `queuebuf_new_from_packetbuf`, `queuebuf_free` by others |
| `LoseFrame`, `keep` | the link loses a frame, or delivers it again later |

Ghost variables number the packets (`sends`) and record what was delivered and
reported. `NoBuf` is the null pointer. The contents of a packet are its number.
Environment assumptions, each a guard with a name: a frame overtaken by `AckLag`
newer packets of its sender is not received any more (`Fresh`; with a 2-bit
identifier no protocol could tell it apart); a connection is opened again only
when no frame of its earlier life is left (`Open`); an application that sends
from its timedout callback asks for at least 2 transmissions then, as the
callback would recurse otherwise.

`ReliableUnicast` is the promise: a node transmits one packet at a time, the
packet may reach its receiver any number of times, the sender is told *sent* only
after that, and gets one verdict for each packet unless it closes the connection
first: a close is the only step that ends a packet without one. A closed connection
submits and receives nothing. `ImplementsReliableUnicast` maps the queue buffer to the
packet being transmitted and `conn[n].open` to the state of the connection.

### 3.2 Process and BoundedFifo

`Process` models `sys/process.c` and `autostart.c`. The C stack is explicit:
`stack` holds one record for each kernel function or thread that has called another
and waits, with the process its loop over the list has reached. A thread is
arbitrary code between kernel calls, so any call `process.h` offers may
be made whenever a thread is on top of the stack, at any depth. An interrupt
handler calls `process_poll` between any two steps (`Interrupt`).

| Model | Code |
|---|---|
| `head`, `next` | `process_list` and the `next` fields, kept by a process that leaves the list |
| `state`, `current` | `p->state`, `process_current` |
| `needspoll`, `poll_requested` | the poll flags |
| `events`, `fevent`, `nevents` | the ring; positions are `unsigned char`, as in the code |
| `RunPolls`, `PollNext` | `process_run`, `do_poll` |
| `RunEvent`, `BroadcastNext`, `BroadcastDeliver` | `do_event` |
| `call_process` … `Yield`, `End` | `call_process` up to the thread, and after it |
| `exit_process`, `TellOthers`, `Leave`, `ReturnLast` | `exit_process`: its start, its loop, its end |
| `Post`, `PostSynch`, `PollFromThread`, `Start`, `Exit`, `CallRefused` | the API |
| `AutostartNext` | `autostart_start` |

Events carry a number instead of a type and data. `ExitCalled` says whether
`process_exit` is called for a process whose thread is on the stack; if it is, the
kernel breaks a promise (section 7), so the safety runs do without it. `BoundedFifo`
is a queue of bounded length; the ring implements it.

### 3.3 Etimer, EventTimers and Ctimer

`Etimer` models `sys/etimer.c` over `sys/timer.c`, and the SysTick handler.
The clock `now` is unbounded, the code sees `now % ClockMod`; all arithmetic of the
code goes through `Wrap`. The event queue holds the TIMER events and, as places
taken, the events of others. The search of `etimer_process` looks at one timer per
step, the one at the place `walk` of the list, so that SysTick may come between any
two: it posts an expired one and starts again at the head (`SearchPosts`), asks to be
polled again when the queue is full (`SearchFails`), and goes on past the others
(`SearchSkips`) to the end of the list (`SearchEnds`).

| Model | Code |
|---|---|
| `timer`, `owner`, `timerlist`, `next_expiration` | `et->timer`, `et->p`, the list, the cached minimum |
| `etimer_set`, `etimer_reset`, `etimer_restart`, `etimer_adjust`, `etimer_stop` | the functions of these names, with `add_timer` and `update_time` |
| `ProcessExit` | a process exits: `etimer_process` takes EXITED synchronously |
| `Tick` | `SysTick_Handler` |
| `Poll`, `SearchPosts`, `SearchFails`, `SearchSkips`, `SearchEnds` | `etimer_process`, its loop one timer per step |
| `Deliver`, `OtherPost` | `do_event`; `process_post` by other modules |

Two history variables record what the calls ask for, whatever the code makes of it:
`setter`, who is to get the timer's event (set by `etimer_set`, `reset` and `restart`,
cleared by `etimer_stop`, by the exit of that process and when the event is posted), and
`deadline`, when, not reduced modulo `ClockMod`. Ghosts: `adjusted`, timers adjusted
since the last tick; `stale`, whether the list changed without `update_time`.
Environment: no timer is left expired on the list for more than `MaxDelay` ticks (else
the unsigned difference of `timer_expired` wraps round; with 32-bit milliseconds that
takes 49 days); `etimer_reset` is called for a timer that has expired, as timer.c asks;
`etimer_adjust` does not move the start past the present (section 7).

Unlinking, the mail that `EventTimers` sees and `list_remove` of ctimers are all
`Kept`: a sequence without the elements outside a set, in its order.

`EventTimers` is the promise of `etimer.h`, with one action for each call
(`Set`, `Restart`, `Reset`, `Adjust`, `Stop`, `Exit`): a timer that is set posts one
event, to the process that set it last, not before its time, and none once it is
stopped, set again or its process gone. Its state is the two histories, not the list or
`et->p`: a timer that the code leaves off the list, leaves on it after a stop or an
exit, links twice or keeps for an earlier owner is a step `EventTimers` does not have.
That none is forgotten is in its `Tick`, which waits for every timer asked for, while
`Tick` of `Etimer` waits only for those on the list.

`Ctimer` extends it with `sys/ctimer.c`: each ctimer has the etimer of the same
name, owned by `ctimer_process`; `Callback` is the reception of its TIMER event,
`StartProcess` the start of `ctimer_process`, which arms what was set before
(`SetEarly`, `AddEarly`, `StopEarly`). `reused` marks ctimers set again while an
event of theirs is queued.

### 3.4 Mesh

`Mesh` models multi-hop unicast: `net/rime/mesh.c` over `multihop.c`, `route.c`,
`route-discovery.c`, `netflood.c` and `ipolite.c`, with one mesh connection on each
node of a fixed topology (`Link`). A call into mesh runs to its end in the main loop
and is one step, with every function it reaches; timers fire at any time; a frame is
lost or heard by each node in range separately, and frames overtake each other.

| Model | Code |
|---|---|
| `route` | `route_table`, the entry added last first |
| `queued` | `queued_data` and `queued_data_dest` of `struct mesh_conn` |
| `pending`, `timer`, `rreq_id`, `last_rreq` | `rrep_pending`, the ctimer, `rreq_id` and the last request, of route-discovery.c |
| `last_flood`; `flood` | last originator and number of netflood; the packet that waits in ipolite |
| `free`; `air` | the queuebuf pool; frames underway (the link, external) |
| `Send`, with `ForwardAlongRoute`, `QueuePacket`, `QueueAndDiscover` | `mesh_send`, `data_packet_forward`, `route_discovery_discover` |
| `RecvData`, `RecvDataForOther` | `data_packet_received` of multihop.c and mesh.c |
| `RecvOldRequest`, `RecvRequestForMe`, `RecvRequestForOther`, `RecvRequestNotForwarded` | `recv` of ipolite, `recv_from_ipolite`, `rreq_packet_received`: filtered; answered; kept to be flooded on; no buffer or too many hops |
| `FloodOn` | `send` of ipolite.c, from its ctimer |
| `RecvReplyForOther`, `RecvReplySends`, `RecvReplyOnly` | `rrep_packet_received`, `found_route` |
| `DiscoveryTimesOut` | `timeout_handler`, `route_timed_out` |
| `RoutePeriodic` | `periodic` of route.c, with its early end |
| `Close`, `Open` | `mesh_close`, `mesh_open` |

The data are abstract: a packet is its source, number and destination; costs are hop
counts. Left out: the sent callback's own sends (`Send` may follow at once), the hop
limit of a cost (a byte), the *hops* attribute, which multihop.c counts and mesh
never limits. On a line of three nodes no node hears a copy of the flood it keeps
(`HearsCopy`): that takes two neighbours that both flood the request on, hence a fourth
node to look for. With four nodes one packet already gives TLC more than 6 million
states, too many for a run of minutes, so this path is covered by the proofs alone,
which hold for every topology (`BuffersAreAccounted` for the buffer it frees).

### 3.5 Sx1276

`Sx1276` models `radio/sx1276/sx1276.c` with its LoRa modem, and the chip. A call of
the driver is a sequence of steps, each up to its next write to the chip or to
`Settings.State`; between any two the chip may end what it does and raise DIO0, and
`SX1276OnDio0Irq` runs.

| Model | Code |
|---|---|
| `state`, `modem`, `continuous` | `SX1276.Settings.State`, `.Modem`, `.LoRa.RxContinuous` |
| `cached` | `opModePrev` of `SX1276SetOpMode` |
| `chip`, `long_range`, `dio0`, `flags`, `irq`, `at_base`, `fifo` | the chip (external): mode, LongRangeMode bit, the flag its line shows, flags that are set, whether the line has risen, FIFO pointer and contents |
| `SX1276Init` | `SX1276Init`, `SX1276ResetInit` |
| `Configure` | `SX1276SetRxConfig`, `SX1276SetTxConfig`, as far as they change the modem |
| `SX1276Send`, `SX1276WriteFifo`, `SX1276SetTx`, `SetTxState`, `SetTxMode` | `SX1276Send` and the `SX1276SetTx` it ends with |
| `SX1276SetRx`, `SetRxState`, `SetRxMode` | `SX1276SetRx` |
| `SX1276StartCad`, `SetCadState`, `SetCadMode` | `SX1276StartCad` |
| `Stop`, `StopState` | `SX1276SetSleep`, `SX1276SetStby` |
| `SX1276IsChannelFree`, `SX1276Random`, `SenseEnds` | the functions of these names |
| `TxFinishes`, `CadFinishes`, `FrameReceived` | the chip |
| `OnRxDone`, `OnTxDone`, `OnCadDone`, `OnNothing` | the cases of `SX1276OnDio0Irq` |

The mask of the interrupt flags and the mapping of DIO0 are two writes in a row and
one step: between them the chip can only raise the flag that was mapped before and
still is, or one that is masked already. A reset puts the chip in standby. The chip
takes LongRangeMode in sleep mode only. Left out: packets of the FSK modem, the
frequency-hopping, time-out and preamble lines DIO1, DIO2 and DIO4, register values,
and `SX1276OnTimeoutIrq`: no timer is started, so nothing calls it. The
application's callbacks do not call the driver; `LoRa_init` passes none.

Ghosts name the exceptions the properties make: `skipped` (a mode not written
because it was cached), `slept` (the last reset found sleep cached, so the modem may not have been taken), `on_air` (a Send
during a reception or a transmission, which Send does not stop).

## 4 Runs

Every constant a run bounds is named in its module. The runs of `Runicast`,
`Process`, `Etimer` and `Ctimer` check for deadlock. Those of `Mesh` and `Sx1276` do
not: there the calls are bounded, and when they are used up a node, or the radio, is
rightly silent.

| Run | Checks | Bounds | Result |
|---|---|---|---|
| `runicast_verdicts` | `TypeOK`, `AckedWasDelivered`, `OneVerdict`, `TransmissionsBounded`, `WireConsistent`, `OwnAckAccepted`, `ImplementsReliableUnicast` | 2 nodes, 5 packets, one queue buffer, 2 frames in the air, 0 or 2 transmissions, one reopening | passes, 1.8 M states |
| `runicast_buffers` | `BuffersAccounted`, `EveryPacketEnds` | both nodes send (2 + 1), also from the timedout callback; one buffer, one reopening each | passes, 288 k states |
| `runicast_timedout_send` | `OwnAckAccepted` when an application sends from its timedout callback | as above | violated, section 7 |
| `process_kernel` | `TypeOK`, `ListEnds`, `RunningIsListed`, `NoReentry`, `CurrentIsExecuting`, `PollIsPending`, `BroadcastReachesAll`, `BroadcastOnce`, `EventsAreFifo`, `PollIsServed`, `EventIsTaken` | 3 processes, 3 calls, a poll from an interrupt, a ring of 2 | passes, 593 k states |
| `process_exit_called` | `RunningIsListed` when a process exits itself | 2 processes, 2 calls | violated, section 7 |
| `etimer_safety` | `TypeOK`, `ExpiredIsNoticed`, `NextIsNearest`, `ImplementsEventTimers` | 2 timers, 2 processes, a clock of 6 that runs to 7, intervals 0 and 2, a queue of 1, 3 calls | passes, 1.3 M states (with symmetry) |
| `ctimer_callbacks` | `CTypeOK`, `ListedIsArmed`, `CallbackNotEarly`, `CallbackHappens` | 2 ctimers, the same clock and queue, 3 calls | passes, 227 k states |
| `ctimer_set_again` | `CallbackOnlyWhenExpired` without the exception for a ctimer set again | the same, a queue of 2 | violated, section 7 |
| `mesh_routes` | `TypeOK`, `BuffersAccounted`, `PacketIsUnique`, `RouteCostsAreReal`, `QueuedIsPursued`, `PacketLeavesQueue` | a line of 3; two send one packet each to the third; one queue buffer, 2 frames in the air, 2 routes that live a second, numbers modulo 4; the middle node reopens once | passes, 775 k states |
| `mesh_two_destinations` | `PacketLeavesQueue` when a node sends to two destinations | the same line, one sender with 2 packets | violated, section 7 |
| `radio_driver` | `TypeOK`, `StateIsTrue`, `ModemIsTrue`, `LineIsFree`, `AirIsPayload`, `TransmissionEnds` | 12 calls, continuous or single reception | passes, 135 k states |
| `radio_second_send` | `SendTransmits` | 5 calls | violated, section 7 |

Why the bounds are enough. *Runicast*: the identifier has 4 values, so 5 packets
use one again while frames of its first use are underway; a retransmission and an
acknowledgement cross with 2 frames in the air; a pool of one buffer makes
every use of it compete. With `MaxRxmits` 0 and 2 a packet times out at once, or
after a retransmission. *Process*: three processes are a head, a middle and an
end of the list; three calls let a thread called from a loop over the list start or
exit two others, and a broadcast, an exit and a start interleave (four calls, 3.6
million states, show nothing else). A ring of 2 wraps. *Timers*: the clock wraps
while timers are pending; the two timers are nearest and next, on either side of the
wrap; one queue place and another user of it make posts fail. *Mesh*: a line of
three has a node that forwards and one that can only be reached through it; the
middle node's own request, packet and flood compete with those it forwards for one
buffer; with 2 frames in the air requests and replies of two discoveries mix, and a
route that lives one second can expire between any two steps. *Radio*: the driver
and the chip have few states, twelve calls lead through long mixed sequences of them,
and the proofs hold for any number.

Fairness. `Runicast`: weak fairness of `TimerFires`, as `ctimer_process` serves
expired ctimers (that it does is `CallbackHappens`). No fairness of the link:
`EveryPacketEnds` holds if every frame is lost. `Process`: weak fairness of the
main loop and of the return of a thread (a protothread that never yields
blocks the system; the code relies on it). Bounded calls make the promise
one about what is pending. `Ctimer`: `process_run` polls, then takes one event,
for ever. So `Search` is weakly fair and taking an event strongly fair: it is
disabled only while a search is under way. No fairness of `Tick`, of calls or of
other posts. `Mesh`: weak fairness of `DiscoveryTimesOut`, again a ctimer; none of
the radio, nor of nodes further on. `Sx1276`: a call that has begun goes on, a
transmission ends (the chip's own time on air) and a line that has risen interrupts;
no fairness of receptions or calls.

## 5 Proofs

TLAPS proves these for every set of nodes, processes and timers, every topology, pool
size, transmission limit, ring and queue size, clock and number of calls the assumptions
allow. Each invariant was checked by TLC on the instances of section 4 before it was
proved. A theorem has one lemma for each kind of step, and under it one step for each
conjunct the step can disturb.

`Runicast` (`RunicastProofs`):

| Theorem | Statement | Argument |
|---|---|---|
| `TypeCorrect` | `Spec => []TypeOK` | `TypeOK` is inductive only with `BuffersAccounted`: the free count stays within the pool because what is freed was held, and `rxmit` stays a byte because it is counted up only below `max_rxmit` |
| `BuffersAreAccounted` | `Spec => []BuffersAccounted` | `BufferInv == TypeOK /\ BuffersAccounted`; `TimerWithoutBuffer` needs that an idle connection may keep a timer but never a buffer |
| `WireIsConsistent` | under `SafeLag`: `Spec => []WireConsistent` | `sndnxt` is the number of packets since the last open, modulo 4, less one while sending; every frame carries the identifier of its packet |
| `SentIsDelivered` | under `SafeLag`: `Spec => []AckedWasDelivered` | with the former (`WireInv`): an acknowledgement at most 2 packets late that matches `sndnxt` is for the packet being transmitted, never for an older one or for none, so its buffer names a delivered packet |
| `OwnAckIsAccepted` | under `SafeLag`: `Spec => OwnAckAccepted` | from `WireInv`: while a packet is transmitted its identifier is `sndnxt`, so `RecvBadAck` is not enabled for its acknowledgement |
| `TransmissionsAreBounded` | without sends from the timedout callback: `Spec => []TransmissionsBounded` | `CountInv`: while a packet is transmitted `rxmit` counts its transmissions and stays below `max_rxmit` |
| `VerdictIsUnique` | under `SafeLag`: `Spec => []OneVerdict` | `VerdictInv`: verdicts are for packets already handed over, none for the one being transmitted |
| `RunicastImplementsReliableUnicast` | under `SafeLag`: `Spec => ImplementsReliableUnicast` | `RefinementInv` adds that no node sends to itself; every step submits, delivers, tells *sent*, tells *timedout*, closes, opens or stutters in `ReliableUnicast`; only `Close` ends a packet without a verdict |

`SafeLag` is `AckLag < IdSpace` and no send from the timedout callback. Both are needed:
the runs `runicast_timedout_send` and the seeded fault `OneBitIdSpace` show what
happens otherwise.

`Process` (`ProcessProofs`, `ProcessKernelProofs`):

| Theorem | Statement | Argument |
|---|---|---|
| `RingIsFifo` | `Spec => EventsAreFifo` | `RingInv` (positions in range, events typed): the contents read from `fevent` on are a sequence; `process_post` appends, `do_event` takes the head, nothing else touches the ring; the sum stays below 256 as the size is at most 128 |
| `TypeCorrect` | `Spec => []TypeOK` | `BasicInv`: types, `RingInv`, `ListEnds`, `CurrentIsExecuting` and `WellNested` (each function on the stack was called by the one below it), which says where a return goes |
| `ListStaysAList` | `Spec => []ListEnds` | a process is linked in at the head only while it is off the list, and unlinking skips one process: what can be reached from any place of the list is a suffix of it. Processes that have left keep their `next`, so every place from which a suspended loop goes on leads to the end too |
| `CurrentIsTheThread` | `Spec => []CurrentIsExecuting` | each function keeps the process to be restored, and `WellNested` says whose it is |
| `RunningTellsTheTruth`, `ThreadsAreNotReentered` | under `~ExitCalled`: `Spec => []RunningIsListed`, `Spec => []NoReentry` | `Owned`: a process has at most one call or exit on the stack, which marks its state; any other is RUNNING on the list or NONE off it |
| `PollsAreNotLost` | under `~ExitCalled`: `Spec => []PollIsPending` | `KernelInv` with `SearchOnList` and `WaitersRun`: a poll that is wanted has its flag set and a request, or a search that still has the process ahead |
| `BroadcastsReachAll` | under `~ExitCalled`: `Spec => []BroadcastReachesAll` | `DueAhead`: whoever is still to get the event is ahead of the loop, as processes are added at the head and removed from `due` when they leave |
| `BroadcastsAreHeardOnce` | under `~ExitCalled`: `Spec => BroadcastOnce` | `OnceInv` adds `HeardBehind`: who has had the event is not ahead of the loop, unless a poll handler started a process |

`~ExitCalled` (no process is exited while its thread is on the stack) is needed: the run
`process_exit_called` violates `RunningIsListed` without it. The first four theorems
hold either way.

Timers (`EtimerProofs`, `CtimerProofs`):

| Theorem | Statement | Argument |
|---|---|---|
| `EtimerProofs!TypeCorrect`, `ExpiredIsSeen`, `SleepEndsInTime` | `Spec => []TypeOK`, `[]ExpiredIsNoticed`, `[]NextIsNearest` | `EtimerInv`: `TimesInv` says that `start` and `interval` are the deadline modulo `ClockMod` and that no time on the list is further than the clock can tell; then `timer_expired` answers `deadline <= now`, and `update_time` finds the nearest (`NextInv`) on either side of the wrap |
| `EtimerImplementsEventTimers` | `Spec => ImplementsEventTimers` | the abstract state is the history the calls write, so the proof needs `SetterInv`: a timer is on the list exactly when somebody waits for it, and `et->p` is then who. Each call maps to the action of its name, a post of the search to `Expire`, a delivery to `Take`; the rest of the search, starts of processes and other posts stutter |
| `CtimerTypeCorrect`, `ListedCtimersAreArmed` | `CSpec => []CTypeOK`, `CSpec => []ListedIsArmed` | `CtimerInv` is `EtimerInv` for a system of one process, with `EarlyInv`: before `ctimer_process` starts nothing is timed or queued |
| `CallbacksAreNotEarly` | `CSpec => CallbackNotEarly` | `QueuedIsDue`: an event in the queue is of an expired ctimer, but for those set again since |

`Mesh` (`MeshProofs`), for every topology:

| Theorem | Statement | Argument |
|---|---|---|
| `BuffersAreAccounted` | `Spec => []BuffersAccounted` | `BufferInv` adds what frames and queues carry (a buffer that is held points to a packet or a request, never to nothing) and that the free count is a natural number; `ForwardStep` has the three outcomes of `data_packet_forward` |
| `PacketIsPursued` | under `OneDestination`: `Spec => []QueuedIsPursued` | `PursuitInv`: on a connection that was never closed, `rrep_pending` means that the timer runs; with one destination, any reply for the node is for the packet it has queued. With two it fails (`mesh_two_destinations`) |
| `RoutesAreReal` | `Spec => []RouteCostsAreReal` | `RouteInv`: not only the tables are real, but also what feeds them: a request in the air or waiting in ipolite has come as many links from its originator as its hops say, a reply from the node that was looked for. `route_lookup` is defined as a minimum, which `LookupFinds` shows to exist; `route_add`, `route_refresh` and `periodic` keep any kind of entry that does not depend on its age (`Ageless`) |
| `TypeCorrect` | `Spec => []TypeOK` | from `BufferInv` and `RouteInv`: that next hops are nodes, and the tables within `NUM_RT_ENTRIES`, is part of `RouteInv`; the pool's bound follows from the buffer count |
| `PacketsAreUnique` | `Spec => []PacketIsUnique` | `OnceInv`: no two frames, no two queues, nor a frame and a queue hold the same packet, none of them is delivered, and all have numbers already handed out, so that a new packet is nowhere yet; then the three counts of `Copies` are 0 or 1 |

`Sx1276` (`Sx1276Proofs`):

| Theorem | Statement | Argument |
|---|---|---|
| `TypeCorrect` | `Spec => []TypeOK` | one step for each action |
| `StateTrue`, `LineFree` | `Spec => []StateIsTrue`, `Spec => []LineIsFree` | `PlaceInv` says for each place in a call what of mode, line and state already agrees; `HandlerInv` that a handler finds the state that goes with the flag; `FlagInv` that a set flag waits for its handler; `CacheInv` how the cached mode can differ from the chip's |
| `ModemTrue` | `Spec => []ModemIsTrue` | `ModemInv`: until the driver has the LoRa modem it only sleeps or stands by |
| `PayloadTrue` | `Spec => []AirIsPayload` | `PayloadInv`: from Send to the start of the transmission no reception can touch pointer or FIFO if none was under way |

Induction over data. The library's induction theorems take an operator, which the
provers cannot instantiate. `LeastNumber` proves instead that a set of naturals that is
not empty has a least element (from the well-foundedness of `<`), and that a set with 0
and the successors of its members below N has every number up to N (`UpTo`,
`ReachesEnd`). That is enough for what the proofs need of recursive functions and
sequences: that `Walk` and `Kept` (the elements of a sequence that are in a set: a
list or a queue without some of its elements) satisfy their equations and what `Kept` keeps,
that a list of processes ends, that a nonempty table has a cheapest entry.

The assumptions are those named in the modules (`RunicastAssumption`,
`ProcessAssumption`, `EtimerAssumption`, `CtimerAssumption`, `MeshAssumption`,
`NullAssumption`, `Sx1276Assumption`), which TLC evaluates in every run. The one to
argue about is in `EtimerAssumption`: an interval (0 in a fresh etimer) plus the delay
with which expired timers are served stays below the clock's range, as an unsigned
difference tells no more. Model-checked only, as liveness is out of the prover's reach:
`EveryPacketEnds`, `PollIsServed`, `EventIsTaken`, `CallbackHappens`,
`PacketLeavesQueue` and `TransmissionEnds`; so are the five violations of section 7.

## 6 Seeded faults

An operator marked `\* fault` is the definition after it with a plausible slip. No
specification uses it. Put in the place of the definition, it makes TLC report the
property: the properties can tell this code from its broken variants.

| Module | In place of | Put | Slip | Property that fails |
|---|---|---|---|---|
| `Runicast` | `NextId` | `NextIdUnwrapped` | no modulo | `TypeOK` |
| | `IdSpace` | `OneBitIdSpace` | a 1-bit identifier | `AckedWasDelivered` |
| | `Acknowledge` | `AcknowledgeWithoutCancel` | `stunicast_cancel` forgotten | `OneVerdict` |
| | `AfterTimedout` | `AfterTimedoutSameId` | identifier used again | `WireConsistent`, `ImplementsReliableUnicast` |
| | `LastTransmission` | `LastTransmissionLate` | off by one | `TransmissionsBounded` |
| | `Accept` | `AcceptNextId` | `sndnxt` advanced too early | `OwnAckAccepted` |
| | `stunicast_cancel` | `CancelKeepsPointer` | `buf` not set to NULL | `BuffersAccounted` |
| | `Retransmit` | `RetransmitOnce` | timer not armed again | `EveryPacketEnds` |
| `Process` | `NextSlot` | `NextSlotUnwrapped` | no modulo | `TypeOK` |
| | `Startable` | `NotRunning` | state asked instead of the list | `ListEnds`, `BroadcastOnce` |
| | `Unlink` | `UnlinkFirst` | only the head unlinked | `RunningIsListed` |
| | `Callable` | `CallAnyState` | `CALLED` not excluded | `NoReentry` |
| | `Restored` | `NothingRestored` | caller not restored | `CurrentIsExecuting` |
| | `AfterSearch` | `WithdrawnAfterSearch` | request cleared after the search | `PollIsPending`, `PollIsServed` |
| | `Picked` | `PickedUnlessPolled` | polls instead of delivering | `BroadcastReachesAll` |
| | `Slot` | `SlotOfLast` | off by one | `EventsAreFifo` |
| | `EventWaiting` | `TwoWaiting` | off by one | `EventIsTaken` |
| `Etimer` | `Added` | `AddedTwice` | a listed timer linked again | `TypeOK` |
| | `Added` | `AddedIfOwned` | the list not searched, `et->p` trusted | `ImplementsEventTimers` |
| | `Noticed` | `NoticedOnce` | asks for exactly one timer | `ExpiredIsNoticed` |
| | `Nearest` | `NearestFirst` | looks at the head only | `NextIsNearest` |
| | `timer_expired` | `ExpiredEarly` | off by one | `CallbackNotEarly`, `ImplementsEventTimers` |
| | `Retry` | `NoRetry` | no new poll when the queue is full | `CallbackHappens` |
| `Ctimer` | `list_add` | `AddedAgain` | not taken off the list first | `CTypeOK` |
| | `list_remove` | `NotRemoved` | ctimer stays on the list | `ListedIsArmed` |
| `Mesh` | `route_add` | `AddedToFull` | the oldest entry not removed | `TypeOK` |
| | `Available` | `LeakedAvailable` | the replaced packet's buffer not freed | `BuffersAccounted` |
| | `Dequeued` | `NotCleared` | `queued_data` not set to NULL | `PacketIsUnique` |
| | `Further` | `SameHops` | hops not counted | `RouteCostsAreReal` |
| | `Armed` | `NeverArmed` | timer not started | `QueuedIsPursued` |
| | `NotPending` | `StillPending` | `rrep_pending` not cleared | `PacketLeavesQueue` |
| `Sx1276` | `StoppedState` | `StandbyState` | a mode stored as the state | `TypeOK` |
| | `AfterTxDone` | `StillRunning` | state not reset by TxDone | `StateIsTrue` |
| | `SleepForModem` | `NoSleepForModem` | modem changed in any mode | `ModemIsTrue` |
| | `Clear` | `NotCleared` | interrupt flag not written | `LineIsFree` |
| | `PointerToBase` | `PointerLeft` | FIFO pointer not reset | `AirIsPayload` |
| | `LineForTx` | `LineForRx` | DIO0 not mapped to TxDone | `TransmissionEnds` |

`CloseWithoutCancel` (for `runicast_close`) breaks `BuffersAccounted` too. `NoWrap` (for
`Wrap`) breaks `TypeOK` of `Etimer`, `StillLinked` (for `Unlinked`) as well. `OfAll` (for
`OfOthers`) and `FirstOwner` (for `Owned`) break `ImplementsEventTimers`: an exit that
leaves its timers listed, and a timer set by a second process that goes to the first.

## 7 Divergences between code and documents

Five have a run that shows them:

- **A packet sent from the timedout callback cannot be acknowledged**
  (`runicast_timedout_send`). `sent_by_stunicast` calls `timedout` before it resets
  `rxmit` and advances `sndnxt` (`net/rime/runicast.c:96-102`), although `is_tx` is 0
  by then and `runicast_send` accepts a packet. That packet carries an identifier
  which `sndnxt` leaves behind; its acknowledgements are dropped as bad ones.
- **A process that exits itself can be running again** (`process_exit_called`).
  `process.h:384-386` allows `process_exit` on the executing process.
  `exit_process` takes it off the list, but when its thread waits for its next event
  `call_process` marks it running (`sys/process.c:196`): events still reach it,
  polls, broadcasts and a second `process_exit` do not.
- **A ctimer set again while its event is queued calls back at once**
  (`ctimer_set_again`). `ctimer_process` matches a TIMER event by address only
  (`sys/ctimer.c:76`). The old event calls the new callback and unlists the ctimer;
  when the new time comes nothing is called.
- **A packet can stay queued for a route for good** (`mesh_two_destinations`). A
  second packet without a route takes the place of the queued one, and its destination
  with it (`net/rime/mesh.c:96-102`), but `route_discovery_discover` refuses a request
  while the one for the first packet is pending. When the reply to that comes,
  `rrep_packet_received` stops the timer and `found_route` leaves the packet where it
  is (`mesh.c:122`): neither callback of `mesh.h:76-78` will come.
- **The second transmission in a row does not start** (`radio_second_send`).
  `SX1276SetOpMode` does not write a mode equal to `opModePrev`
  (`radio/sx1276/sx1276.c:1284`), and nothing tells it that the chip has left TX after
  TxDone. `SX1276Send` then sets `RF_TX_RUNNING` and transmits nothing, and no TxDone
  ends that, though `radio.h:250-251` says it "sets the radio in transmission".
  `LoRa_send` (`radio/LoRa_Dev.c:264-267`) calls nothing else.

Others met while modelling have no run of their own. Most are excluded by a guard or
named as an exception of a property:

- `etimer_adjust` by more than the time since the timer started puts `start` in the
  future. `clock_time() - start` then wraps (`sys/timer.c:126`) and the timer expires
  at once, though `etimer.h:139-142` says its expiry is adjusted. `etimer_adjust`
  in `Etimer` has a guard against it.
- `etimer_process` unlinks the timers of an exited process without `update_time`
  (`sys/etimer.c:94-106`): `etimer_next_expiration_time` can name a timer that is
  gone until the next refresh. `NextIsNearest` excepts those states (`stale`).
- An etimer set where `PROCESS_CURRENT()` is NULL has `p == PROCESS_NONE`, by which
  `add_timer` (`sys/etimer.c:157`) takes it for unlisted: set again, it is
  linked twice. All callers in this build are processes.
- A process started from a poll handler during a broadcast can get the
  event twice (it goes to the head of the list; one exited and started again is
  reached a second time). `BroadcastOnce` excepts broadcasts with such a start.
- `USER/usermain.c` never calls `ctimer_init`, so `initialized` stays 0 in that image
  and no ctimer, hence no Rime retransmission, would fire. `Ctimer` models a system
  that starts it.
- `mesh_send` returns 0 when the packet was queued (`net/rime/mesh.c:194`), though
  `mesh.h:125` says "Non-zero if the packet could be queued for sending". A queued
  packet that another replaces is dropped without a callback (`mesh.c:96-98`), and
  both callbacks come on intermediate nodes too, for packets they only forward.
- `mesh_close` stops the timer of route discovery but leaves `rrep_pending` set and the
  packet queued: after `mesh_open` every discovery is refused
  (`route-discovery.c:285-289, 307`). `QueuedIsPursued` and `PacketLeavesQueue` except
  connections that were closed.
- `netflood.h:50-60` says a packet with the originator and number of the last one is
  not forwarded; `netflood.c:91` drops every number up to the last one, so after the
  number wraps requests are lost until it catches up.
- `route_add` avoids duplicates (`route.c:126`) only of the best route to a
  destination; `periodic` ends at the first entry it removes; and as routes carry no
  sequence number, two nodes can route to each other when discoveries of different
  times mix (not on a line of three).
- With single reception, `SX1276SetRx` still starts a continuous one
  (`sx1276.c:1129-1139`), and the handler stores `RF_IDLE` after the first frame: the
  next finds no case, its flag stays set, the line cannot rise again and the driver is
  deaf (`OnNothing`). `StateIsTrue` and `LineIsFree` except it.
- After `SX1276SetSleep` a second `SX1276Init` resets the chip but finds sleep cached:
  the chip stays in standby and the LoRa modem is not taken (`slept`).
- `SX1276Send` does not stop a reception or a transmission: a frame that comes in while
  it writes the FIFO can spoil the payload or move the pointer, and a payload on the
  air is overwritten. `AirIsPayload` excepts those calls (`on_air`).
- After a channel activity detection `Settings.State` stays `RF_CAD`, a state the
  comment at `radio.h:109` does not list, and a second `SX1276StartCad` in a row is not
  started; no callback reports the result.

## 8 Not modelled

Not yet, in the order of section 2: `csma` and `nullrdc`, `polite` and `trickle`,
`rtimer`, bulk transfer and collection, the buffer pools as modules of their own (the
queuebuf pool is part of `Runicast` and of `Mesh`). `PROJECT.json` lists every part.

Not at all: framers, packet formats and `chameleon` headers (pure encoding; models
carry fields as records); the LED, ADC, USART, flash and sensor drivers and board
start-up (register writes, no state of their own that others rely on);
`HAL/src/timerserver.c`, `USER/main.c`, `USER/user-app.c` and `TEST` (excluded from
the Keil project); `Lib/LoRawan-node` (a second stack, not in the project); CMSIS,
`stm32L0xx_HAL` and the rest of Contiki (platforms, apps, IPv6, RPL, tools), which is
vendored and not linked.

Abstracted in what is modelled: packet contents (a number), link-layer addresses (the
node), events' types and data, wording of debug output, statistics and Energest
counters. The time a main-loop step takes is not modelled except where the clock may
tick between two steps.
