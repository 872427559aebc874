------------------------------ MODULE Runicast ------------------------------
(***************************************************************************)
(* Single-hop reliable unicast: net/rime/runicast.c over net/rime/         *)
(* stunicast.c, on every node of a single-hop network.  The callbacks that *)
(* nullmac/nullrdc make run inside unicast_send, so one call into runicast  *)
(* (a send, a timer expiry, a received packet) is one atomic step together  *)
(* with the sent / timedout callbacks it provokes.                          *)
(*                                                                          *)
(* A packet accepted by runicast_send gets a ghost number, counted per      *)
(* sender in sends.  Only the 2-bit identifier derived from sndnxt is       *)
(* visible to the code.                                                     *)
(***************************************************************************)
EXTENDS Integers, FiniteSets

CONSTANTS
  Node,           \* the nodes, each with one open runicast connection
  MaxRxmits,      \* values applications pass as max_retransmissions (uint8_t)
  QueuebufNum,    \* QUEUEBUF_NUM, the node's pool of queue buffers
  MaxInFlight,    \* bound: frames in the air at one time
  MaxPackets,     \* bound: packets a node's application hands over
  MaxReopens,     \* bound: times a connection is closed and opened again
  AckLag,         \* environment: a frame overtaken by AckLag newer packets of
                  \* its sender is no longer received
  TimedoutSends   \* whether an application sends from its timedout callback

NoBuf == [id |-> -1, pkt |-> 0, to |-> 0]     \* c->buf == NULL

ASSUME RunicastAssumption ==
  /\ MaxRxmits \subseteq 0..255
  /\ QueuebufNum \in Nat
  /\ MaxInFlight \in Nat
  /\ MaxPackets \in [Node -> Nat]
  /\ MaxReopens \in Nat
  /\ AckLag \in Nat
  /\ TimedoutSends \in BOOLEAN

\* Seeded faults.  An operator whose comment says "fault" is never used: it is
\* the operator after it with a plausible slip, and README.md lists which
\* property fails when it is put in that operator's place.

OneBitIdSpace == 2         \* fault: RUNICAST_PACKET_ID_BITS is 1
IdSpace == 4               \* 1 << RUNICAST_PACKET_ID_BITS
NextIdUnwrapped(i) == i + 1             \* fault: the modulo is missing
NextId(i) == (i + 1) % IdSpace

VARIABLES
  conn,     \* the runicast_conn of each node, with its stunicast_conn
  free,     \* free queue buffers of each node
  other,    \* queue buffers held by the other modules of each node
  air,      \* frames in the air
  sends,    \* ghost: packets accepted by runicast_send
  opened,   \* ghost: value of sends at the last runicast_open
  reopens,  \* ghost: runicast_open calls so far, to bound them
  tx,       \* ghost: transmissions of the packet numbered sends
  got,      \* ghost: <<sender, packet, receiver>> passed to a recv callback
  acked,    \* ghost: <<packet, receiver>> reported by the sent callback
  expired   \* ghost: <<packet, receiver>> reported by the timedout callback

ghosts == <<sends, opened, reopens, tx, got, acked, expired>>
vars == <<conn, free, other, air, ghosts>>

Ids == 0 .. IdSpace - 1
Byte == 0 .. 255
Buffer == [id : Ids, pkt : Nat, to : Node]
Pointer == Buffer \cup {NoBuf}
Conn == [open : BOOLEAN, sndnxt : Ids, is_tx : BOOLEAN, rxmit : Byte,
         max_rxmit : Byte, buf : Pointer, timer : BOOLEAN]

\* A frame belongs to the packet pkt that src sends to dst: its data travels
\* from src to dst and its acknowledgement from dst to src.
Frame == [type : {"data", "ack"}, src : Node, dst : Node, id : Ids, pkt : Nat]

TypeOK ==
  /\ conn \in [Node -> Conn]
  /\ free \in [Node -> 0..QueuebufNum]
  /\ other \in [Node -> 0..QueuebufNum]
  /\ air \subseteq Frame
  /\ sends \in [Node -> Nat]
  /\ opened \in [Node -> Nat]
  /\ reopens \in [Node -> Nat]
  /\ tx \in [Node -> Nat]
  /\ got \subseteq Node \X Nat \X Node
  /\ acked \in [Node -> SUBSET (Nat \X (Node \cup {NoBuf.to}))]
  /\ expired \in [Node -> SUBSET (Nat \X (Node \cup {NoBuf.to}))]

Init ==
  /\ conn = [n \in Node |->
               [open |-> TRUE, sndnxt |-> 0, is_tx |-> FALSE, rxmit |-> 0,
                max_rxmit |-> 0, buf |-> NoBuf, timer |-> FALSE]]
  /\ free = [n \in Node |-> QueuebufNum]
  /\ other = [n \in Node |-> 0]
  /\ air = {}
  /\ sends = [n \in Node |-> 0]
  /\ opened = [n \in Node |-> 0]
  /\ reopens = [n \in Node |-> 0]
  /\ tx = [n \in Node |-> 0]
  /\ got = {}
  /\ acked = [n \in Node |-> {}]
  /\ expired = [n \in Node |-> {}]

-----------------------------------------------------------------------------
(* Operators on one connection c, named for the calls they stand for.       *)

Held(c) == IF c.buf = NoBuf THEN 0 ELSE 1

CancelKeepsPointer(c) == [c EXCEPT !.timer = FALSE]  \* fault: buf not NULLed
stunicast_cancel(c) == [c EXCEPT !.timer = FALSE, !.buf = NoBuf]

\* runicast_send up to unicast_send, once a queue buffer has been allocated
\* (stunicast_send_stubborn): k is the ghost number the packet gets.
AcceptNextId(c, k, r, mx) ==            \* fault: sndnxt advanced too early
  [open |-> c.open, sndnxt |-> c.sndnxt, is_tx |-> TRUE, rxmit |-> 0,
   max_rxmit |-> mx, buf |-> [id |-> NextId(c.sndnxt), pkt |-> k, to |-> r],
   timer |-> TRUE]
Accept(c, k, r, mx) ==
  [open |-> c.open, sndnxt |-> c.sndnxt, is_tx |-> TRUE, rxmit |-> 0,
   max_rxmit |-> mx, buf |-> [id |-> c.sndnxt, pkt |-> k, to |-> r],
   timer |-> TRUE]

\* runicast_send when no queue buffer is left: the old one has been freed, and
\* is_tx, FALSE on entry, has been set and reset.
NoBuffer(c, mx) == [c EXCEPT !.max_rxmit = mx, !.rxmit = 0, !.buf = NoBuf]

\* sent_by_stunicast: whether the transmission it counts is the last one.
LastTransmissionLate(c) == c.rxmit >= c.max_rxmit    \* fault: off by one
LastTransmission(c) == c.rxmit + 1 >= c.max_rxmit

\* sent_by_stunicast, more transmissions to come.
CountTransmission(c) == [c EXCEPT !.rxmit = @ + 1]

\* sent_by_stunicast before and after the timedout callback (rxmit is counted
\* up before, passed to the callback and reset after it).
GiveUp(c) == [stunicast_cancel(c) EXCEPT !.is_tx = FALSE]
AfterTimedoutSameId(c) == [c EXCEPT !.rxmit = 0]     \* fault: id used again
AfterTimedout(c) == [c EXCEPT !.rxmit = 0, !.sndnxt = NextId(@)]

\* recv_from_stunicast on an ACK with the expected identifier.
AcknowledgeWithoutCancel(c) ==          \* fault: stunicast_cancel forgotten
  [c EXCEPT !.sndnxt = NextId(@), !.is_tx = FALSE]
Acknowledge(c) ==
  [stunicast_cancel(c) EXCEPT !.sndnxt = NextId(@), !.is_tx = FALSE]

CloseWithoutCancel(c) == [c EXCEPT !.open = FALSE]   \* fault: no cancel
runicast_close(c) == [stunicast_cancel(c) EXCEPT !.open = FALSE]

runicast_open(c) ==
  [open |-> TRUE, sndnxt |-> 0, is_tx |-> FALSE, rxmit |-> 0,
   max_rxmit |-> c.max_rxmit, buf |-> c.buf, timer |-> c.timer]

DataFrame(n, c) ==
  [type |-> "data", src |-> n, dst |-> c.buf.to, id |-> c.buf.id,
   pkt |-> c.buf.pkt]

\* unicast_send, as far as the radio carries it: the frames are in the air
\* unless the air is full.  LoseFrame loses them later.
Transmit(frames) ==
  air' = IF Cardinality(air \cup frames) <= MaxInFlight
           THEN air \cup frames ELSE air

-----------------------------------------------------------------------------
(* runicast_send, called by the application.                                *)

CanSend(n) == conn[n].open /\ ~conn[n].is_tx /\ sends[n] < MaxPackets[n]

SendNoBuffer(n, mx) ==
  /\ CanSend(n)
  /\ free[n] + Held(conn[n]) = 0
  /\ conn' = [conn EXCEPT ![n] = NoBuffer(@, mx)]
  /\ tx' = [tx EXCEPT ![n] = 0]
  /\ UNCHANGED <<free, other, air, sends, opened, reopens, got, acked, expired>>

Send(n, r, mx) ==
  LET c == Accept(conn[n], sends[n] + 1, r, mx) IN
  /\ CanSend(n)
  /\ free[n] + Held(conn[n]) > 0
  /\ ~LastTransmission(c)
  /\ conn' = [conn EXCEPT ![n] = CountTransmission(c)]
  /\ free' = [free EXCEPT ![n] = @ + Held(conn[n]) - 1]
  /\ sends' = [sends EXCEPT ![n] = @ + 1]
  /\ tx' = [tx EXCEPT ![n] = 1]
  /\ Transmit({DataFrame(n, c)})
  /\ UNCHANGED <<other, opened, reopens, got, acked, expired>>

\* With max_retransmissions at most 1 the packet times out inside the call.
SendLast(n, r, mx) ==
  LET c == Accept(conn[n], sends[n] + 1, r, mx) IN
  /\ CanSend(n)
  /\ free[n] + Held(conn[n]) > 0
  /\ LastTransmission(c)
  /\ conn' = [conn EXCEPT ![n] = AfterTimedout(GiveUp(c))]
  /\ free' = [free EXCEPT ![n] = @ + Held(conn[n])]
  /\ sends' = [sends EXCEPT ![n] = @ + 1]
  /\ tx' = [tx EXCEPT ![n] = 1]
  /\ expired' = [expired EXCEPT ![n] = @ \cup {<<c.buf.pkt, c.buf.to>>}]
  /\ Transmit({DataFrame(n, c)})
  /\ UNCHANGED <<other, opened, reopens, got, acked>>

-----------------------------------------------------------------------------
(* send(), the ctimer callback of stunicast.  It re-arms the timer whenever *)
(* it found a buffer, also when the transmission turned out to be the last. *)

TimerWithoutBuffer(n) ==
  /\ conn[n].timer
  /\ conn[n].buf = NoBuf
  /\ conn' = [conn EXCEPT ![n].timer = FALSE]
  /\ UNCHANGED <<free, other, air, ghosts>>

RetransmitOnce(n) ==                    \* fault: the timer is not armed again
  LET c == conn[n] IN
  /\ c.timer
  /\ c.buf # NoBuf
  /\ ~LastTransmission(c)
  /\ conn' = [conn EXCEPT ![n] = [CountTransmission(c) EXCEPT !.timer = FALSE]]
  /\ tx' = [tx EXCEPT ![n] = @ + 1]
  /\ Transmit({DataFrame(n, c)})
  /\ UNCHANGED <<free, other, sends, opened, reopens, got, acked, expired>>

Retransmit(n) ==
  LET c == conn[n] IN
  /\ c.timer
  /\ c.buf # NoBuf
  /\ ~LastTransmission(c)
  /\ conn' = [conn EXCEPT ![n] = [CountTransmission(c) EXCEPT !.timer = TRUE]]
  /\ tx' = [tx EXCEPT ![n] = @ + 1]
  /\ Transmit({DataFrame(n, c)})
  /\ UNCHANGED <<free, other, sends, opened, reopens, got, acked, expired>>

RetransmitLast(n) ==
  LET c == conn[n] IN
  /\ c.timer
  /\ c.buf # NoBuf
  /\ LastTransmission(c)
  /\ conn' = [conn EXCEPT
                ![n] = [AfterTimedout(GiveUp(c)) EXCEPT !.timer = TRUE]]
  /\ free' = [free EXCEPT ![n] = @ + 1]
  /\ tx' = [tx EXCEPT ![n] = @ + 1]
  /\ expired' = [expired EXCEPT ![n] = @ \cup {<<c.buf.pkt, c.buf.to>>}]
  /\ Transmit({DataFrame(n, c)})
  /\ UNCHANGED <<other, sends, opened, reopens, got, acked>>

\* The same, for an application whose timedout callback calls runicast_send
\* again: the new packet is sent before rxmit and sndnxt are updated.  (With
\* max_retransmissions below 2 the new call would time out at once and the
\* callback recurse.)
RetransmitLastAndSend(n, r, mx) ==
  LET c == conn[n]
      d == Accept(GiveUp(c), sends[n] + 1, r, mx) IN
  /\ TimedoutSends
  /\ c.timer
  /\ c.buf # NoBuf
  /\ LastTransmission(c)
  /\ sends[n] < MaxPackets[n]
  /\ ~LastTransmission(d)
  /\ conn' = [conn EXCEPT
                ![n] = [AfterTimedout(CountTransmission(d)) EXCEPT !.timer = TRUE]]
  /\ sends' = [sends EXCEPT ![n] = @ + 1]
  /\ tx' = [tx EXCEPT ![n] = 1]
  /\ expired' = [expired EXCEPT ![n] = @ \cup {<<c.buf.pkt, c.buf.to>>}]
  /\ Transmit({DataFrame(n, c), DataFrame(n, d)})
  /\ UNCHANGED <<free, other, opened, reopens, got, acked>>

\* The same inside runicast_send itself, for a packet that timed out at once.
SendLastAndSend(n, r, mx, r2, mx2) ==
  LET c == Accept(conn[n], sends[n] + 1, r, mx)
      d == Accept(GiveUp(c), sends[n] + 2, r2, mx2) IN
  /\ TimedoutSends
  /\ CanSend(n)
  /\ sends[n] + 1 < MaxPackets[n]
  /\ free[n] + Held(conn[n]) > 0
  /\ LastTransmission(c)
  /\ ~LastTransmission(d)
  /\ conn' = [conn EXCEPT ![n] = AfterTimedout(CountTransmission(d))]
  /\ free' = [free EXCEPT ![n] = @ + Held(conn[n]) - 1]
  /\ sends' = [sends EXCEPT ![n] = @ + 2]
  /\ tx' = [tx EXCEPT ![n] = 1]
  /\ expired' = [expired EXCEPT ![n] = @ \cup {<<c.buf.pkt, c.buf.to>>}]
  /\ Transmit({DataFrame(n, c), DataFrame(n, d)})
  /\ UNCHANGED <<other, opened, reopens, got, acked>>

TimerFires(n) ==
  \/ TimerWithoutBuffer(n)
  \/ Retransmit(n)
  \/ RetransmitLast(n)
  \/ \E r \in Node \ {n}, mx \in MaxRxmits : RetransmitLastAndSend(n, r, mx)

-----------------------------------------------------------------------------
(* recv_from_stunicast.  The link may deliver a frame more than once: the   *)
(* frame stays in the air (keep) or is consumed.                            *)

Fresh(m) == sends[m.src] - m.pkt < AckLag

\* DATA: acknowledged if a queue buffer can be had for the time of the call,
\* then passed to the application in any case.
RecvData(n, m, keep) ==
  LET rest == IF keep THEN air ELSE air \ {m}
      heard == rest \cup {[m EXCEPT !.type = "ack"]} IN
  /\ m.type = "data" /\ m.dst = n /\ conn[n].open /\ Fresh(m)
  /\ air' = IF free[n] > 0 /\ Cardinality(heard) <= MaxInFlight
              THEN heard ELSE rest
  /\ got' = got \cup {<<m.src, m.pkt, n>>}
  /\ UNCHANGED <<conn, free, other, sends, opened, reopens, tx, acked, expired>>

\* ACK with the expected identifier: neither is_tx nor the acknowledging node
\* is looked at.  The sent callback names the receiver of the last packet.
RecvAck(n, m, keep) ==
  LET c == conn[n] IN
  /\ m.type = "ack" /\ m.src = n /\ c.open /\ Fresh(m)
  /\ m.id = c.sndnxt
  /\ air' = IF keep THEN air ELSE air \ {m}
  /\ conn' = [conn EXCEPT ![n] = Acknowledge(c)]
  /\ free' = [free EXCEPT ![n] = @ + Held(c)]
  /\ acked' = [acked EXCEPT ![n] = @ \cup {<<c.buf.pkt, c.buf.to>>}]
  /\ UNCHANGED <<other, sends, opened, reopens, tx, got, expired>>

\* ACK with another identifier: counted as a bad ACK and dropped.
RecvBadAck(n, m) ==
  /\ m.type = "ack" /\ m.src = n /\ conn[n].open
  /\ m.id # conn[n].sndnxt
  /\ air' = air \ {m}
  /\ UNCHANGED <<conn, free, other, ghosts>>

\* The radio loses a frame, or nobody listens to it any more.
LoseFrame(m) ==
  /\ air' = air \ {m}
  /\ UNCHANGED <<conn, free, other, ghosts>>

-----------------------------------------------------------------------------
(* runicast_close, runicast_open, and the other users of the buffer pool.   *)

\* is_tx is left as it was.
Close(n) ==
  /\ conn[n].open
  /\ reopens[n] < MaxReopens
  /\ conn' = [conn EXCEPT ![n] = runicast_close(@)]
  /\ free' = [free EXCEPT ![n] = @ + Held(conn[n])]
  /\ UNCHANGED <<other, air, ghosts>>

\* Environment: the connection is opened again only when no frame of the
\* packets sent before is still around, as sndnxt starts again from 0.
Open(n) ==
  /\ ~conn[n].open
  /\ \A m \in air : m.src # n
  /\ conn' = [conn EXCEPT ![n] = runicast_open(@)]
  /\ opened' = [opened EXCEPT ![n] = sends[n]]
  /\ reopens' = [reopens EXCEPT ![n] = @ + 1]
  /\ UNCHANGED <<free, other, air, sends, tx, got, acked, expired>>

TakeQueuebuf(n) ==
  /\ free[n] > 0
  /\ free' = [free EXCEPT ![n] = @ - 1]
  /\ other' = [other EXCEPT ![n] = @ + 1]
  /\ UNCHANGED <<conn, air, ghosts>>

ReturnQueuebuf(n) ==
  /\ other[n] > 0
  /\ free' = [free EXCEPT ![n] = @ + 1]
  /\ other' = [other EXCEPT ![n] = @ - 1]
  /\ UNCHANGED <<conn, air, ghosts>>

-----------------------------------------------------------------------------
Next ==
  \/ \E n \in Node, mx \in MaxRxmits : SendNoBuffer(n, mx)
  \/ \E n \in Node, mx \in MaxRxmits : \E r \in Node \ {n} : Send(n, r, mx)
  \/ \E n \in Node, mx \in MaxRxmits : \E r \in Node \ {n} : SendLast(n, r, mx)
  \/ \E n \in Node, mx, mx2 \in MaxRxmits : \E r, r2 \in Node \ {n} :
       SendLastAndSend(n, r, mx, r2, mx2)
  \/ \E n \in Node : TimerFires(n)
  \/ \E n \in Node, m \in air, keep \in BOOLEAN : RecvData(n, m, keep)
  \/ \E n \in Node, m \in air, keep \in BOOLEAN : RecvAck(n, m, keep)
  \/ \E n \in Node, m \in air : RecvBadAck(n, m)
  \/ \E m \in air : LoseFrame(m)
  \/ \E n \in Node : Close(n) \/ Open(n)
  \/ \E n \in Node : TakeQueuebuf(n) \/ ReturnQueuebuf(n)

\* The ctimer of a connection expires and is served by the event loop.
Fairness == \A n \in Node : WF_vars(TimerFires(n))

Spec == Init /\ [][Next]_vars
FairSpec == Spec /\ Fairness

-----------------------------------------------------------------------------
(* Properties                                                               *)

Sending(n) == conn[n].open /\ conn[n].is_tx

\* Queue buffers are never leaked or freed twice, whatever the order of sends,
\* timer expiries, acknowledgements and closes: what is not free is held by
\* the connection or by another module, and the connection holds a buffer,
\* with its timer armed, exactly while it is transmitting.
BuffersAccounted ==
  \A n \in Node :
    /\ free[n] + other[n] + Held(conn[n]) = QueuebufNum
    /\ (conn[n].buf # NoBuf) <=> Sending(n)
    /\ Sending(n) => conn[n].timer

\* The sent callback fires only for a packet that really reached the recv
\* callback of the receiver it names, although acknowledgements are matched by
\* a 2-bit identifier that wraps, and frames are lost, delayed and duplicated.
AckedWasDelivered ==
  \A n \in Node : \A e \in acked[n] : <<n, e[1], e[2]>> \in got

\* A packet gets one verdict: never both the sent and the timedout callback,
\* and never one while it is still being transmitted.
OneVerdict ==
  \A n \in Node :
    /\ acked[n] \cap expired[n] = {}
    /\ Sending(n) => \A e \in acked[n] \cup expired[n] : e[1] # conn[n].buf.pkt

\* runicast.h: max_retransmissions is the number of transmissions attempted
\* before the packet times out (one is made even when it is 0).
TransmissionsBounded ==
  \A n \in Node :
    conn[n].open => tx[n] <= (IF conn[n].max_rxmit > 1 THEN conn[n].max_rxmit ELSE 1)

\* runicast.h: "When the receiver has acknowledged the packet, the ruc module
\* notifies the sending application via a callback": an acknowledgement of the
\* packet being transmitted is never dropped as a bad one.
OwnAckAccepted ==
  [][\A n \in Node, m \in air :
       Sending(n) /\ RecvBadAck(n, m) => m.pkt # conn[n].buf.pkt]_vars

\* Every packet that runicast_send accepted leaves the transmitting state: it
\* is acknowledged, times out, or its connection is closed.
EveryPacketEnds ==
  \A n \in Node : \A k \in 1..MaxPackets[n] :
    (Sending(n) /\ sends[n] = k) ~> ~(Sending(n) /\ sends[n] = k)

-----------------------------------------------------------------------------
(* The inductive strengthening of AckedWasDelivered                         *)

\* sndnxt is the identifier of the packet being transmitted, or of the next
\* one.  s packets have been sent in all, o of them before the last open.
Numbered(c, s, o) ==
  /\ o <= s
  /\ c.open /\ c.is_tx =>
       /\ o < s
       /\ c.sndnxt = (s - o - 1) % IdSpace
       /\ c.buf.pkt = s
       /\ c.buf.id = c.sndnxt
  /\ c.open /\ ~c.is_tx => c.sndnxt = (s - o) % IdSpace

Numbering == \A n \in Node : Numbered(conn[n], sends[n], opened[n])

\* A frame carries the identifier of a packet its sender has sent since it
\* opened the connection; an ACK exists only for a delivered packet.
Genuine(m) ==
  /\ opened[m.src] < m.pkt /\ m.pkt <= sends[m.src]
  /\ m.id = (m.pkt - opened[m.src] - 1) % IdSpace
  /\ m.type = "ack" => <<m.src, m.pkt, m.dst>> \in got
  /\ Sending(m.src) /\ m.pkt = sends[m.src] => m.dst = conn[m.src].buf.to

FramesGenuine == \A m \in air : Genuine(m)

\* Identifiers, packets and frames agree in every state reached without sends
\* from the timedout callback.
WireConsistent == Numbering /\ FramesGenuine

-----------------------------------------------------------------------------
(* Refinement of the abstract specification                                 *)

CurrentPacket(c) == IF c.buf = NoBuf THEN <<0, 0>> ELSE <<c.buf.pkt, c.buf.to>>

Abstract == INSTANCE ReliableUnicast WITH
  open <- [n \in Node |-> conn[n].open],
  current <- [n \in Node |-> CurrentPacket(conn[n])],
  count <- sends,
  reached <- got,
  sent <- acked,
  failed <- expired

\* runicast implements ReliableUnicast: whatever the channel does, a sent or
\* timedout callback is about the packet being transmitted, a sent callback
\* follows its delivery, and nothing else ends a packet but runicast_close.
ImplementsReliableUnicast == Abstract!Spec
=============================================================================
