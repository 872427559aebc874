----------------------------- MODULE MeshProofs -----------------------------
(***************************************************************************)
(* For every topology, pool, routing table and number of packets: the types;  *)
(* the queue buffers of mesh, netflood and ipolite are accounted for; with     *)
(* one destination a packet that waits for a route is always looked for;       *)
(* every route is one the topology has; and a packet is in one place at most.  *)
(***************************************************************************)
EXTENDS Mesh, LeastNumber, SequenceTheorems, FiniteSetTheorems, TLAPS

\* What frames carry is what the nodes queue and flood.
FramesInv ==
  \A f \in air :
    /\ f.type = "data" => f.pkt \in Packet /\ f.pkt.dst \in Destination
    /\ f.type = "rreq" => f.req \in Request /\ f.req.dest \in Destination
    /\ f.type = "rrep" => f.orig \in Destination

NodesInv ==
  /\ free \in [Node -> Nat]
  /\ rreq_id \in [Node -> Seqno]
  /\ sends \in [Node -> Nat]
  /\ queued \in [Node -> Packet \cup {NULL}]
  /\ \A n \in Node : queued[n] # NULL => queued[n].dst \in Destination
  /\ flood \in [Node -> Request \cup {NULL}]
  /\ \A n \in Node : flood[n] # NULL => flood[n].dest \in Destination

BufferInv == FramesInv /\ NodesInv /\ BuffersAccounted

-----------------------------------------------------------------------------
\* Whatever is sent and heard, the air holds frames that were there or sent.
LEMMA TransmitAdds ==
  ASSUME NEW rest, NEW frames, Transmit(rest, frames)
  PROVE  air' \subseteq rest \cup frames
BY DEF Transmit

\* A request that is counted one hop further is still a request for the same node.
LEMMA FurtherIsRequest ==
  ASSUME NEW r \in Request, r.hops < HopsMax
  PROVE  Further(r) \in Request /\ Further(r).dest = r.dest
BY MeshAssumption DEF Further, Request

\* Forwarding a packet keeps everything but the frames, which carry that packet
\* or a new request for its destination.
LEMMA ForwardStep ==
  ASSUME BufferInv, NEW n \in Node, NEW pkt \in Packet, pkt.dst \in Destination,
         NEW rest \in SUBSET air, Forward(n, pkt, rest)
  PROVE  /\ FramesInv' /\ BuffersAccounted'
         /\ free' \in [Node -> Nat]
         /\ rreq_id' \in [Node -> Seqno]
         /\ queued' \in [Node -> Packet \cup {NULL}]
         /\ \A m \in Node : queued'[m] # NULL => queued'[m].dst \in Destination
         /\ flood' \in [Node -> Request \cup {NULL}]
         /\ \A m \in Node : flood'[m] # NULL => flood'[m].dest \in Destination
<1>. USE DEF BufferInv, NodesInv
<1>1. CASE ForwardAlongRoute(n, pkt, rest)
  <2>1. air' \subseteq rest \cup Unicast(n, Nexthop(n, pkt.dst), pkt)
    BY <1>1, TransmitAdds DEF ForwardAlongRoute
  <2>2. FramesInv'
    BY <2>1 DEF FramesInv, Unicast
  <2>. QED
    BY <1>1, <2>2 DEF ForwardAlongRoute, discovery, BuffersAccounted
<1>2. pkt # NULL /\ pkt \in Packet \cup {NULL}
  BY NullAssumption
<1>3. ASSUME Queue(n, pkt)
      PROVE  /\ queued' \in [Node -> Packet \cup {NULL}]
             /\ \A m \in Node : queued'[m] # NULL => queued'[m].dst \in Destination
             /\ FreeAfterQueue(n) + Held(queued'[n]) = free[n] + Held(queued[n])
             /\ \A m \in Node \ {n} : queued'[m] = queued[m]
             /\ FreeAfterQueue(n) \in Nat
  <2>1. free[n] \in Nat /\ Available(n) = free[n] + Held(queued[n]) /\ Held(queued[n]) \in {0, 1}
    BY DEF Available, Held
  <2>0. Available(n) >= 0
    BY <2>1
  <2>2. queued' = [queued EXCEPT ![n] = IF Available(n) > 0 THEN pkt ELSE NULL]
    BY <1>3 DEF Queue
  <2>3. CASE Available(n) > 0
    BY <1>2, <2>1, <2>2, <2>3 DEF FreeAfterQueue, Held
  <2>4. CASE ~(Available(n) > 0)
    BY <2>0, <2>1, <2>2, <2>4 DEF FreeAfterQueue, Held
  <2>. QED
    BY <2>3, <2>4
<1>4. CASE QueuePacket(n, pkt, rest)
  <2>1. Queue(n, pkt) /\ free' = [free EXCEPT ![n] = FreeAfterQueue(n)] /\ air' = rest
        /\ flood' = flood /\ rreq_id' = rreq_id
    BY <1>4 DEF QueuePacket, discovery
  <2>2. FramesInv'
    BY <2>1 DEF FramesInv
  <2>3. BuffersAccounted'
    BY <1>3, <2>1 DEF BuffersAccounted, Held
  <2>. QED
    BY <1>3, <2>1, <2>2, <2>3
<1>5. CASE QueueAndDiscover(n, pkt, rest)
  <2>. DEFINE r == [orig |-> n, id |-> rreq_id[n], dest |-> pkt.dst, hops |-> 0]
  <2>1. /\ Queue(n, pkt)
        /\ free' = [free EXCEPT ![n] = FreeAfterQueue(n) + Held(flood[n])]
        /\ flood' = [flood EXCEPT ![n] = NULL]
        /\ rreq_id' = [rreq_id EXCEPT ![n] = (@ + 1) % SeqSpace]
        /\ Transmit(rest, Broadcast(n, r))
    BY <1>5 DEF QueueAndDiscover
  <2>2. r \in Request /\ r.dest = pkt.dst
    BY MeshAssumption DEF Request
  <2>3. air' \subseteq rest \cup Broadcast(n, r)
    BY <2>1, TransmitAdds
  <2>4. FramesInv'
    <3>. HIDE DEF r
    <3>. QED
      BY <2>2, <2>3 DEF FramesInv, Broadcast
  <2>5. rreq_id' \in [Node -> Seqno]
    BY <2>1, MeshAssumption DEF Seqno
  <2>6. BuffersAccounted'
    <3>1. ASSUME NEW m \in Node \ {n}
          PROVE  free'[m] + Held(queued'[m]) + Held(flood'[m]) = QueuebufNum
      BY <1>3, <2>1 DEF BuffersAccounted
    <3>2. free'[n] + Held(queued'[n]) + Held(flood'[n]) = QueuebufNum
      <4>1. free'[n] = FreeAfterQueue(n) + Held(flood[n]) /\ flood'[n] = NULL
        BY <2>1
      <4>2. Held(queued'[n]) \in Int /\ Held(queued[n]) \in Int /\ Held(flood[n]) \in Int
        BY DEF Held
      <4>3. Held(NULL) = 0
        BY DEF Held
      <4>. QED
        BY <1>3, <2>1, <4>1, <4>2, <4>3 DEF BuffersAccounted
    <3>. QED
      BY <3>1, <3>2 DEF BuffersAccounted
  <2>7. free' \in [Node -> Nat] /\ flood' \in [Node -> Request \cup {NULL}]
        /\ \A m \in Node : flood'[m] # NULL => flood'[m].dest \in Destination
    BY <1>3, <2>1 DEF Held
  <2>. QED
    BY <1>3, <2>1, <2>4, <2>5, <2>6, <2>7
<1>. QED
  BY <1>1, <1>4, <1>5 DEF Forward

-----------------------------------------------------------------------------
\* A request heard changes at most the flood that waits and its buffer.
LEMMA HeardStep ==
  ASSUME BufferInv, NEW n \in Node, NEW r
  PROVE  /\ FreeHeard(n, r) \in Nat
         /\ FreeHeard(n, r) + Held(queued[n]) + Held(FloodHeard(n, r)) = QueuebufNum
         /\ FloodHeard(n, r) = NULL \/ FloodHeard(n, r) = flood[n]
BY DEF BufferInv, NodesInv, BuffersAccounted, HearsCopy, FloodHeard, FreeHeard, Held

\* One buffer count and one flood change, and the sum stays.
LEMMA FloodChanges ==
  ASSUME BufferInv, NEW n \in Node, NEW c \in Nat, NEW r \in Request \cup {NULL},
         r # NULL => r.dest \in Destination,
         c + Held(queued[n]) + Held(r) = QueuebufNum,
         free' = [free EXCEPT ![n] = c], flood' = [flood EXCEPT ![n] = r],
         queued' = queued
  PROVE  /\ BuffersAccounted'
         /\ free' \in [Node -> Nat] /\ flood' \in [Node -> Request \cup {NULL}]
         /\ \A m \in Node : flood'[m] # NULL => flood'[m].dest \in Destination
BY DEF BufferInv, NodesInv, BuffersAccounted, Held

\* A frame that is received is taken from the air.
LEMMA FewerFrames ==
  ASSUME FramesInv, air' \subseteq air
  PROVE  FramesInv'
BY DEF FramesInv

\* mesh_send.
LEMMA SendStep ==
  ASSUME BufferInv, NEW n \in Node, NEW d \in Destination \ {n}, Send(n, d)
  PROVE  BufferInv'
<1>. DEFINE pkt == [src |-> n, num |-> sends[n] + 1, dst |-> d]
<1>1. pkt \in Packet /\ pkt.dst \in Destination
  BY MeshAssumption DEF Packet, BufferInv, NodesInv
<1>2. Forward(n, pkt, air) /\ sends' \in [Node -> Nat]
  BY DEF Send, BufferInv, NodesInv
<1>. QED
  BY <1>1, <1>2, ForwardStep DEF BufferInv, NodesInv

\* A data frame is received, for this node or for another.
LEMMA DataStep ==
  ASSUME BufferInv, NEW n \in Node, NEW f \in air, RecvData(n, f) \/ RecvDataForOther(n, f)
  PROVE  BufferInv'
<1>1. CASE RecvData(n, f)
  BY <1>1, FewerFrames DEF RecvData, BufferInv, NodesInv, BuffersAccounted, discovery
<1>2. CASE RecvDataForOther(n, f)
  <2>1. f.pkt \in Packet /\ f.pkt.dst \in Destination
    BY <1>2 DEF RecvDataForOther, BufferInv, FramesInv
  <2>2. Forward(n, f.pkt, air \ {f}) /\ sends' = sends
    BY <1>2 DEF RecvDataForOther, ghosts
  <2>. QED
    BY <2>1, <2>2, ForwardStep DEF BufferInv, NodesInv
<1>. QED
  BY <1>1, <1>2

\* A request is received.
LEMMA RequestStep ==
  ASSUME BufferInv, NEW n \in Node, NEW f \in air,
         \/ RecvOldRequest(n, f) \/ RecvRequestForMe(n, f)
         \/ RecvRequestForOther(n, f) \/ RecvRequestNotForwarded(n, f)
  PROVE  BufferInv'
<1>. DEFINE heard == FloodHeard(n, f.req)
<1>1. /\ queued' = queued /\ rreq_id' = rreq_id /\ sends' = sends
      /\ f.req \in Request /\ f.req.dest \in Destination
  BY DEF RecvOldRequest, RecvRequestForMe, RecvRequestForOther, RecvRequestNotForwarded,
         NewRequest, IsRequestAt, ghosts, BufferInv, FramesInv
<1>2. heard \in Request \cup {NULL} /\ (heard # NULL => heard.dest \in Destination)
  BY HeardStep DEF BufferInv, NodesInv
<1>3. SUFFICES /\ FramesInv' /\ BuffersAccounted'
               /\ free' \in [Node -> Nat] /\ flood' \in [Node -> Request \cup {NULL}]
               /\ \A m \in Node : flood'[m] # NULL => flood'[m].dest \in Destination
  BY <1>1 DEF BufferInv, NodesInv
<1>4. CASE RecvOldRequest(n, f)
  BY <1>1, <1>2, <1>4, HeardStep, FloodChanges, FewerFrames DEF RecvOldRequest, BufferInv
<1>5. CASE RecvRequestNotForwarded(n, f)
  BY <1>1, <1>2, <1>5, HeardStep, FloodChanges, FewerFrames
     DEF RecvRequestNotForwarded, BufferInv
<1>6. CASE RecvRequestForMe(n, f)
  <2>1. free' = [free EXCEPT ![n] = FreeHeard(n, f.req)] /\ flood' = [flood EXCEPT ![n] = heard]
    BY <1>6 DEF RecvRequestForMe
  <2>2. PICK h : air' \subseteq (air \ {f}) \cup Reply(n, h, f.req.orig, n, 0)
    BY <1>6, TransmitAdds DEF RecvRequestForMe
  <2>3. n \in Destination
    BY <1>1, <1>6 DEF RecvRequestForMe
  <2>4. FramesInv'
    BY <2>2, <2>3 DEF BufferInv, FramesInv, Reply
  <2>. QED
    BY <1>1, <1>2, <2>1, <2>4, HeardStep, FloodChanges
<1>7. CASE RecvRequestForOther(n, f)
  <2>. DEFINE c == FreeHeard(n, f.req) + Held(heard) - 1
  <2>1. /\ free' = [free EXCEPT ![n] = c]
        /\ flood' = [flood EXCEPT ![n] = Further(f.req)]
        /\ FreeHeard(n, f.req) > 0 /\ f.req.hops < HopsMax
        /\ air' \subseteq air
    BY <1>7 DEF RecvRequestForOther, CanForwardFlood
  <2>2. Further(f.req) \in Request /\ Further(f.req).dest \in Destination
    BY <1>1, <2>1, FurtherIsRequest
  <2>3. Further(f.req) # NULL /\ Held(Further(f.req)) = 1
    BY <2>2, NullAssumption DEF Held
  <2>4. c \in Nat /\ c + Held(queued[n]) + 1 = QueuebufNum
    <3>1. Held(heard) \in {0, 1} /\ Held(queued[n]) \in {0, 1}
      BY DEF Held
    <3>2. FreeHeard(n, f.req) \in Nat
          /\ FreeHeard(n, f.req) + Held(queued[n]) + Held(heard) = QueuebufNum
      BY HeardStep
    <3>. QED
      BY <2>1, <3>1, <3>2
  <2>. HIDE DEF c
  <2>. QED
    BY <1>1, <2>1, <2>2, <2>3, <2>4, FloodChanges, FewerFrames DEF BufferInv
<1>. QED
  BY <1>4, <1>5, <1>6, <1>7

\* A reply is received.
LEMMA ReplyStep ==
  ASSUME BufferInv, NEW n \in Node, NEW f \in air,
         RecvReplyForOther(n, f) \/ RecvReplySends(n, f) \/ RecvReplyOnly(n, f)
  PROVE  BufferInv'
<1>1. f.orig \in Destination
  BY DEF RecvReplyForOther, RecvReplySends, RecvReplyOnly, ReplyForMe, IsReplyAt,
         BufferInv, FramesInv
<1>2. CASE RecvReplyForOther(n, f)
  <2>1. PICK h : air' \subseteq (air \ {f}) \cup Reply(n, h, f.dest, f.orig, f.hops + 1)
    BY <1>2, TransmitAdds DEF RecvReplyForOther
  <2>2. FramesInv'
    BY <1>1, <2>1 DEF BufferInv, FramesInv, Reply
  <2>. QED
    BY <1>2, <2>2 DEF RecvReplyForOther, discovery, ghosts, BufferInv, NodesInv, BuffersAccounted
<1>3. CASE RecvReplySends(n, f)
  <2>1. /\ queued[n] # NULL
        /\ queued' = [queued EXCEPT ![n] = NULL]
        /\ free' = [free EXCEPT ![n] = @ + 1]
        /\ rreq_id' = rreq_id /\ sends' = sends /\ flood' = flood
    BY <1>3 DEF RecvReplySends, ReplyForMe, Awaits, Dequeued, ghosts
  <2>2. PICK h : air' \subseteq (air \ {f}) \cup Unicast(n, h, queued[n])
    BY <1>3, TransmitAdds DEF RecvReplySends
  <2>3. queued[n] \in Packet /\ queued[n].dst \in Destination
    BY <2>1 DEF BufferInv, NodesInv
  <2>4. FramesInv'
    BY <2>2, <2>3 DEF BufferInv, FramesInv, Unicast
  <2>5. BuffersAccounted'
    BY <2>1 DEF BufferInv, NodesInv, BuffersAccounted, Held
  <2>. QED
    BY <2>1, <2>4, <2>5 DEF BufferInv, NodesInv
<1>4. CASE RecvReplyOnly(n, f)
  <2>1. /\ air' \subseteq air /\ free' = free /\ queued' = queued
        /\ rreq_id' = rreq_id /\ sends' = sends /\ flood' = flood
    BY <1>4 DEF RecvReplyOnly, ReplyForMe, ghosts
  <2>. QED
    BY <2>1, FewerFrames DEF BufferInv, NodesInv, BuffersAccounted
<1>. QED
  BY <1>2, <1>3, <1>4

\* The timers, and closing and opening the connection.
LEMMA OtherStep ==
  ASSUME BufferInv, NEW n \in Node,
         FloodOn(n) \/ DiscoveryTimesOut(n) \/ RoutePeriodic(n) \/ Close(n) \/ Open(n)
  PROVE  BufferInv'
<1>1. CASE FloodOn(n)
  <2>1. /\ flood[n] # NULL /\ flood' = [flood EXCEPT ![n] = NULL]
        /\ free' = [free EXCEPT ![n] = @ + 1]
        /\ queued' = queued /\ rreq_id' = rreq_id /\ sends' = sends
    BY <1>1 DEF FloodOn, ghosts
  <2>2. air' \subseteq air \cup Broadcast(n, flood[n])
    BY <1>1, TransmitAdds DEF FloodOn
  <2>3. flood[n] \in Request /\ flood[n].dest \in Destination
    BY <2>1 DEF BufferInv, NodesInv
  <2>4. FramesInv'
    BY <2>2, <2>3 DEF BufferInv, FramesInv, Broadcast
  <2>5. free[n] + 1 \in Nat /\ free[n] + 1 + Held(queued[n]) + Held(NULL) = QueuebufNum
    BY <2>1 DEF BufferInv, NodesInv, BuffersAccounted, Held
  <2>. QED
    BY <2>1, <2>4, <2>5, FloodChanges DEF BufferInv, NodesInv
<1>2. CASE DiscoveryTimesOut(n)
  <2>1. /\ queued' = [queued EXCEPT ![n] = NULL]
        /\ free' = [free EXCEPT ![n] = @ + Held(queued[n])]
        /\ air' = air /\ flood' = flood /\ rreq_id' = rreq_id /\ sends' = sends
    BY <1>2 DEF DiscoveryTimesOut, Dequeued, ghosts
  <2>2. BuffersAccounted' /\ free' \in [Node -> Nat]
    BY <2>1 DEF BufferInv, NodesInv, BuffersAccounted, Held
  <2>. QED
    BY <2>1, <2>2, FewerFrames DEF BufferInv, NodesInv
<1>3. CASE RoutePeriodic(n)
  BY <1>3, FewerFrames DEF RoutePeriodic, discovery, ghosts, BufferInv, NodesInv, BuffersAccounted
<1>4. CASE Close(n)
  <2>1. /\ flood' = [flood EXCEPT ![n] = NULL]
        /\ free' = [free EXCEPT ![n] = @ + Held(flood[n])]
        /\ air' = air /\ queued' = queued /\ rreq_id' = rreq_id /\ sends' = sends
    BY <1>4 DEF Close, ghosts
  <2>2. BuffersAccounted' /\ free' \in [Node -> Nat]
    BY <2>1 DEF BufferInv, NodesInv, BuffersAccounted, Held
  <2>. QED
    BY <2>1, <2>2, FewerFrames DEF BufferInv, NodesInv
<1>5. CASE Open(n)
  BY <1>5, FewerFrames DEF Open, discovery, BufferInv, NodesInv, BuffersAccounted
<1>. QED
  BY <1>1, <1>2, <1>3, <1>4, <1>5

\* One step of any kind.
LEMMA BufferStep == BufferInv /\ [Next]_vars => BufferInv'
<1>. SUFFICES ASSUME BufferInv, [Next]_vars
              PROVE  BufferInv'
  OBVIOUS
<1>1. CASE \E n \in Node : \E d \in Destination \ {n} : Send(n, d)
  BY <1>1, SendStep
<1>2. CASE \E n \in Node, f \in air : Recv(n, f)
  BY <1>2, DataStep, RequestStep, ReplyStep DEF Recv
<1>3. CASE \E n \in Node :
             FloodOn(n) \/ DiscoveryTimesOut(n) \/ RoutePeriodic(n) \/ Close(n) \/ Open(n)
  BY <1>3, OtherStep
<1>4. CASE UNCHANGED vars
  BY <1>4, FewerFrames DEF vars, discovery, ghosts, BufferInv, NodesInv, BuffersAccounted
<1>. QED
  BY <1>1, <1>2, <1>3, <1>4 DEF Next

LEMMA BufferInit == Init => BufferInv
BY MeshAssumption DEF Init, BufferInv, FramesInv, NodesInv, BuffersAccounted, Held, Seqno

\* Queue buffers are neither leaked nor freed twice, whatever is replaced, sent,
\* flooded, given up or closed (mesh.c:96-102, netflood.c:86-123, ipolite.c:65-158).
THEOREM BuffersAreAccounted == Spec => []BuffersAccounted
<1>1. BufferInv => BuffersAccounted
  BY DEF BufferInv
<1>. QED
  BY BufferInit, BufferStep, <1>1, PTL DEF Spec

-----------------------------------------------------------------------------
\* With one destination no packet can be queued for another than the one the
\* pending request looks for.
OneDestination == \A d, e \in Destination : d = e

\* A connection that was never closed has its timer armed while a request is
\* pending.
PursuitInv ==
  /\ QueuedIsPursued
  /\ \A n \in Node : pending[n] /\ open[n] /\ opens[n] = 0 => timer[n]
  /\ pending \in [Node -> BOOLEAN] /\ timer \in [Node -> BOOLEAN]
  /\ open \in [Node -> BOOLEAN] /\ opens \in [Node -> Nat]

\* Forwarding leaves request and timer as they are, or starts both.
LEMMA PursuitForward ==
  ASSUME BufferInv, PursuitInv, NEW n \in Node, open[n], NEW pkt, NEW rest,
         Forward(n, pkt, rest), UNCHANGED <<open, opens>>
  PROVE  PursuitInv'
<1>1. CASE ForwardAlongRoute(n, pkt, rest)
  BY <1>1 DEF ForwardAlongRoute, discovery, PursuitInv, QueuedIsPursued
<1>2. CASE QueuePacket(n, pkt, rest)
  <2>1. /\ pending[n] /\ pending' = pending /\ timer' = timer
        /\ \A m \in Node \ {n} : queued'[m] = queued[m]
    BY <1>2 DEF QueuePacket, Queue, discovery, BufferInv, NodesInv
  <2>. QED
    BY <2>1 DEF PursuitInv, QueuedIsPursued
<1>3. CASE QueueAndDiscover(n, pkt, rest)
  <2>1. /\ pending' = [pending EXCEPT ![n] = TRUE] /\ timer' = [timer EXCEPT ![n] = TRUE]
        /\ \A m \in Node \ {n} : queued'[m] = queued[m]
    BY <1>3 DEF QueueAndDiscover, Queue, Armed, BufferInv, NodesInv
  <2>. QED
    BY <2>1 DEF PursuitInv, QueuedIsPursued
<1>. QED
  BY <1>1, <1>2, <1>3 DEF Forward

\* A request that ends takes the packet that waits with it.
LEMMA PursuitEnds ==
  ASSUME PursuitInv, NEW n \in Node,
         pending' = [pending EXCEPT ![n] = FALSE], timer' = [timer EXCEPT ![n] = FALSE],
         queued'[n] = NULL, \A m \in Node \ {n} : queued'[m] = queued[m],
         UNCHANGED <<open, opens>>
  PROVE  PursuitInv'
BY DEF PursuitInv, QueuedIsPursued

LEMMA PursuitStep ==
  OneDestination /\ BufferInv /\ PursuitInv /\ [Next]_vars => PursuitInv'
<1>. SUFFICES ASSUME OneDestination, BufferInv, PursuitInv, [Next]_vars
              PROVE  PursuitInv'
  OBVIOUS
<1>1. ASSUME NEW n \in Node, NEW d \in Destination \ {n}, Send(n, d)
      PROVE  PursuitInv'
  BY <1>1, PursuitForward DEF Send
<1>2. ASSUME NEW n \in Node, NEW f \in air, Recv(n, f)
      PROVE  PursuitInv'
  <2>1. CASE RecvDataForOther(n, f)
    BY <2>1, PursuitForward DEF RecvDataForOther, ghosts
  <2>2. CASE RecvReplySends(n, f)
    BY <2>2, PursuitEnds
       DEF RecvReplySends, ReplyForMe, NotPending, Dequeued, ghosts, BufferInv, NodesInv
  <2>3. CASE RecvReplyOnly(n, f)
    <3>1. f.orig \in Destination /\ (queued[n] # NULL => queued[n].dst \in Destination)
      BY <2>3 DEF RecvReplyOnly, ReplyForMe, IsReplyAt, BufferInv, FramesInv, NodesInv
    <3>2. queued[n] = NULL
      BY <2>3, <3>1 DEF RecvReplyOnly, Awaits, OneDestination
    <3>. QED
      BY <2>3, <3>2, PursuitEnds DEF RecvReplyOnly, ReplyForMe, NotPending, ghosts
  <2>4. CASE RecvData(n, f) \/ RecvReplyForOther(n, f)
    BY <2>4 DEF RecvData, RecvReplyForOther, discovery, ghosts, PursuitInv, QueuedIsPursued
  <2>5. CASE \/ RecvOldRequest(n, f) \/ RecvRequestForMe(n, f)
             \/ RecvRequestForOther(n, f) \/ RecvRequestNotForwarded(n, f)
    <3>1. UNCHANGED <<queued, pending, timer, open, opens>>
      BY <2>5 DEF RecvOldRequest, RecvRequestForMe, RecvRequestForOther,
                  RecvRequestNotForwarded, NewRequest, ghosts
    <3>. QED
      BY <3>1 DEF PursuitInv, QueuedIsPursued
  <2>. QED
    BY <1>2, <2>1, <2>2, <2>3, <2>4, <2>5 DEF Recv
<1>3. ASSUME NEW n \in Node, DiscoveryTimesOut(n)
      PROVE  PursuitInv'
  BY <1>3, PursuitEnds DEF DiscoveryTimesOut, NotPending, Dequeued, ghosts, BufferInv, NodesInv
<1>4. ASSUME NEW n \in Node, FloodOn(n) \/ RoutePeriodic(n)
      PROVE  PursuitInv'
  <2>1. UNCHANGED <<queued, pending, timer, open, opens>>
    BY <1>4 DEF FloodOn, RoutePeriodic, discovery, ghosts
  <2>. QED
    BY <2>1 DEF PursuitInv, QueuedIsPursued
<1>5. ASSUME NEW n \in Node, Close(n)
      PROVE  PursuitInv'
  BY <1>5 DEF Close, ghosts, PursuitInv, QueuedIsPursued
<1>6. ASSUME NEW n \in Node, Open(n)
      PROVE  PursuitInv'
  BY <1>6 DEF Open, discovery, PursuitInv, QueuedIsPursued
<1>7. CASE UNCHANGED vars
  BY <1>7 DEF vars, discovery, ghosts, PursuitInv, QueuedIsPursued
<1>. QED
  BY <1>1, <1>2, <1>3, <1>4, <1>5, <1>6, <1>7 DEF Next

\* With one destination, a packet that waits for a route is looked for by a request
\* with a time limit, on every connection that was not closed
\* (mesh.c:96-103, route-discovery.c:292-322).
THEOREM PacketIsPursued == OneDestination /\ Spec => []QueuedIsPursued
<1>1. Init => PursuitInv
  BY DEF Init, PursuitInv, QueuedIsPursued
<1>2. PursuitInv => QueuedIsPursued
  BY DEF PursuitInv
<1>. SUFFICES ASSUME OneDestination
              PROVE  Spec => []QueuedIsPursued
  OBVIOUS
<1>3. BufferInv /\ PursuitInv /\ [Next]_vars => (BufferInv /\ PursuitInv)'
  BY BufferStep, PursuitStep
<1>. QED
  BY BufferInit, <1>1, <1>2, <1>3, PTL DEF Spec

(***************************************************************************)
(* route.c: what the operations on a table of entries of a kind T return    *)
(***************************************************************************)
\* Ageing or refreshing an entry does not change whether it is of the kind T.
Ageless(T) == /\ T \subseteq Entry
              /\ \A e \in T : \A s \in 0..Lifetime - 1 : [e EXCEPT !.time = s] \in T

Tables(T) == {t \in Seq(T) : Len(t) <= NumRtEntries}

LEMMA RoomForRoutes ==
  NumRtEntries \in Nat /\ NumRtEntries > 0 /\ Lifetime \in Nat /\ 0 \in 0..Lifetime - 1
BY MeshAssumption

\* There is a cheapest entry, and among the cheapest a first one.
LEMMA LookupFinds ==
  ASSUME NEW t \in Seq(Entry), NEW d, Towards(t, d) # {}
  PROVE  route_lookup(t, d) \in Towards(t, d) /\ route_lookup(t, d) \in 1..Len(t)
<1>1. PICK D : D = Towards(t, d)
  OBVIOUS
<1>2. D \in SUBSET Nat /\ D # {} /\ D \subseteq 1..Len(t) /\ \A i \in D : t[i].cost \in Nat
  <2>1. D \subseteq 1..Len(t) /\ Len(t) \in Nat
    BY <1>1 DEF Towards
  <2>2. ASSUME NEW i \in D
        PROVE  t[i].cost \in Nat
    <3>1. t[i] \in Entry
      BY <2>1
    <3>. QED  BY <3>1 DEF Entry
  <2>3. D \in SUBSET Nat
    BY <2>1
  <2>. QED  BY <1>1, <2>1, <2>2, <2>3
<1>3. PICK C : C = {t[i].cost : i \in D}
  OBVIOUS
<1>4. C \in SUBSET Nat /\ C # {}
  BY <1>2, <1>3
<1>5. PICK c \in C : \A y \in C : c <= y
  BY <1>4, LeastElement
<1>6. PICK E : E = {i \in D : t[i].cost = c}
  OBVIOUS
<1>7. E \in SUBSET Nat /\ E # {}
  BY <1>2, <1>3, <1>5, <1>6
<1>8. PICK i \in E : \A j \in E : i <= j
  BY <1>7, LeastElement
<1>9. i \in D /\ \A j \in D : t[i].cost < t[j].cost \/ (t[i].cost = t[j].cost /\ i <= j)
  <2>1. SUFFICES ASSUME NEW j \in D
                 PROVE  t[i].cost < t[j].cost \/ (t[i].cost = t[j].cost /\ i <= j)
    BY <1>6
  <2>2. t[i].cost = c /\ t[j].cost \in C /\ c \in Nat /\ t[j].cost \in Nat /\ c <= t[j].cost
    BY <1>2, <1>3, <1>4, <1>5, <1>6
  <2>3. CASE t[j].cost = c
    BY <1>6, <1>8, <2>2, <2>3
  <2>4. CASE t[j].cost # c
    BY <2>2, <2>4
  <2>. QED  BY <2>3, <2>4
<1>10. route_lookup(t, d) \in D
  BY <1>1, <1>9 DEF route_lookup
<1>. QED  BY <1>1, <1>2, <1>10

LEMMA Removed ==
  ASSUME NEW T, NEW t \in Seq(T), NEW i \in 1..Len(t)
  PROVE  RemoveAt(t, i) \in Seq(T) /\ Len(RemoveAt(t, i)) = Len(t) - 1
<1>1. PICK N, a, b : N = Len(t) /\ a = SubSeq(t, 1, i - 1) /\ b = SubSeq(t, i + 1, N)
  OBVIOUS
<1>2. N \in Nat /\ i \in 1..N /\ \A j \in 1..N : t[j] \in T
  BY <1>1
<1>3. a \in Seq(T) /\ Len(a) = i - 1
  <2>1. 1 \in Int /\ i - 1 \in Int /\ \A j \in 1..i - 1 : t[j] \in T
    BY <1>2
  <2>2. Len(a) = IF 1 <= i - 1 THEN (i - 1) - 1 + 1 ELSE 0
    BY <1>1, <2>1, SubSeqProperties
  <2>3. a \in Seq(T)
    BY <1>1, <2>1, SubSeqProperties
  <2>. QED  BY <1>2, <2>2, <2>3
<1>4. b \in Seq(T) /\ Len(b) = N - i
  <2>1. N \in Int /\ i + 1 \in Int /\ \A j \in i + 1..N : t[j] \in T
    BY <1>2
  <2>2. Len(b) = IF i + 1 <= N THEN N - (i + 1) + 1 ELSE 0
    BY <1>1, <2>1, SubSeqProperties
  <2>3. b \in Seq(T)
    BY <1>1, <2>1, SubSeqProperties
  <2>. QED  BY <1>2, <2>2, <2>3
<1>5. RemoveAt(t, i) = a \o b
  BY <1>1 DEF RemoveAt
<1>6. a \o b \in Seq(T) /\ Len(a \o b) = Len(a) + Len(b)
  BY <1>3, <1>4
<1>7. (i - 1) + (N - i) = N - 1
  BY <1>2
<1>. QED  BY <1>1, <1>3, <1>4, <1>5, <1>6, <1>7

LEMMA FrontOf ==
  ASSUME NEW T, NEW t \in Seq(T), Len(t) > 0
  PROVE  Front(t) \in Seq(T) /\ Len(Front(t)) = Len(t) - 1
<1>1. PICK M, a : M = Len(t) - 1 /\ a = SubSeq(t, 1, M)
  OBVIOUS
<1>2. M \in Nat /\ \A j \in 1..M : t[j] \in T
  BY <1>1
<1>3. a \in Seq(T)
  BY <1>1, <1>2, SubSeqProperties
<1>4. Len(a) = IF 1 <= M THEN M - 1 + 1 ELSE 0
  BY <1>1, <1>2, SubSeqProperties
<1>. QED  BY <1>1, <1>2, <1>3, <1>4 DEF Front

\* route_add keeps the table within its size, and a route to d is in it then.
LEMMA AddRoute ==
  ASSUME NEW T \in SUBSET Entry, NEW t \in Tables(T), NEW d, NEW h, NEW c,
         [dest |-> d, nexthop |-> h, cost |-> c, time |-> 0] \in T
  PROVE  route_add(t, d, h, c) \in Tables(T) /\ Towards(route_add(t, d, h, c), d) # {}
<1>1. PICK e, kept, N :
        /\ e = [dest |-> d, nexthop |-> h, cost |-> c, time |-> 0]
        /\ kept = IF Towards(t, d) # {} /\ t[route_lookup(t, d)].nexthop = h
                    THEN RemoveAt(t, route_lookup(t, d))
                  ELSE IF Len(t) = NumRtEntries THEN Front(t) ELSE t
        /\ N = NumRtEntries
  OBVIOUS
<1>2. /\ t \in Seq(T) /\ t \in Seq(Entry) /\ Len(t) <= N /\ Len(t) \in Nat
      /\ N \in Nat /\ N > 0 /\ e \in T /\ e.dest = d
  BY <1>1, RoomForRoutes DEF Tables
<1>3. kept \in Seq(T) /\ Len(kept) < N
  <2>1. CASE Towards(t, d) # {} /\ t[route_lookup(t, d)].nexthop = h
    <3>1. PICK i : i = route_lookup(t, d)
      OBVIOUS
    <3>2. i \in 1..Len(t)
      BY <1>2, <2>1, <3>1, LookupFinds
    <3>3. kept = RemoveAt(t, i)
      BY <1>1, <2>1, <3>1
    <3>4. kept \in Seq(T) /\ Len(kept) = Len(t) - 1
      BY <1>2, <3>2, <3>3, Removed
    <3>. QED  BY <1>2, <3>4
  <2>2. CASE ~(Towards(t, d) # {} /\ t[route_lookup(t, d)].nexthop = h) /\ Len(t) = N
    <3>1. kept = Front(t)
      BY <1>1, <2>2
    <3>. QED  BY <1>2, <2>2, <3>1, FrontOf
  <2>3. CASE ~(Towards(t, d) # {} /\ t[route_lookup(t, d)].nexthop = h) /\ Len(t) # N
    <3>1. kept = t
      BY <1>1, <2>3
    <3>. QED  BY <1>2, <2>3, <3>1
  <2>. QED  BY <2>1, <2>2, <2>3
<1>4. PICK r : r = <<e>> \o kept
  OBVIOUS
<1>5. r \in Seq(T) /\ Len(r) = Len(kept) + 1 /\ r[1] = e /\ 1 \in DOMAIN r
  BY <1>2, <1>3, <1>4
<1>6. route_add(t, d, h, c) = r
  BY <1>1, <1>4 DEF route_add
<1>7. r \in Tables(T)
  <2>1. Len(kept) \in Nat /\ Len(kept) < N
    BY <1>3
  <2>2. Len(r) <= N
    BY <1>2, <1>5, <2>1
  <2>. QED  BY <1>1, <1>5, <2>2 DEF Tables
<1>8. 1 \in Towards(r, d)
  BY <1>2, <1>5 DEF Towards
<1>. QED  BY <1>6, <1>7, <1>8

LEMMA RefreshRoute ==
  ASSUME NEW T, Ageless(T), NEW t \in Tables(T), NEW d
  PROVE  route_refresh(t, d) \in Tables(T)
<1>1. t \in Seq(T) /\ t \in Seq(Entry) /\ Len(t) <= NumRtEntries
  BY DEF Tables, Ageless
<1>2. CASE Towards(t, d) = {}
  BY <1>2 DEF route_refresh
<1>3. CASE Towards(t, d) # {}
  <2>1. PICK i, e : i = route_lookup(t, d) /\ e = [t[i] EXCEPT !.time = 0]
    OBVIOUS
  <2>2. i \in 1..Len(t)
    BY <1>1, <1>3, <2>1, LookupFinds
  <2>3. e \in T
    <3>1. t[i] \in T
      BY <1>1, <2>2
    <3>. QED  BY <2>1, <3>1, RoomForRoutes DEF Ageless
  <2>4. route_refresh(t, d) = [t EXCEPT ![i] = e]
    BY <1>3, <2>1 DEF route_refresh
  <2>5. [t EXCEPT ![i] = e] \in Seq(T) /\ Len([t EXCEPT ![i] = e]) = Len(t)
    BY <1>1, <2>2, <2>3, ExceptSeq
  <2>. QED  BY <1>1, <2>4, <2>5 DEF Tables
<1>. QED  BY <1>2, <1>3

LEMMA AgeRoutes ==
  ASSUME NEW T, Ageless(T), NEW t \in Tables(T)
  PROVE  periodic(t) \in Tables(T)
<1>1. PICK N, old : N = Len(t) /\ old = {i \in DOMAIN t : t[i].time + 1 >= Lifetime}
  OBVIOUS
<1>2. PICK first : first = CHOOSE i \in old : \A j \in old : i <= j
  OBVIOUS
<1>3. PICK aged : aged = [i \in DOMAIN t |->
                            IF old = {} \/ i < first THEN [t[i] EXCEPT !.time = @ + 1] ELSE t[i]]
  OBVIOUS
<1>4. periodic(t) = IF old = {} THEN aged ELSE RemoveAt(aged, first)
  BY <1>1, <1>2, <1>3 DEF periodic
<1>5. /\ t \in Seq(T) /\ N \in Nat /\ N <= NumRtEntries /\ NumRtEntries \in Nat
      /\ DOMAIN t = 1..N /\ \A i \in 1..N : t[i] \in T /\ t[i] \in Entry
  BY <1>1, RoomForRoutes DEF Tables, Ageless
<1>6. old # {} => first \in old /\ \A j \in old : first <= j
  <2>1. old \in SUBSET Nat
    BY <1>1, <1>5
  <2>2. old # {} => \E i \in old : \A j \in old : i <= j
    BY <2>1, LeastElement
  <2>. QED  BY <1>2, <2>2
<1>7. ASSUME NEW i \in 1..N
      PROVE  (IF old = {} \/ i < first THEN [t[i] EXCEPT !.time = @ + 1] ELSE t[i]) \in T
  <2>1. CASE old = {} \/ i < first
    <3>1. i \notin old
      <4>1. CASE old = {}
        BY <4>1
      <4>2. CASE old # {}
        <5>1. first \in Nat /\ i < first /\ \A j \in old : first <= j
          BY <1>1, <1>5, <1>6, <2>1, <4>2
        <5>. QED  BY <5>1
      <4>. QED  BY <4>1, <4>2
    <3>2. PICK s : s = t[i].time
      OBVIOUS
    <3>3. s \in 0..Lifetime - 1 /\ Lifetime \in Nat
      BY <1>5, <3>2, RoomForRoutes DEF Entry
    <3>4. ~(s + 1 >= Lifetime)
      BY <1>1, <1>5, <3>1, <3>2
    <3>5. s + 1 \in 0..Lifetime - 1
      BY <3>3, <3>4
    <3>6. [t[i] EXCEPT !.time = s + 1] \in T
      BY <1>5, <3>5 DEF Ageless
    <3>7. [t[i] EXCEPT !.time = @ + 1] = [t[i] EXCEPT !.time = s + 1]
      BY <3>2
    <3>. QED  BY <2>1, <3>6, <3>7
  <2>2. CASE ~(old = {} \/ i < first)
    BY <1>5, <2>2
  <2>. QED  BY <2>1, <2>2
<1>8. aged \in Seq(T) /\ Len(aged) = N
  <2>1. aged \in [1..N -> T]
    BY <1>3, <1>5, <1>7
  <2>. QED  BY <1>5, <2>1
<1>9. CASE old = {}
  BY <1>4, <1>5, <1>8, <1>9 DEF Tables
<1>10. CASE old # {}
  <2>1. first \in 1..N
    BY <1>1, <1>5, <1>6, <1>10
  <2>2. RemoveAt(aged, first) \in Seq(T) /\ Len(RemoveAt(aged, first)) = N - 1
    BY <1>8, <2>1, Removed
  <2>3. N - 1 <= NumRtEntries
    BY <1>5
  <2>. QED  BY <1>4, <1>10, <2>2, <2>3 DEF Tables
<1>. QED  BY <1>9, <1>10

(***************************************************************************)
(* Walks                                                                    *)
(***************************************************************************)
Extended(W) == {<<p[1][1], p[2][2]>> : p \in {q \in Link \X W : q[1][2] = q[2][1]}}
AtHome == {<<n, n>> : n \in Node}

WalkUpTo(f, k) == f = [i \in 0..k |-> IF i = 0 THEN AtHome ELSE Extended(f[i - 1])]
IsWalk(f) == f = [i \in Nat |-> IF i = 0 THEN AtHome ELSE Extended(f[i - 1])]

LEMMA WalkUpToExists == \A k \in Nat : \E f : WalkUpTo(f, k)
<1>1. SUFFICES ASSUME NEW N \in Nat PROVE \E f : WalkUpTo(f, N)
  OBVIOUS
<1>2. PICK A : A = {k \in Nat : \E f : WalkUpTo(f, k)}
  OBVIOUS
<1>3. 0 \in A
  <2>1. PICK f : f = [i \in 0..0 |-> AtHome]
    OBVIOUS
  <2>2. WalkUpTo(f, 0)
    BY <2>1 DEF WalkUpTo
  <2>. QED  BY <1>2, <2>2
<1>4. ASSUME NEW k \in 0..N, k \in A, k < N
      PROVE  k + 1 \in A
  <2>1. PICK f : WalkUpTo(f, k)
    BY <1>2, <1>4
  <2>2. PICK g : g = [i \in 0..k + 1 |-> IF i = k + 1 THEN Extended(f[k]) ELSE f[i]]
    OBVIOUS
  <2>3. k \in Nat
    BY <1>4
  <2>4. ASSUME NEW i \in 0..k + 1
        PROVE  g[i] = IF i = 0 THEN AtHome ELSE Extended(g[i - 1])
    <3>1. CASE i = k + 1
      <4>1. g[i] = Extended(f[k]) /\ i - 1 = k /\ i # 0 /\ k \in 0..k + 1 /\ k # k + 1
        BY <2>2, <2>3, <3>1
      <4>2. g[i - 1] = f[k]
        BY <2>2, <4>1
      <4>. QED  BY <4>1, <4>2
    <3>2. CASE i # k + 1
      <4>1. i \in 0..k /\ (i # 0 => i - 1 \in 0..k /\ i - 1 \in 0..k + 1 /\ i - 1 # k + 1)
        BY <2>3, <3>2
      <4>2. g[i] = f[i] /\ (i # 0 => g[i - 1] = f[i - 1])
        BY <2>2, <3>2, <4>1
      <4>3. f[i] = IF i = 0 THEN AtHome ELSE Extended(f[i - 1])
        BY <2>1, <4>1 DEF WalkUpTo
      <4>. QED  BY <4>2, <4>3
    <3>. QED  BY <3>1, <3>2
  <2>5. WalkUpTo(g, k + 1)
    <3>1. g = [i \in 0..k + 1 |-> g[i]]
      BY <2>2
    <3>. QED  BY <2>4, <3>1 DEF WalkUpTo
  <2>. QED  BY <1>2, <2>3, <2>5
<1>5. N \in A
  BY <1>3, <1>4, ReachesEnd
<1>. QED  BY <1>2, <1>5

\* Functions that satisfy the equations agree where both are defined.
LEMMA WalkUpToAgrees ==
  ASSUME NEW k \in Nat, NEW m \in Nat, k <= m, NEW f, NEW g, WalkUpTo(f, k), WalkUpTo(g, m)
  PROVE  f[k] = g[k]
<1>1. PICK A : A = {i \in 0..k : f[i] = g[i]}
  OBVIOUS
<1>2. \A i \in 0..k : f[i] = IF i = 0 THEN AtHome ELSE Extended(f[i - 1])
  BY DEF WalkUpTo
<1>3. \A i \in 0..m : g[i] = IF i = 0 THEN AtHome ELSE Extended(g[i - 1])
  BY DEF WalkUpTo
<1>4. 0 \in A
  <2>1. 0 \in 0..k /\ 0 \in 0..m
    OBVIOUS
  <2>. QED  BY <1>1, <1>2, <1>3, <2>1
<1>5. ASSUME NEW i \in 0..k, i \in A, i < k
      PROVE  i + 1 \in A
  <2>1. i + 1 \in 0..k /\ i + 1 \in 0..m /\ i + 1 # 0 /\ (i + 1) - 1 = i
    BY <1>5
  <2>2. f[i + 1] = Extended(f[i]) /\ g[i + 1] = Extended(g[i])
    BY <1>2, <1>3, <2>1
  <2>. QED  BY <1>1, <1>5, <2>1, <2>2
<1>6. k \in A
  BY <1>4, <1>5, ReachesEnd
<1>. QED  BY <1>1, <1>6

LEMMA WalkExists == \E f : IsWalk(f)
<1>1. PICK f : f = [k \in Nat |-> CHOOSE g : WalkUpTo(g, k)]
  OBVIOUS
<1>2. \A k \in Nat : WalkUpTo(f[k], k)
  <2>1. SUFFICES ASSUME NEW k \in Nat PROVE WalkUpTo(f[k], k)
    OBVIOUS
  <2>2. f[k] = CHOOSE g : WalkUpTo(g, k)
    BY <1>1
  <2>. QED  BY <2>2, WalkUpToExists, Zenon
<1>3. PICK w : w = [k \in Nat |-> f[k][k]]
  OBVIOUS
<1>4. ASSUME NEW k \in Nat
      PROVE  w[k] = IF k = 0 THEN AtHome ELSE Extended(w[k - 1])
  <2>1. PICK g : g = f[k]
    OBVIOUS
  <2>2. WalkUpTo(g, k) /\ k \in 0..k
    BY <1>2, <2>1
  <2>3. w[k] = g[k] /\ g[k] = IF k = 0 THEN AtHome ELSE Extended(g[k - 1])
    <3>1. w[k] = g[k]
      BY <1>3, <2>1
    <3>2. \A i \in 0..k : g[i] = IF i = 0 THEN AtHome ELSE Extended(g[i - 1])
      BY <2>2 DEF WalkUpTo
    <3>. QED  BY <2>2, <3>1, <3>2
  <2>4. CASE k = 0
    BY <2>3, <2>4
  <2>5. CASE k # 0
    <3>1. PICK j, h : j = k - 1 /\ h = f[j]
      OBVIOUS
    <3>2. j \in Nat /\ j <= k
      BY <2>5, <3>1
    <3>3. WalkUpTo(h, j)
      BY <1>2, <3>1, <3>2
    <3>4. h[j] = g[j]
      BY <2>2, <3>2, <3>3, WalkUpToAgrees
    <3>5. w[j] = h[j]
      BY <1>3, <3>1, <3>2
    <3>. QED  BY <2>3, <2>5, <3>1, <3>4, <3>5
  <2>. QED  BY <2>4, <2>5
<1>5. w = [k \in Nat |-> w[k]]
  BY <1>3
<1>6. IsWalk(w)
  BY <1>4, <1>5 DEF IsWalk
<1>. QED  BY <1>6

\* A walk of no link stays; a link and a walk make a walk one link longer.
LEMMA Walks ==
  /\ \A n \in Node : <<n, n>> \in Walk[0]
  /\ \A k \in Nat : \A l \in Link : \A m :
       <<l[2], m>> \in Walk[k] => <<l[1], m>> \in Walk[k + 1]
<1>1. IsWalk(Walk)
  BY WalkExists, Zenon DEF Walk, IsWalk, Extended, AtHome
<1>2. PICK w : w = Walk
  OBVIOUS
<1>3. \A k \in Nat : w[k] = IF k = 0 THEN AtHome ELSE Extended(w[k - 1])
  BY <1>1, <1>2 DEF IsWalk
<1>4. w[0] = AtHome
  BY <1>3
<1>5. ASSUME NEW k \in Nat, NEW l \in Link, NEW m, <<l[2], m>> \in w[k]
      PROVE  <<l[1], m>> \in w[k + 1]
  <2>1. k + 1 \in Nat /\ k + 1 # 0 /\ (k + 1) - 1 = k
    OBVIOUS
  <2>2. w[k + 1] = Extended(w[k])
    BY <1>3, <2>1
  <2>3. PICK p : p = <<l, <<l[2], m>>>>
    OBVIOUS
  <2>4. p \in Link \X w[k] /\ p[1][2] = p[2][1] /\ <<p[1][1], p[2][2]>> = <<l[1], m>>
    BY <1>5, <2>3
  <2>. QED  BY <2>2, <2>4 DEF Extended
<1>. QED  BY <1>2, <1>4, <1>5 DEF AtHome
(***************************************************************************)
(* Routes, requests and replies tell the truth about the topology           *)
(***************************************************************************)
\* The entries that a table of node n may hold.
Real(n) == {e \in Entry : <<n, e.nexthop>> \in Link /\ <<e.nexthop, e.dest>> \in Walk[e.cost]}

RoutesInv ==
  /\ route = [n \in Node |-> route[n]]
  /\ \A n \in Node : route[n] \in Tables(Real(n))

\* A request has come as many links as its hops say from its originator to its
\* sender, and a reply from the node that was looked for.
FrameIsReal(f) ==
  \/ f \in DataFrame
  \/ f \in RreqFrame /\ <<f.from, f.to>> \in Link /\ <<f.from, f.req.orig>> \in Walk[f.req.hops]
  \/ f \in RrepFrame /\ <<f.from, f.to>> \in Link /\ <<f.from, f.orig>> \in Walk[f.hops]

AirInv == \A f \in air : FrameIsReal(f)

\* So has the request that waits to be flooded on.
FloodInv == \A n \in Node : flood[n] # NULL => <<n, flood[n].orig>> \in Walk[flood[n].hops]

FieldsInv ==
  /\ pending \in [Node -> BOOLEAN]
  /\ timer \in [Node -> BOOLEAN]
  /\ last_flood \in [Node -> Seen]
  /\ last_rreq \in [Node -> Seen]
  /\ open \in [Node -> BOOLEAN]
  /\ delivered \subseteq Packet
  /\ opens \in [Node -> Nat]

RouteInv == RoutesInv /\ AirInv /\ FloodInv /\ FieldsInv

LEMMA RealIsAgeless == \A n \in Node : Ageless(Real(n))
<1>1. SUFFICES ASSUME NEW n \in Node, NEW e \in Real(n), NEW s \in 0..Lifetime - 1
               PROVE  [e EXCEPT !.time = s] \in Real(n)
  BY DEF Ageless, Real
<1>2. PICK g : g = [e EXCEPT !.time = s]
  OBVIOUS
<1>3. e \in Entry /\ <<n, e.nexthop>> \in Link /\ <<e.nexthop, e.dest>> \in Walk[e.cost]
  BY DEF Real
<1>4. g \in Entry /\ g.nexthop = e.nexthop /\ g.dest = e.dest /\ g.cost = e.cost
  BY <1>2, <1>3 DEF Entry
<1>. QED  BY <1>2, <1>3, <1>4 DEF Real

\* The next hop that a lookup returns is in range.
LEMMA NexthopInRange ==
  ASSUME NEW n \in Node, NEW t \in Tables(Real(n)), NEW d, Towards(t, d) # {}
  PROVE  t[route_lookup(t, d)].nexthop \in Node /\ <<n, t[route_lookup(t, d)].nexthop>> \in Link
<1>1. t \in Seq(Real(n)) /\ t \in Seq(Entry)
  <2>1. t \in Seq(Real(n)) /\ \A i \in 1..Len(t) : t[i] \in Real(n)
    BY DEF Tables
  <2>2. \A i \in 1..Len(t) : t[i] \in Entry
    BY <2>1 DEF Real
  <2>3. t \in [1..Len(t) -> Entry] /\ Len(t) \in Nat
    BY <2>1, <2>2
  <2>. QED  BY <2>1, <2>3
<1>2. PICK i : i = route_lookup(t, d)
  OBVIOUS
<1>3. i \in 1..Len(t)
  BY <1>1, <1>2, LookupFinds
<1>4. t[i] \in Real(n)
  BY <1>1, <1>3
<1>. QED  BY <1>2, <1>4 DEF Real, Entry

\* A neighbour and what it says of d make a route to d.
LEMMA RouteIsAdded ==
  ASSUME RoutesInv, NEW n \in Node, NEW d \in Node, NEW h \in Node, NEW c \in Nat,
         <<n, h>> \in Link, <<h, d>> \in Walk[c],
         route' = [route EXCEPT ![n] = route_add(@, d, h, c)]
  PROVE  /\ RoutesInv'
         /\ route'[n] \in Tables(Real(n)) /\ Towards(route'[n], d) # {}
<1>1. PICK r, t : r = route_add(t, d, h, c) /\ t = route[n]
  OBVIOUS
<1>2. t \in Tables(Real(n)) /\ Real(n) \in SUBSET Entry
  BY <1>1 DEF RoutesInv, Real
<1>3. [dest |-> d, nexthop |-> h, cost |-> c, time |-> 0] \in Real(n)
  BY RoomForRoutes DEF Real, Entry
<1>4. r \in Tables(Real(n)) /\ Towards(r, d) # {}
  BY <1>1, <1>2, <1>3, AddRoute
<1>5. route' = [route EXCEPT ![n] = r]
  BY <1>1
<1>6. route'[n] = r /\ route' = [m \in Node |-> route'[m]] /\ \A m \in Node \ {n} : route'[m] = route[m]
  BY <1>5 DEF RoutesInv
<1>. QED  BY <1>4, <1>6 DEF RoutesInv

LEMMA RouteIsRefreshed ==
  ASSUME RoutesInv, NEW n \in Node, NEW d,
         route' = [route EXCEPT ![n] = route_refresh(@, d)]
  PROVE  RoutesInv'
<1>1. PICK r, t : r = route_refresh(t, d) /\ t = route[n]
  OBVIOUS
<1>2. r \in Tables(Real(n))
  BY <1>1, RealIsAgeless, RefreshRoute DEF RoutesInv
<1>3. route' = [route EXCEPT ![n] = r]
  BY <1>1
<1>. QED  BY <1>2, <1>3 DEF RoutesInv

LEMMA RoutesAge ==
  ASSUME RoutesInv, NEW n \in Node, RoutePeriodic(n)
  PROVE  RoutesInv'
<1>1. PICK r, t : r = periodic(t) /\ t = route[n]
  OBVIOUS
<1>2. r \in Tables(Real(n))
  BY <1>1, RealIsAgeless, AgeRoutes DEF RoutesInv
<1>3. route' = [route EXCEPT ![n] = r]
  BY <1>1 DEF RoutePeriodic
<1>. QED  BY <1>2, <1>3 DEF RoutesInv

\* Frames in the air stay as they are.
LEMMA AirStays ==
  ASSUME AirInv, NEW frames, air' \subseteq air \cup frames, \A f \in frames : FrameIsReal(f)
  PROVE  AirInv'
BY DEF AirInv, FrameIsReal, DataFrame, RreqFrame, RrepFrame, Packet, Request, Seqno

\* What is sent: a packet to any node, a request by a node whose request is real,
\* a reply to a neighbour.
LEMMA UnicastIsReal ==
  ASSUME NEW n \in Node, NEW h \in Node, NEW pkt \in Packet
  PROVE  \A f \in Unicast(n, h, pkt) : FrameIsReal(f)
BY DEF Unicast, FrameIsReal, DataFrame

LEMMA BroadcastIsReal ==
  ASSUME NEW n \in Node, NEW r \in Request, <<n, r.orig>> \in Walk[r.hops]
  PROVE  \A f \in Broadcast(n, r) : FrameIsReal(f)
<1>1. SUFFICES ASSUME NEW l \in Link, l[1] = n,
                      NEW f, f = [type |-> "rreq", from |-> n, to |-> l[2], req |-> r]
               PROVE  FrameIsReal(f)
  BY DEF Broadcast
<1>2. l[2] \in Node /\ <<n, l[2]>> \in Link
  BY <1>1, MeshAssumption
<1>3. f \in RreqFrame /\ f.from = n /\ f.to = l[2] /\ f.req = r
  BY <1>1, <1>2 DEF RreqFrame
<1>. QED  BY <1>2, <1>3 DEF FrameIsReal

LEMMA ReplyIsReal ==
  ASSUME NEW n \in Node, NEW h \in Node, <<n, h>> \in Link, NEW d \in Node, NEW o \in Node,
         NEW c \in Nat, <<n, o>> \in Walk[c]
  PROVE  \A f \in Reply(n, h, d, o, c) : FrameIsReal(f)
<1>1. SUFFICES ASSUME NEW f,
                      f = [type |-> "rrep", from |-> n, to |-> h, dest |-> d, orig |-> o,
                           hops |-> c]
               PROVE  FrameIsReal(f)
  BY DEF Reply
<1>2. f \in RrepFrame /\ f.from = n /\ f.to = h /\ f.orig = o /\ f.hops = c
  BY <1>1 DEF RrepFrame
<1>. QED  BY <1>2 DEF FrameIsReal
\* Forwarding refreshes a route, or sends a request that starts at n.
LEMMA ForwardIsReal ==
  ASSUME BufferInv, RouteInv, NEW n \in Node, NEW pkt \in Packet,
         NEW rest \in SUBSET air, Forward(n, pkt, rest), open' = open
  PROVE  /\ RoutesInv' /\ AirInv' /\ FloodInv'
         /\ pending' \in [Node -> BOOLEAN] /\ timer' \in [Node -> BOOLEAN]
         /\ last_flood' \in [Node -> Seen] /\ last_rreq' \in [Node -> Seen]
<1>1. CASE ForwardAlongRoute(n, pkt, rest)
  <2>1. UNCHANGED <<pending, timer, last_flood, last_rreq, flood>>
    BY <1>1 DEF ForwardAlongRoute, discovery
  <2>2. RoutesInv'
    BY <1>1, RouteIsRefreshed DEF ForwardAlongRoute, RouteInv
  <2>3. PICK h : h = Nexthop(n, pkt.dst)
    OBVIOUS
  <2>4. h \in Node
    BY <1>1, <2>3, NexthopInRange DEF ForwardAlongRoute, HasRoute, Nexthop, RouteInv, RoutesInv
  <2>5. air' \subseteq rest \cup Unicast(n, h, pkt)
    BY <1>1, <2>3, TransmitAdds DEF ForwardAlongRoute
  <2>6. AirInv'
    BY <2>4, <2>5, UnicastIsReal, AirStays DEF RouteInv
  <2>. QED  BY <2>1, <2>2, <2>6 DEF RouteInv, FloodInv, FieldsInv
<1>2. CASE QueuePacket(n, pkt, rest)
  <2>1. UNCHANGED <<route, pending, timer, last_flood, last_rreq, flood>> /\ air' = rest
    BY <1>2 DEF QueuePacket, discovery
  <2>2. AirInv'
    BY <2>1 DEF RouteInv, AirInv
  <2>. QED  BY <2>1, <2>2 DEF RouteInv, RoutesInv, FloodInv, FieldsInv
<1>3. CASE QueueAndDiscover(n, pkt, rest)
  <2>1. PICK r : r = [orig |-> n, id |-> rreq_id[n], dest |-> pkt.dst, hops |-> 0]
    OBVIOUS
  <2>2. r \in Request /\ r.orig = n /\ r.hops = 0
    BY <2>1, MeshAssumption DEF Request, Packet, BufferInv, NodesInv
  <2>3. air' \subseteq rest \cup Broadcast(n, r)
    BY <1>3, <2>1, TransmitAdds DEF QueueAndDiscover
  <2>4. <<n, r.orig>> \in Walk[r.hops]
    BY <2>2, Walks
  <2>5. AirInv'
    BY <2>2, <2>3, <2>4, BroadcastIsReal, AirStays DEF RouteInv
  <2>6. route' = route /\ last_rreq' = last_rreq /\ flood' = [flood EXCEPT ![n] = NULL]
    BY <1>3 DEF QueueAndDiscover
  <2>7. RoutesInv' /\ last_rreq' \in [Node -> Seen]
    BY <2>6 DEF RouteInv, RoutesInv, FieldsInv
  <2>8. FloodInv'
    BY <2>6 DEF RouteInv, FloodInv, BufferInv, NodesInv
  <2>9. pending' \in [Node -> BOOLEAN] /\ timer' \in [Node -> BOOLEAN]
    BY <1>3 DEF QueueAndDiscover, Armed, RouteInv, FieldsInv
  <2>10. last_flood' \in [Node -> Seen]
    <3>1. PICK s : s = [orig |-> n, id |-> rreq_id[n]]
      OBVIOUS
    <3>2. s \in Seen
      BY <3>1 DEF Seen, BufferInv, NodesInv
    <3>3. last_flood' = [last_flood EXCEPT ![n] = s]
      BY <1>3, <3>1 DEF QueueAndDiscover
    <3>. QED  BY <3>2, <3>3 DEF RouteInv, FieldsInv
  <2>. QED  BY <2>5, <2>7, <2>8, <2>9, <2>10
<1>. QED  BY <1>1, <1>2, <1>3 DEF Forward

\* mesh_send.
LEMMA SendIsReal ==
  ASSUME BufferInv, RouteInv, NEW n \in Node, NEW d \in Destination \ {n}, Send(n, d)
  PROVE  RouteInv'
<1>1. PICK pkt : pkt = [src |-> n, num |-> sends[n] + 1, dst |-> d]
  OBVIOUS
<1>2. pkt \in Packet
  BY <1>1, MeshAssumption DEF Packet, BufferInv, NodesInv
<1>3. Forward(n, pkt, air) /\ UNCHANGED <<open, delivered, opens>>
  BY <1>1 DEF Send
<1>4. air \in SUBSET air
  OBVIOUS
<1>5. /\ RoutesInv' /\ AirInv' /\ FloodInv'
      /\ pending' \in [Node -> BOOLEAN] /\ timer' \in [Node -> BOOLEAN]
      /\ last_flood' \in [Node -> Seen] /\ last_rreq' \in [Node -> Seen]
  BY <1>2, <1>3, <1>4, ForwardIsReal
<1>. QED  BY <1>3, <1>5 DEF RouteInv, FieldsInv

\* A data frame is received.
LEMMA DataIsReal ==
  ASSUME BufferInv, RouteInv, NEW n \in Node, NEW f \in air,
         RecvData(n, f) \/ RecvDataForOther(n, f)
  PROVE  RouteInv'
<1>1. f.pkt \in Packet
  BY DEF RecvData, RecvDataForOther, BufferInv, FramesInv
<1>2. CASE RecvData(n, f)
  <2>1. RoutesInv'
    BY <1>2, RouteIsRefreshed DEF RecvData, RouteInv
  <2>2. UNCHANGED <<pending, timer, last_flood, last_rreq, flood, open, opens>>
        /\ air' \subseteq air /\ delivered' = delivered \cup {f.pkt}
    BY <1>2 DEF RecvData, discovery
  <2>3. AirInv'
    BY <2>2 DEF RouteInv, AirInv
  <2>. QED  BY <1>1, <2>1, <2>2, <2>3 DEF RouteInv, FloodInv, FieldsInv
<1>3. CASE RecvDataForOther(n, f)
  <2>1. Forward(n, f.pkt, air \ {f}) /\ UNCHANGED <<open, delivered, opens>>
    BY <1>3 DEF RecvDataForOther, ghosts
  <2>2. /\ RoutesInv' /\ AirInv' /\ FloodInv'
        /\ pending' \in [Node -> BOOLEAN] /\ timer' \in [Node -> BOOLEAN]
        /\ last_flood' \in [Node -> Seen] /\ last_rreq' \in [Node -> Seen]
    BY <1>1, <2>1, ForwardIsReal
  <2>. QED  BY <2>1, <2>2 DEF RouteInv, FieldsInv
<1>. QED  BY <1>2, <1>3

\* What a request in the air says.
LEMMA RequestIsReal ==
  ASSUME AirInv, NEW f \in air, f.type = "rreq"
  PROVE  /\ f.req \in Request /\ f.from \in Node /\ f.to \in Node
         /\ <<f.to, f.from>> \in Link /\ <<f.from, f.req.orig>> \in Walk[f.req.hops]
<1>1. FrameIsReal(f) /\ f \notin DataFrame /\ f \notin RrepFrame
  BY DEF AirInv, DataFrame, RrepFrame
<1>2. f \in RreqFrame /\ <<f.from, f.to>> \in Link /\ <<f.from, f.req.orig>> \in Walk[f.req.hops]
  BY <1>1 DEF FrameIsReal
<1>. QED  BY <1>2, MeshAssumption DEF RreqFrame

\* What a reply in the air says.
LEMMA ReplyInAirIsReal ==
  ASSUME AirInv, NEW f \in air, f.type = "rrep"
  PROVE  /\ f.orig \in Node /\ f.dest \in Node /\ f.hops \in Nat /\ f.from \in Node /\ f.to \in Node
         /\ <<f.to, f.from>> \in Link /\ <<f.from, f.orig>> \in Walk[f.hops]
<1>1. FrameIsReal(f) /\ f \notin DataFrame /\ f \notin RreqFrame
  BY DEF AirInv, DataFrame, RreqFrame
<1>2. f \in RrepFrame /\ <<f.from, f.to>> \in Link /\ <<f.from, f.orig>> \in Walk[f.hops]
  BY <1>1 DEF FrameIsReal
<1>. QED  BY <1>2, MeshAssumption DEF RrepFrame

\* A request is received.
LEMMA RequestsAreReal ==
  ASSUME BufferInv, RouteInv, NEW n \in Node, NEW f \in air,
         \/ RecvOldRequest(n, f) \/ RecvRequestForMe(n, f)
         \/ RecvRequestForOther(n, f) \/ RecvRequestNotForwarded(n, f)
  PROVE  RouteInv'
<1>1. f.type = "rreq" /\ f.to = n
  BY DEF RecvOldRequest, RecvRequestForMe, RecvRequestForOther, RecvRequestNotForwarded,
         NewRequest, IsRequestAt
<1>2. PICK r : r = f.req
  OBVIOUS
<1>3. /\ r \in Request /\ f.from \in Node
      /\ <<n, f.from>> \in Link /\ <<f.from, r.orig>> \in Walk[r.hops]
  BY <1>1, <1>2, RequestIsReal DEF RouteInv
<1>4. r.orig \in Node /\ r.id \in Seqno /\ r.hops \in Nat /\ r.hops \in 0..HopsMax
  BY <1>3, MeshAssumption DEF Request
<1>5. FloodHeard(n, r) \in {NULL, flood[n]}
  BY DEF FloodHeard
<1>6. ASSUME flood' = [flood EXCEPT ![n] = FloodHeard(n, r)]
      PROVE  FloodInv'
  BY <1>5, <1>6 DEF RouteInv, FloodInv, BufferInv, NodesInv
<1>7. /\ [orig |-> r.orig, id |-> r.id] \in Seen
  BY <1>4 DEF Seen
<1>8. CASE RecvOldRequest(n, f)
  <2>1. /\ UNCHANGED <<route, pending, timer, last_flood, last_rreq, open, delivered, opens>>
        /\ air' \subseteq air /\ flood' = [flood EXCEPT ![n] = FloodHeard(n, r)]
    BY <1>2, <1>8 DEF RecvOldRequest, ghosts
  <2>2. AirInv' /\ FloodInv'
    BY <1>6, <2>1 DEF RouteInv, AirInv
  <2>. QED  BY <2>1, <2>2 DEF RouteInv, RoutesInv, FieldsInv
<1>9. CASE NewRequest(n, f)
  <2>1. /\ UNCHANGED <<pending, timer, open, delivered, opens>>
        /\ last_rreq' = [last_rreq EXCEPT ![n] = [orig |-> r.orig, id |-> r.id]]
        /\ route' = [route EXCEPT ![n] = route_add(@, r.orig, f.from, r.hops)]
    BY <1>2, <1>9 DEF NewRequest, ghosts
  <2>2. /\ RoutesInv'
        /\ route'[n] \in Tables(Real(n)) /\ Towards(route'[n], r.orig) # {}
    BY <1>3, <1>4, <2>1, RouteIsAdded DEF RouteInv
  <2>3. last_rreq' \in [Node -> Seen]
    BY <1>7, <2>1 DEF RouteInv, FieldsInv
  <2>4. SUFFICES AirInv' /\ FloodInv' /\ last_flood' \in [Node -> Seen]
    BY <2>1, <2>2, <2>3 DEF RouteInv, FieldsInv
  <2>5. CASE RecvRequestForMe(n, f)
    <3>1. PICK h : h = route'[n][route_lookup(route'[n], r.orig)].nexthop
      OBVIOUS
    <3>2. h \in Node /\ <<n, h>> \in Link
      BY <2>2, <3>1, NexthopInRange
    <3>3. air' \subseteq (air \ {f}) \cup Reply(n, h, r.orig, n, 0)
      BY <1>2, <2>5, <3>1, TransmitAdds DEF RecvRequestForMe
    <3>4. \A g \in Reply(n, h, r.orig, n, 0) : FrameIsReal(g)
      <4>1. <<n, n>> \in Walk[0]
        BY Walks
      <4>. QED  BY <1>4, <3>2, <4>1, ReplyIsReal
    <3>5. AirInv'
      BY <3>3, <3>4, AirStays DEF RouteInv
    <3>6. last_flood' = last_flood /\ flood' = [flood EXCEPT ![n] = FloodHeard(n, r)]
      BY <1>2, <2>5 DEF RecvRequestForMe
    <3>. QED  BY <1>6, <3>5, <3>6 DEF RouteInv, FieldsInv
  <2>6. CASE RecvRequestForOther(n, f)
    <3>1. /\ flood' = [flood EXCEPT ![n] = Further(r)] /\ r.hops < HopsMax
          /\ last_flood' = [last_flood EXCEPT ![n] = [orig |-> r.orig, id |-> r.id]]
          /\ air' \subseteq air
      BY <1>2, <2>6 DEF RecvRequestForOther, CanForwardFlood
    <3>2. PICK g : g = Further(r)
      OBVIOUS
    <3>3. g.orig = r.orig /\ g.hops = r.hops + 1
      BY <1>3, <3>2 DEF Further, Request
    <3>4. PICK l : l = <<n, f.from>>
      OBVIOUS
    <3>5. l \in Link /\ <<l[2], r.orig>> \in Walk[r.hops] /\ l[1] = n
      BY <1>3, <3>4
    <3>6. <<n, r.orig>> \in Walk[r.hops + 1]
      BY <1>4, <3>5, Walks
    <3>7. FloodInv'
      BY <3>1, <3>2, <3>3, <3>6 DEF RouteInv, FloodInv, BufferInv, NodesInv
    <3>8. last_flood' \in [Node -> Seen]
      BY <1>7, <3>1 DEF RouteInv, FieldsInv
    <3>. QED  BY <3>1, <3>7, <3>8 DEF RouteInv, AirInv
  <2>7. CASE RecvRequestNotForwarded(n, f)
    <3>1. /\ last_flood' = last_flood /\ air' \subseteq air
          /\ flood' = [flood EXCEPT ![n] = FloodHeard(n, r)]
      BY <1>2, <2>7 DEF RecvRequestNotForwarded
    <3>. QED  BY <1>6, <3>1 DEF RouteInv, AirInv, FieldsInv
  <2>. QED
    BY <1>9, <2>5, <2>6, <2>7 DEF NewRequest, RecvOldRequest
<1>. QED
  BY <1>8, <1>9 DEF RecvRequestForMe, RecvRequestForOther, RecvRequestNotForwarded

\* A reply is received.
LEMMA RepliesAreReal ==
  ASSUME BufferInv, RouteInv, NEW n \in Node, NEW f \in air,
         RecvReplyForOther(n, f) \/ RecvReplySends(n, f) \/ RecvReplyOnly(n, f)
  PROVE  RouteInv'
<1>1. f.type = "rrep" /\ f.to = n /\ RouteAdded(n, f)
  BY DEF RecvReplyForOther, RecvReplySends, RecvReplyOnly, ReplyForMe, IsReplyAt
<1>2. /\ f.orig \in Node /\ f.dest \in Node /\ f.hops \in Nat /\ f.from \in Node
      /\ <<n, f.from>> \in Link /\ <<f.from, f.orig>> \in Walk[f.hops]
  BY <1>1, ReplyInAirIsReal DEF RouteInv
<1>3. /\ RoutesInv'
      /\ route'[n] \in Tables(Real(n)) /\ Towards(route'[n], f.orig) # {}
  BY <1>1, <1>2, RouteIsAdded DEF RouteAdded, RouteInv
<1>4. CASE RecvReplyForOther(n, f)
  <2>1. UNCHANGED <<pending, timer, last_flood, last_rreq, flood, open, delivered, opens>>
    BY <1>4 DEF RecvReplyForOther, discovery, ghosts
  <2>2. PICK h, s : /\ h = route'[n][route_lookup(route'[n], f.dest)].nexthop
                    /\ s = IF Towards(route'[n], f.dest) = {} THEN {}
                           ELSE Reply(n, h, f.dest, f.orig, f.hops + 1)
    OBVIOUS
  <2>3. air' \subseteq (air \ {f}) \cup s
    BY <1>4, <2>2, TransmitAdds DEF RecvReplyForOther
  <2>4. \A g \in s : FrameIsReal(g)
    <3>1. CASE Towards(route'[n], f.dest) = {}
      BY <2>2, <3>1
    <3>2. CASE Towards(route'[n], f.dest) # {}
      <4>1. h \in Node /\ <<n, h>> \in Link
        BY <1>3, <2>2, <3>2, NexthopInRange
      <4>2. PICK l : l = <<n, f.from>>
        OBVIOUS
      <4>3. l \in Link /\ <<l[2], f.orig>> \in Walk[f.hops] /\ l[1] = n
        BY <1>2, <4>2
      <4>4. <<n, f.orig>> \in Walk[f.hops + 1] /\ f.hops + 1 \in Nat
        BY <1>2, <4>3, Walks
      <4>5. \A g \in Reply(n, h, f.dest, f.orig, f.hops + 1) : FrameIsReal(g)
        BY <1>2, <4>1, <4>4, ReplyIsReal
      <4>. QED  BY <2>2, <3>2, <4>5
    <3>. QED  BY <3>1, <3>2
  <2>5. AirInv'
    BY <2>3, <2>4, AirStays DEF RouteInv
  <2>. QED  BY <1>3, <2>1, <2>5 DEF RouteInv, FloodInv, FieldsInv
<1>5. CASE ReplyForMe(n, f)
  <2>1. UNCHANGED <<last_flood, last_rreq, flood, open, delivered, opens>>
    BY <1>5 DEF ReplyForMe, ghosts
  <2>2. pending' \in [Node -> BOOLEAN] /\ timer' \in [Node -> BOOLEAN]
    BY <1>5 DEF ReplyForMe, NotPending, RouteInv, FieldsInv
  <2>3. SUFFICES AirInv'
    BY <1>3, <2>1, <2>2 DEF RouteInv, FloodInv, FieldsInv
  <2>4. CASE RecvReplySends(n, f)
    <3>1. PICK h : h = route'[n][route_lookup(route'[n], f.orig)].nexthop
      OBVIOUS
    <3>2. h \in Node
      BY <1>3, <3>1, NexthopInRange
    <3>3. queued[n] \in Packet
      BY <2>4 DEF RecvReplySends, Awaits, BufferInv, NodesInv
    <3>4. air' \subseteq (air \ {f}) \cup Unicast(n, h, queued[n])
      BY <2>4, <3>1, TransmitAdds DEF RecvReplySends
    <3>. QED  BY <3>2, <3>3, <3>4, UnicastIsReal, AirStays DEF RouteInv
  <2>5. CASE RecvReplyOnly(n, f)
    BY <2>5 DEF RecvReplyOnly, RouteInv, AirInv
  <2>. QED  BY <1>5, <2>4, <2>5 DEF RecvReplyForOther, ReplyForMe
<1>. QED  BY <1>4, <1>5 DEF RecvReplySends, RecvReplyOnly

\* The timers, and closing and opening the connection.
LEMMA OtherIsReal ==
  ASSUME BufferInv, RouteInv, NEW n \in Node,
         FloodOn(n) \/ DiscoveryTimesOut(n) \/ RoutePeriodic(n) \/ Close(n) \/ Open(n)
  PROVE  RouteInv'
<1>1. CASE FloodOn(n)
  <2>1. /\ UNCHANGED <<route, pending, timer, last_flood, last_rreq, open, delivered, opens>>
        /\ flood[n] # NULL /\ flood' = [flood EXCEPT ![n] = NULL]
    BY <1>1 DEF FloodOn, ghosts
  <2>2. PICK r : r = flood[n]
    OBVIOUS
  <2>3. r \in Request /\ <<n, r.orig>> \in Walk[r.hops]
    BY <2>1, <2>2 DEF RouteInv, FloodInv, BufferInv, NodesInv
  <2>4. air' \subseteq air \cup Broadcast(n, r)
    BY <1>1, <2>2, TransmitAdds DEF FloodOn
  <2>5. AirInv'
    BY <2>3, <2>4, BroadcastIsReal, AirStays DEF RouteInv
  <2>6. FloodInv'
    BY <2>1 DEF RouteInv, FloodInv, BufferInv, NodesInv
  <2>. QED  BY <2>1, <2>5, <2>6 DEF RouteInv, RoutesInv, FieldsInv
<1>2. CASE DiscoveryTimesOut(n)
  <2>1. UNCHANGED <<route, last_flood, last_rreq, flood, open, air, delivered, opens>>
    BY <1>2 DEF DiscoveryTimesOut, ghosts
  <2>2. pending' \in [Node -> BOOLEAN] /\ timer' \in [Node -> BOOLEAN]
    BY <1>2 DEF DiscoveryTimesOut, NotPending, RouteInv, FieldsInv
  <2>. QED  BY <2>1, <2>2 DEF RouteInv, RoutesInv, AirInv, FloodInv, FieldsInv
<1>3. CASE RoutePeriodic(n)
  <2>1. RoutesInv'
    BY <1>3, RoutesAge DEF RouteInv
  <2>2. UNCHANGED <<pending, timer, last_flood, last_rreq, flood, open, air, delivered, opens>>
    BY <1>3 DEF RoutePeriodic, discovery, ghosts
  <2>. QED  BY <2>1, <2>2 DEF RouteInv, AirInv, FloodInv, FieldsInv
<1>4. CASE Close(n)
  <2>1. /\ UNCHANGED <<route, pending, last_flood, last_rreq, air, delivered, opens>>
        /\ flood' = [flood EXCEPT ![n] = NULL]
    BY <1>4 DEF Close, ghosts
  <2>2. open' \in [Node -> BOOLEAN] /\ timer' \in [Node -> BOOLEAN]
    BY <1>4 DEF Close, RouteInv, FieldsInv
  <2>3. FloodInv'
    BY <2>1 DEF RouteInv, FloodInv, BufferInv, NodesInv
  <2>. QED  BY <2>1, <2>2, <2>3 DEF RouteInv, RoutesInv, AirInv, FieldsInv
<1>5. CASE Open(n)
  <2>1. /\ UNCHANGED <<pending, timer, last_flood, last_rreq, flood, air, delivered>>
        /\ route' = [route EXCEPT ![n] = << >>]
    BY <1>5 DEF Open, discovery
  <2>2. open' \in [Node -> BOOLEAN] /\ opens' \in [Node -> Nat]
    BY <1>5 DEF Open, RouteInv, FieldsInv
  <2>3. << >> \in Tables(Real(n))
    BY RoomForRoutes DEF Tables
  <2>4. RoutesInv'
    BY <2>1, <2>3 DEF RouteInv, RoutesInv
  <2>. QED  BY <2>1, <2>2, <2>4 DEF RouteInv, AirInv, FloodInv, FieldsInv
<1>. QED  BY <1>1, <1>2, <1>3, <1>4, <1>5

LEMMA RouteInit == Init => RouteInv
<1>1. SUFFICES ASSUME Init PROVE RouteInv
  OBVIOUS
<1>2. RoutesInv
  <2>1. \A n \in Node : << >> \in Tables(Real(n))
    BY RoomForRoutes DEF Tables
  <2>. QED  BY <1>1, <2>1 DEF Init, RoutesInv
<1>3. [orig |-> Nobody, id |-> 0] \in Seen
  BY MeshAssumption DEF Seen, Seqno
<1>4. FieldsInv
  BY <1>1, <1>3 DEF Init, FieldsInv
<1>. QED  BY <1>1, <1>2, <1>4 DEF Init, RouteInv, AirInv, FloodInv

LEMMA RouteStep == BufferInv /\ RouteInv /\ [Next]_vars => RouteInv'
<1>. SUFFICES ASSUME BufferInv, RouteInv, [Next]_vars
              PROVE  RouteInv'
  OBVIOUS
<1>1. CASE \E n \in Node : \E d \in Destination \ {n} : Send(n, d)
  BY <1>1, SendIsReal
<1>2. CASE \E n \in Node, f \in air : Recv(n, f)
  BY <1>2, DataIsReal, RequestsAreReal, RepliesAreReal DEF Recv
<1>3. CASE \E n \in Node :
             FloodOn(n) \/ DiscoveryTimesOut(n) \/ RoutePeriodic(n) \/ Close(n) \/ Open(n)
  BY <1>3, OtherIsReal
<1>4. CASE UNCHANGED vars
  BY <1>4 DEF vars, discovery, ghosts, RouteInv, RoutesInv, AirInv, FloodInv, FieldsInv
<1>. QED  BY <1>1, <1>2, <1>3, <1>4 DEF Next

\* Both invariants hold in every reachable state.
LEMMA RouteInvHolds == Spec => [](BufferInv /\ RouteInv)
<1>1. BufferInv /\ RouteInv /\ [Next]_vars => (BufferInv /\ RouteInv)'
  BY BufferStep, RouteStep
<1>. QED  BY BufferInit, RouteInit, <1>1, PTL DEF Spec

\* The tables, queues, numbers and frames of every node are what mesh.c and the
\* modules below it declare, and no routing table is longer than NUM_RT_ENTRIES.
THEOREM TypeCorrect == Spec => []TypeOK
<1>1. BufferInv /\ RouteInv => TypeOK
  <2>1. SUFFICES ASSUME BufferInv, RouteInv PROVE TypeOK
    OBVIOUS
  <2>2. \A n \in Node :
          Len(route[n]) <= NumRtEntries /\ \A i \in DOMAIN route[n] : route[n][i] \in Entry
    <3>1. SUFFICES ASSUME NEW n \in Node, NEW t, t = route[n]
                   PROVE  Len(t) <= NumRtEntries /\ \A i \in DOMAIN t : t[i] \in Entry
      OBVIOUS
    <3>2. t \in Seq(Real(n)) /\ Len(t) <= NumRtEntries
      BY <2>1, <3>1 DEF RouteInv, RoutesInv, Tables
    <3>3. \A i \in DOMAIN t : t[i] \in Real(n)
      BY <3>2
    <3>. QED  BY <3>2, <3>3 DEF Real
  <2>3. free \in [Node -> 0..QueuebufNum]
    <3>1. SUFFICES ASSUME NEW n \in Node PROVE free[n] \in 0..QueuebufNum
      BY <2>1 DEF BufferInv, NodesInv
    <3>2. free[n] \in Nat /\ free[n] + Held(queued[n]) + Held(flood[n]) = QueuebufNum
      BY <2>1 DEF BufferInv, NodesInv, BuffersAccounted
    <3>3. Held(queued[n]) \in Nat /\ Held(flood[n]) \in Nat
      BY DEF Held
    <3>. QED  BY <3>2, <3>3
  <2>4. air \subseteq DataFrame \cup RreqFrame \cup RrepFrame
    BY <2>1 DEF RouteInv, AirInv, FrameIsReal
  <2>. QED
    BY <2>1, <2>2, <2>3, <2>4 DEF TypeOK, BufferInv, NodesInv, RouteInv, FieldsInv
<1>. QED  BY <1>1, RouteInvHolds, PTL

\* However requests and replies of several discoveries mix, are lost or overtake
\* each other, every route is one that the topology has, of the length that its
\* cost says (route.c:100-146, route-discovery.c:131-282).
THEOREM RoutesAreReal == Spec => []RouteCostsAreReal
<1>1. RouteInv => RouteCostsAreReal
  <2>1. SUFFICES ASSUME RouteInv, NEW n \in Node, NEW i \in DOMAIN route[n]
                 PROVE  route[n][i] \in Real(n)
    BY DEF RouteCostsAreReal, Real
  <2>2. PICK t : t = route[n]
    OBVIOUS
  <2>3. t \in Seq(Real(n))
    BY <2>1, <2>2 DEF RouteInv, RoutesInv, Tables
  <2>. QED  BY <2>1, <2>2, <2>3
<1>. QED  BY <1>1, RouteInvHolds, PTL
(***************************************************************************)
(* A packet is in one place at most                                         *)
(***************************************************************************)
\* No two frames and no two nodes hold the same packet, nor a frame and a node;
\* what they hold is not delivered; and all of it was handed over before.
OnceInv ==
  /\ \A f, g \in air : f.type = "data" /\ g.type = "data" /\ f.pkt = g.pkt => f = g
  /\ \A m, n \in Node : queued[m] # NULL /\ queued[m] = queued[n] => m = n
  /\ \A f \in air : \A n \in Node : f.type = "data" => queued[n] # f.pkt
  /\ \A f \in air : f.type = "data" => f.pkt \notin delivered /\ f.pkt.num <= sends[f.pkt.src]
  /\ \A n \in Node :
       queued[n] # NULL => queued[n] \notin delivered /\ queued[n].num <= sends[queued[n].src]
  /\ \A p \in delivered : p.num <= sends[p.src]

\* A packet that is nowhere yet.
Nowhere(pkt, rest) ==
  /\ \A f \in rest : f.type = "data" => f.pkt # pkt
  /\ \A m \in Node : queued[m] # pkt
  /\ pkt \notin delivered

Given == \A p \in Packet : p.num <= sends[p.src] => p.num <= sends'[p.src]

LEMMA WhatIsHeld ==
  ASSUME BufferInv, RouteInv
  PROVE  /\ \A f \in air : f.type = "data" => f.pkt \in Packet /\ f.pkt # NULL
         /\ \A n \in Node : queued[n] # NULL => queued[n] \in Packet
         /\ delivered \subseteq Packet
BY NullAssumption DEF BufferInv, FramesInv, NodesInv, RouteInv, FieldsInv

\* It is sent,
LEMMA SentOnce ==
  ASSUME BufferInv, RouteInv, OnceInv, NEW n, NEW h, NEW pkt \in Packet, NEW rest \in SUBSET air,
         Nowhere(pkt, rest), air' \subseteq rest \cup Unicast(n, h, pkt),
         queued' = queued, delivered' = delivered,
         Given, pkt.num <= sends'[pkt.src]
  PROVE  OnceInv'
<1>1. \A f \in air' : f \in rest \/ (f.pkt = pkt /\ f = [type |-> "data", from |-> n, to |-> h, pkt |-> pkt])
  BY DEF Unicast
<1>2. \A f, g \in air' : f.type = "data" /\ g.type = "data" /\ f.pkt = g.pkt => f = g
  BY <1>1 DEF OnceInv, Nowhere
<1>3. \A f \in air' : \A m \in Node : f.type = "data" => queued'[m] # f.pkt
  BY <1>1 DEF OnceInv, Nowhere
<1>4. \A f \in air' : f.type = "data" => f.pkt \notin delivered' /\ f.pkt.num <= sends'[f.pkt.src]
  BY <1>1, WhatIsHeld DEF OnceInv, Nowhere, Given
<1>5. \A m \in Node :
        queued'[m] # NULL => queued'[m] \notin delivered' /\ queued'[m].num <= sends'[queued'[m].src]
  BY WhatIsHeld DEF OnceInv, Given
<1>6. \A p \in delivered' : p.num <= sends'[p.src]
  BY WhatIsHeld DEF OnceInv, Given
<1>. QED  BY <1>2, <1>3, <1>4, <1>5, <1>6 DEF OnceInv

\* or queued, if there is a buffer for it, and requests or replies are sent.
LEMMA QueuedOnce ==
  ASSUME BufferInv, RouteInv, OnceInv, NEW n \in Node, NEW pkt \in Packet,
         NEW rest \in SUBSET air, Nowhere(pkt, rest),
         NEW s, \A f \in s : f.type # "data", air' \subseteq rest \cup s,
         queued'[n] \in {pkt, NULL}, \A m \in Node \ {n} : queued'[m] = queued[m],
         delivered' = delivered, Given, pkt.num <= sends'[pkt.src]
  PROVE  OnceInv'
<1>1. \A f \in air' : f.type = "data" => f \in rest /\ f \in air
  OBVIOUS
<1>2. \A f, g \in air' : f.type = "data" /\ g.type = "data" /\ f.pkt = g.pkt => f = g
  BY <1>1 DEF OnceInv
<1>3. \A f \in air' : \A m \in Node : f.type = "data" => queued'[m] # f.pkt
  BY <1>1, WhatIsHeld DEF OnceInv, Nowhere
<1>4. \A f \in air' : f.type = "data" => f.pkt \notin delivered' /\ f.pkt.num <= sends'[f.pkt.src]
  BY <1>1, WhatIsHeld DEF OnceInv, Given
<1>5. \A m \in Node :
        queued'[m] # NULL => queued'[m] \notin delivered' /\ queued'[m].num <= sends'[queued'[m].src]
  BY WhatIsHeld DEF OnceInv, Given, Nowhere
<1>6. \A p \in delivered' : p.num <= sends'[p.src]
  BY WhatIsHeld DEF OnceInv, Given
<1>7. \A l, m \in Node : queued'[l] # NULL /\ queued'[l] = queued'[m] => l = m
  BY DEF OnceInv, Nowhere
<1>. QED  BY <1>2, <1>3, <1>4, <1>5, <1>6, <1>7 DEF OnceInv

LEMMA ForwardedOnce ==
  ASSUME BufferInv, RouteInv, OnceInv, NEW n \in Node, NEW pkt \in Packet,
         NEW rest \in SUBSET air, Nowhere(pkt, rest), Forward(n, pkt, rest),
         delivered' = delivered, Given, pkt.num <= sends'[pkt.src]
  PROVE  OnceInv'
<1>1. CASE ForwardAlongRoute(n, pkt, rest)
  <2>1. PICK h : h = Nexthop(n, pkt.dst)
    OBVIOUS
  <2>2. air' \subseteq rest \cup Unicast(n, h, pkt) /\ queued' = queued
    BY <1>1, <2>1, TransmitAdds DEF ForwardAlongRoute
  <2>. QED  BY <2>2, SentOnce
<1>2. ASSUME Queue(n, pkt)
      PROVE  queued'[n] \in {pkt, NULL} /\ \A m \in Node \ {n} : queued'[m] = queued[m]
  BY <1>2 DEF Queue, BufferInv, NodesInv
<1>3. CASE QueuePacket(n, pkt, rest)
  <2>1. PICK s : s = {}
    OBVIOUS
  <2>2. air' \subseteq rest \cup s /\ Queue(n, pkt) /\ \A f \in s : f.type # "data"
    BY <1>3, <2>1 DEF QueuePacket
  <2>. QED  BY <1>2, <2>2, QueuedOnce
<1>4. CASE QueueAndDiscover(n, pkt, rest)
  <2>1. PICK s : s = Broadcast(n, [orig |-> n, id |-> rreq_id[n], dest |-> pkt.dst, hops |-> 0])
    OBVIOUS
  <2>2. air' \subseteq rest \cup s /\ Queue(n, pkt)
    BY <1>4, <2>1, TransmitAdds DEF QueueAndDiscover
  <2>3. \A f \in s : f.type # "data"
    BY <2>1 DEF Broadcast
  <2>. QED  BY <1>2, <2>2, <2>3, QueuedOnce
<1>. QED  BY <1>1, <1>3, <1>4 DEF Forward

\* Requests and replies are sent, frames are taken from the air and packets are
\* given up.
LEMMA OthersAreOnce ==
  ASSUME OnceInv, NEW s, \A f \in s : f.type # "data", air' \subseteq air \cup s,
         \A m \in Node : queued'[m] = queued[m] \/ queued'[m] = NULL,
         NULL \notin Packet, BufferInv,
         delivered' = delivered, sends' = sends
  PROVE  OnceInv'
<1>1. \A f \in air' : f.type = "data" => f \in air /\ f.pkt # NULL
  BY DEF BufferInv, FramesInv
<1>. QED  BY <1>1 DEF OnceInv

LEMMA OnceSend ==
  ASSUME BufferInv, RouteInv, OnceInv, NEW n \in Node, NEW d \in Destination \ {n}, Send(n, d)
  PROVE  OnceInv'
<1>1. PICK k, pkt : k = sends[n] /\ pkt = [src |-> n, num |-> k + 1, dst |-> d]
  OBVIOUS
<1>2. k \in Nat /\ sends' = [sends EXCEPT ![n] = k + 1] /\ sends \in [Node -> Nat]
  BY <1>1 DEF Send, BufferInv, NodesInv
<1>3. pkt \in Packet /\ pkt.num = k + 1 /\ pkt.src = n /\ pkt # NULL
  BY <1>1, <1>2, MeshAssumption, NullAssumption DEF Packet
<1>4. Given /\ pkt.num <= sends'[pkt.src]
  <2>1. pkt.num <= sends'[pkt.src]
    BY <1>2, <1>3
  <2>2. ASSUME NEW p \in Packet, p.num <= sends[p.src]
        PROVE  p.num <= sends'[p.src]
    <3>1. PICK i, o : i = p.num /\ o = p.src
      OBVIOUS
    <3>2. i \in Nat /\ o \in Node /\ i <= sends[o]
      BY <2>2, <3>1 DEF Packet
    <3>3. CASE o = n
      <4>1. sends'[o] = k + 1 /\ i <= k
        BY <1>1, <1>2, <3>2, <3>3
      <4>. QED  BY <1>2, <3>1, <3>2, <4>1
    <3>4. CASE o # n
      <4>1. sends'[o] = sends[o]
        BY <1>2, <3>2, <3>4
      <4>. QED  BY <3>1, <3>2, <4>1
    <3>. QED  BY <3>3, <3>4
  <2>. QED  BY <2>1, <2>2 DEF Given
<1>5. ~(pkt.num <= sends[pkt.src])
  BY <1>1, <1>2, <1>3
<1>6. Nowhere(pkt, air)
  BY <1>3, <1>5 DEF Nowhere, OnceInv
<1>7. Forward(n, pkt, air) /\ delivered' = delivered /\ air \in SUBSET air
  BY <1>1 DEF Send
<1>. QED  BY <1>3, <1>4, <1>6, <1>7, ForwardedOnce

LEMMA OnceData ==
  ASSUME BufferInv, RouteInv, OnceInv, NEW n \in Node, NEW f \in air,
         RecvData(n, f) \/ RecvDataForOther(n, f)
  PROVE  OnceInv'
<1>1. PICK pkt : pkt = f.pkt
  OBVIOUS
<1>2. f.type = "data" /\ pkt \in Packet /\ pkt # NULL
  BY <1>1, WhatIsHeld DEF RecvData, RecvDataForOther
<1>3. Nowhere(pkt, air \ {f}) /\ pkt.num <= sends[pkt.src]
  BY <1>1, <1>2 DEF Nowhere, OnceInv
<1>4. CASE RecvData(n, f)
  <2>1. UNCHANGED <<queued, sends>> /\ air' = air \ {f} /\ delivered' = delivered \cup {pkt}
    BY <1>1, <1>4 DEF RecvData
  <2>. QED  BY <1>3, <2>1 DEF Nowhere, OnceInv
<1>5. CASE RecvDataForOther(n, f)
  <2>1. Forward(n, pkt, air \ {f}) /\ UNCHANGED <<sends, delivered>>
    BY <1>1, <1>5 DEF RecvDataForOther, ghosts
  <2>2. Given /\ pkt.num <= sends'[pkt.src]
    BY <1>3, <2>1 DEF Given
  <2>3. air \ {f} \in SUBSET air
    OBVIOUS
  <2>. QED  BY <1>2, <1>3, <2>1, <2>2, <2>3, ForwardedOnce
<1>. QED  BY <1>4, <1>5

LEMMA OnceControl ==
  ASSUME BufferInv, RouteInv, OnceInv, NEW n \in Node, NEW f \in air,
         \/ RecvOldRequest(n, f) \/ RecvRequestForMe(n, f)
         \/ RecvRequestForOther(n, f) \/ RecvRequestNotForwarded(n, f)
         \/ RecvReplyForOther(n, f) \/ RecvReplyOnly(n, f)
  PROVE  OnceInv'
<1>1. UNCHANGED <<queued, delivered, sends>>
  BY DEF RecvOldRequest, RecvRequestForMe, RecvRequestForOther, RecvRequestNotForwarded,
         NewRequest, RecvReplyForOther, RecvReplyOnly, ReplyForMe, ghosts
<1>2. ASSUME NEW h, NEW d, NEW o, NEW c
      PROVE  \A g \in Reply(n, h, d, o, c) : g.type # "data"
  BY DEF Reply
<1>3. \E s : air' \subseteq air \cup s /\ \A g \in s : g.type # "data"
  <2>1. CASE RecvRequestForMe(n, f)
    <3>1. PICK h : air' \subseteq (air \ {f}) \cup Reply(n, h, f.req.orig, n, 0)
      BY <2>1, TransmitAdds DEF RecvRequestForMe
    <3>. QED  BY <1>2, <3>1
  <2>2. CASE RecvReplyForOther(n, f)
    <3>1. PICK h, s : /\ s = IF Towards(route'[n], f.dest) = {} THEN {}
                             ELSE Reply(n, h, f.dest, f.orig, f.hops + 1)
                      /\ air' \subseteq (air \ {f}) \cup s
      BY <2>2, TransmitAdds DEF RecvReplyForOther
    <3>2. \A g \in s : g.type # "data"
      BY <1>2, <3>1
    <3>. QED  BY <3>1, <3>2
  <2>3. CASE \/ RecvOldRequest(n, f) \/ RecvRequestForOther(n, f)
             \/ RecvRequestNotForwarded(n, f) \/ RecvReplyOnly(n, f)
    <3>1. PICK s : s = {}
      OBVIOUS
    <3>2. air' \subseteq air \cup s /\ \A g \in s : g.type # "data"
      BY <3>1, <2>3 DEF RecvOldRequest, RecvRequestForOther, RecvRequestNotForwarded, RecvReplyOnly
    <3>. QED  BY <3>2
  <2>. QED  BY <2>1, <2>2, <2>3
<1>. QED  BY <1>1, <1>3, OthersAreOnce, NullAssumption

\* A packet that waited for the route is sent.
LEMMA OnceReply ==
  ASSUME BufferInv, RouteInv, OnceInv, NEW n \in Node, NEW f \in air, RecvReplySends(n, f)
  PROVE  OnceInv'
<1>1. PICK pkt, h : /\ pkt = queued[n]
                    /\ h = route'[n][route_lookup(route'[n], f.orig)].nexthop
  OBVIOUS
<1>2. /\ air' \subseteq (air \ {f}) \cup Unicast(n, h, pkt) /\ pkt # NULL
      /\ queued' = [queued EXCEPT ![n] = NULL] /\ UNCHANGED <<delivered, sends>>
  BY <1>1, TransmitAdds DEF RecvReplySends, ReplyForMe, Awaits, Dequeued, ghosts
<1>3. queued'[n] = NULL /\ \A m \in Node \ {n} : queued'[m] = queued[m] /\ queued'[m] # pkt
  BY <1>1, <1>2 DEF OnceInv, BufferInv, NodesInv
<1>4. \A g \in air' : \/ g \in air
                      \/ g.pkt = pkt /\ g = [type |-> "data", from |-> n, to |-> h, pkt |-> pkt]
  BY <1>2 DEF Unicast
<1>5. \A g \in air : g.type = "data" => g.pkt # pkt /\ g.pkt # NULL
  BY <1>1, WhatIsHeld DEF OnceInv
<1>6. \A g, i \in air' : g.type = "data" /\ i.type = "data" /\ g.pkt = i.pkt => g = i
  BY <1>4, <1>5 DEF OnceInv
<1>7. \A g \in air' : \A m \in Node : g.type = "data" => queued'[m] # g.pkt
  BY <1>2, <1>3, <1>4, <1>5 DEF OnceInv
<1>8. \A g \in air' : g.type = "data" => g.pkt \notin delivered /\ g.pkt.num <= sends[g.pkt.src]
  BY <1>1, <1>2, <1>4 DEF OnceInv
<1>9. /\ \A l, m \in Node : queued'[l] # NULL /\ queued'[l] = queued'[m] => l = m
      /\ \A m \in Node : queued'[m] # NULL => queued'[m] = queued[m]
  BY <1>3 DEF OnceInv
<1>. QED  BY <1>2, <1>6, <1>7, <1>8, <1>9 DEF OnceInv

LEMMA OnceTimers ==
  ASSUME BufferInv, OnceInv, NEW n \in Node,
         FloodOn(n) \/ DiscoveryTimesOut(n) \/ RoutePeriodic(n) \/ Close(n) \/ Open(n)
  PROVE  OnceInv'
<1>1. delivered' = delivered /\ sends' = sends
  BY DEF FloodOn, DiscoveryTimesOut, RoutePeriodic, Close, Open, ghosts
<1>2. \A m \in Node : queued'[m] = queued[m] \/ queued'[m] = NULL
  BY DEF FloodOn, DiscoveryTimesOut, RoutePeriodic, Close, Open, Dequeued, BufferInv, NodesInv
<1>3. \E s : air' \subseteq air \cup s /\ \A g \in s : g.type # "data"
  <2>1. CASE FloodOn(n)
    <3>1. air' \subseteq air \cup Broadcast(n, flood[n])
      BY <2>1, TransmitAdds DEF FloodOn
    <3>2. \A g \in Broadcast(n, flood[n]) : g.type # "data"
      BY DEF Broadcast
    <3>. QED  BY <3>1, <3>2
  <2>2. CASE DiscoveryTimesOut(n) \/ RoutePeriodic(n) \/ Close(n) \/ Open(n)
    <3>1. PICK s : s = {}
      OBVIOUS
    <3>2. air' \subseteq air \cup s /\ \A g \in s : g.type # "data"
      BY <3>1, <2>2 DEF DiscoveryTimesOut, RoutePeriodic, Close, Open
    <3>. QED  BY <3>2
  <2>. QED  BY <2>1, <2>2
<1>. QED  BY <1>1, <1>2, <1>3, OthersAreOnce, NullAssumption

LEMMA OnceStep == BufferInv /\ RouteInv /\ OnceInv /\ [Next]_vars => OnceInv'
<1>. SUFFICES ASSUME BufferInv, RouteInv, OnceInv, [Next]_vars
              PROVE  OnceInv'
  OBVIOUS
<1>1. CASE \E n \in Node : \E d \in Destination \ {n} : Send(n, d)
  BY <1>1, OnceSend
<1>2. CASE \E n \in Node, f \in air : Recv(n, f)
  BY <1>2, OnceData, OnceControl, OnceReply DEF Recv
<1>3. CASE \E n \in Node :
             FloodOn(n) \/ DiscoveryTimesOut(n) \/ RoutePeriodic(n) \/ Close(n) \/ Open(n)
  BY <1>3, OnceTimers
<1>4. CASE UNCHANGED vars
  BY <1>4 DEF vars, ghosts, OnceInv
<1>. QED  BY <1>1, <1>2, <1>3, <1>4 DEF Next

\* What OnceInv says, counted.
LEMMA OneCopy ==
  ASSUME OnceInv, BufferInv
  PROVE  PacketIsUnique
<1>1. /\ \A S : S = {} => Cardinality(S) = 0
      /\ \A S, x : S = {x} => Cardinality(S) = 1
  BY FS_EmptySet, FS_Singleton
<1>2. ASSUME NEW f \in air, f.type = "data"
      PROVE  Copies(f.pkt) = 1
  <2>1. PICK p : p = f.pkt
    OBVIOUS
  <2>2. {g \in air : g.type = "data" /\ g.pkt = p} = {f}
    BY <1>2, <2>1 DEF OnceInv
  <2>3. {m \in Node : queued[m] = p} = {}
    BY <1>2, <2>1 DEF OnceInv
  <2>4. p \notin delivered
    BY <1>2, <2>1 DEF OnceInv
  <2>5. /\ Cardinality({g \in air : g.type = "data" /\ g.pkt = p}) = 1
        /\ Cardinality({m \in Node : queued[m] = p}) = 0
    BY <1>1, <2>2, <2>3
  <2>. QED  BY <2>1, <2>4, <2>5 DEF Copies
<1>3. ASSUME NEW n \in Node, queued[n] # NULL
      PROVE  Copies(queued[n]) = 1
  <2>1. PICK p : p = queued[n]
    OBVIOUS
  <2>2. {g \in air : g.type = "data" /\ g.pkt = p} = {}
    BY <2>1 DEF OnceInv
  <2>3. {m \in Node : queued[m] = p} = {n}
    BY <1>3, <2>1 DEF OnceInv
  <2>4. p \notin delivered
    BY <1>3, <2>1 DEF OnceInv
  <2>5. /\ Cardinality({g \in air : g.type = "data" /\ g.pkt = p}) = 0
        /\ Cardinality({m \in Node : queued[m] = p}) = 1
    BY <1>1, <2>2, <2>3
  <2>. QED  BY <2>1, <2>4, <2>5 DEF Copies
<1>. QED  BY <1>2, <1>3 DEF PacketIsUnique

\* However replies, timeouts and new packets meet, a packet is in one place at
\* most: in the air, queued at one node or delivered (mesh.c:96-103, 113-137,
\* 148-176).
THEOREM PacketsAreUnique == Spec => []PacketIsUnique
<1>1. Init => OnceInv
  BY DEF Init, OnceInv
<1>2. BufferInv /\ RouteInv /\ OnceInv /\ [Next]_vars => (BufferInv /\ RouteInv /\ OnceInv)'
  BY BufferStep, RouteStep, OnceStep
<1>3. BufferInv /\ OnceInv => PacketIsUnique
  BY OneCopy
<1>. QED  BY BufferInit, RouteInit, <1>1, <1>2, <1>3, PTL DEF Spec

=============================================================================
