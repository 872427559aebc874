------------------------------- MODULE Mesh -------------------------------
(***************************************************************************)
(* Multi-hop unicast with routes found on demand: net/rime/mesh.c over     *)
(* multihop.c, route.c, route-discovery.c, netflood.c and ipolite.c, with   *)
(* one mesh connection on each node of a fixed topology.                    *)
(*                                                                          *)
(* A call into mesh (mesh_send, a frame received, a timer) runs to its end   *)
(* in the main loop, down to the radio, and is one step.  Timers fire at     *)
(* any time.  A frame may be lost on the way to each node that could hear    *)
(* it, and frames may overtake each other.                                   *)
(***************************************************************************)
EXTENDS Integers, FiniteSets, SequencesExt

CONSTANTS
  Node,          \* the nodes
  Link,          \* pairs of nodes in radio range of each other
  Nobody,        \* linkaddr_null, in the zeroed connection structures
  NULL,          \* a null pointer to a queue buffer
  Destination,   \* nodes that applications send packets to
  NumRtEntries,  \* NUM_RT_ENTRIES, the size of the routing table
  Lifetime,      \* max_time: seconds after which an unused route is dropped
  HopsMax,       \* HOPS_MAX of netflood
  SeqSpace,      \* the request number is a uint8_t on the air
  QueuebufNum,   \* QUEUEBUF_NUM, the node's pool of queue buffers
  MaxInFlight,   \* bound: frames sent and not yet received
  MaxSends,      \* bound: packets the application of a node hands over
  MaxOpens       \* bound: times the connection of a node is closed and opened again

ASSUME MeshAssumption ==
  /\ Link \subseteq Node \X Node
  /\ \A l \in Link : <<l[2], l[1]>> \in Link /\ l[1] # l[2]
  /\ Nobody \notin Node
  /\ Destination \subseteq Node
  /\ NumRtEntries \in Nat \ {0}
  /\ Lifetime \in Nat \ {0}
  /\ HopsMax \in Nat
  /\ SeqSpace \in Nat \ {0}
  /\ QueuebufNum \in Nat
  /\ MaxInFlight \in Nat
  /\ MaxSends \in [Node -> Nat]
  /\ MaxOpens \in [Node -> Nat]

VARIABLES
  route,       \* route_table of each node, the entry added last first
  queued,      \* queued_data: the packet that waits for a route
  pending,     \* rrep_pending
  timer,       \* whether the ctimer of route discovery is armed
  rreq_id,     \* number of the next request
  last_flood,  \* last_originator and last_originator_seqno of netflood
  last_rreq,   \* last_rreq_originator and last_rreq_id of route discovery
  flood,       \* q of ipolite: the request that waits to be flooded on
  free,        \* free queue buffers
  open,        \* whether the mesh connection is open
  air,         \* frames sent and not yet received, one for each node that will hear it
  sends,       \* ghost: packets handed over by each application
  delivered,   \* ghost: packets passed to a recv callback
  opens        \* ghost: calls of mesh_open after the first

discovery == <<pending, timer, rreq_id, last_flood, last_rreq, flood>>
ghosts == <<sends, delivered, opens>>
vars == <<route, queued, discovery, free, open, air, ghosts>>

Seqno == 0 .. SeqSpace - 1
Entry == [dest : Node, nexthop : Node, cost : Nat, time : 0 .. Lifetime - 1]
Packet == [src : Node, num : Nat, dst : Node]
Request == [orig : Node, id : Seqno, dest : Node, hops : 0 .. HopsMax]
Seen == [orig : Node \cup {Nobody}, id : Seqno]

DataFrame == [type : {"data"}, from : Node, to : Node, pkt : Packet]
RreqFrame == [type : {"rreq"}, from : Node, to : Node, req : Request]
RrepFrame == [type : {"rrep"}, from : Node, to : Node, dest : Node, orig : Node,
              hops : Nat]

\* A null pointer points to no buffer.
ASSUME NullAssumption == NULL \notin Packet \cup Request

TypeOK ==
  /\ \A n \in Node :
       Len(route[n]) <= NumRtEntries /\ \A i \in DOMAIN route[n] : route[n][i] \in Entry
  /\ queued \in [Node -> Packet \cup {NULL}]
  /\ pending \in [Node -> BOOLEAN]
  /\ timer \in [Node -> BOOLEAN]
  /\ rreq_id \in [Node -> Seqno]
  /\ last_flood \in [Node -> Seen]
  /\ last_rreq \in [Node -> Seen]
  /\ flood \in [Node -> Request \cup {NULL}]
  /\ free \in [Node -> 0 .. QueuebufNum]
  /\ open \in [Node -> BOOLEAN]
  /\ air \subseteq DataFrame \cup RreqFrame \cup RrepFrame
  /\ sends \in [Node -> Nat]
  /\ delivered \subseteq Packet
  /\ opens \in [Node -> Nat]

Init ==
  /\ route = [n \in Node |-> << >>]
  /\ queued = [n \in Node |-> NULL]
  /\ pending = [n \in Node |-> FALSE]
  /\ timer = [n \in Node |-> FALSE]
  /\ rreq_id = [n \in Node |-> 0]
  /\ last_flood = [n \in Node |-> [orig |-> Nobody, id |-> 0]]
  /\ last_rreq = [n \in Node |-> [orig |-> Nobody, id |-> 0]]
  /\ flood = [n \in Node |-> NULL]
  /\ free = [n \in Node |-> QueuebufNum]
  /\ open = [n \in Node |-> TRUE]
  /\ air = {}
  /\ sends = [n \in Node |-> 0]
  /\ delivered = {}
  /\ opens = [n \in Node |-> 0]

-----------------------------------------------------------------------------
(* route.c                                                                  *)

Towards(t, d) == {i \in DOMAIN t : t[i].dest = d}
HasRoute(n, d) == Towards(route[n], d) # {}

\* route_lookup: the position of the cheapest entry, of several the newest.
route_lookup(t, d) ==
  CHOOSE i \in Towards(t, d) :
    \A j \in Towards(t, d) : t[i].cost < t[j].cost \/ (t[i].cost = t[j].cost /\ i <= j)

Nexthop(n, d) == route[n][route_lookup(route[n], d)].nexthop

\* fault: a full table is not made to give up its oldest entry
AddedToFull(t, d, h, c) == <<[dest |-> d, nexthop |-> h, cost |-> c, time |-> 0]>> \o t

\* route_add: the best route to d is replaced if it has the same next hop;
\* otherwise there is a new entry, in place of the oldest if the table is full.
route_add(t, d, h, c) ==
  LET kept == IF Towards(t, d) # {} /\ t[route_lookup(t, d)].nexthop = h
                THEN RemoveAt(t, route_lookup(t, d))
              ELSE IF Len(t) = NumRtEntries THEN Front(t) ELSE t
  IN <<[dest |-> d, nexthop |-> h, cost |-> c, time |-> 0]>> \o kept

route_refresh(t, d) ==
  IF Towards(t, d) = {} THEN t ELSE [t EXCEPT ![route_lookup(t, d)].time = 0]

\* periodic: every entry gets one second older, up to the first that is too old.
\* That one is removed, and as list_remove clears its next pointer the loop
\* ends with it.
periodic(t) ==
  LET old == {i \in DOMAIN t : t[i].time + 1 >= Lifetime}
      first == CHOOSE i \in old : \A j \in old : i <= j
      aged == [i \in DOMAIN t |->
                 IF old = {} \/ i < first THEN [t[i] EXCEPT !.time = @ + 1] ELSE t[i]]
  IN IF old = {} THEN aged ELSE RemoveAt(aged, first)

RoutePeriodic(n) ==
  /\ route' = [route EXCEPT ![n] = periodic(@)]
  /\ UNCHANGED <<queued, discovery, free, open, air, ghosts>>

-----------------------------------------------------------------------------
(* Frames                                                                    *)

\* The frames are sent; each is heard or lost.  rest is the air without the
\* frame that has just been received.
Transmit(rest, frames) ==
  \E heard \in SUBSET frames :
    /\ Cardinality(rest \cup heard) <= MaxInFlight
    /\ air' = rest \cup heard

Held(b) == IF b = NULL THEN 0 ELSE 1

Unicast(n, h, pkt) == {[type |-> "data", from |-> n, to |-> h, pkt |-> pkt]}

\* broadcast_send of a request: a frame for every node in range.
Broadcast(n, r) ==
  {[type |-> "rreq", from |-> n, to |-> l[2], req |-> r] : l \in {k \in Link : k[1] = n}}

Reply(n, h, d, o, c) ==
  {[type |-> "rrep", from |-> n, to |-> h, dest |-> d, orig |-> o, hops |-> c]}

-----------------------------------------------------------------------------
(* data_packet_forward of mesh.c, for a packet of the node's own application *)
(* or one received for another node.                                         *)

ForwardAlongRoute(n, pkt, rest) ==
  /\ HasRoute(n, pkt.dst)
  /\ route' = [route EXCEPT ![n] = route_refresh(@, pkt.dst)]
  /\ Transmit(rest, Unicast(n, Nexthop(n, pkt.dst), pkt))
  /\ UNCHANGED <<queued, discovery, free>>

NotCleared(n) == queued   \* fault: queued_data still points to the freed buffer
Dequeued(n) == [queued EXCEPT ![n] = NULL]

NeverArmed(n) == timer    \* fault: the request has no time limit
Armed(n) == [timer EXCEPT ![n] = TRUE]

StillPending(n) == pending   \* fault: the next request is refused
NotPending(n) == [pending EXCEPT ![n] = FALSE]

\* The packet takes the place of the one queued before, whose buffer is freed
\* first; without a free buffer nothing is queued.
LeakedAvailable(n) == free[n]   \* fault: the buffer of the replaced packet is not freed
Available(n) == free[n] + Held(queued[n])
Queue(n, pkt) == queued' = [queued EXCEPT ![n] = IF Available(n) > 0 THEN pkt ELSE NULL]
FreeAfterQueue(n) == IF Available(n) > 0 THEN Available(n) - 1 ELSE 0

\* No route, and route_discovery_discover refuses: a request is pending.
QueuePacket(n, pkt, rest) ==
  /\ ~HasRoute(n, pkt.dst)
  /\ pending[n]
  /\ Queue(n, pkt)
  /\ free' = [free EXCEPT ![n] = FreeAfterQueue(n)]
  /\ air' = rest
  /\ UNCHANGED <<route, discovery>>

\* No route, and a request is sent: netflood_send remembers it as the last
\* flood, and ipolite_send drops a flood that waits and broadcasts at once.
QueueAndDiscover(n, pkt, rest) ==
  /\ ~HasRoute(n, pkt.dst)
  /\ ~pending[n]
  /\ Queue(n, pkt)
  /\ free' = [free EXCEPT ![n] = FreeAfterQueue(n) + Held(flood[n])]
  /\ flood' = [flood EXCEPT ![n] = NULL]
  /\ timer' = Armed(n)
  /\ pending' = [pending EXCEPT ![n] = TRUE]
  /\ last_flood' = [last_flood EXCEPT ![n] = [orig |-> n, id |-> rreq_id[n]]]
  /\ rreq_id' = [rreq_id EXCEPT ![n] = (@ + 1) % SeqSpace]
  /\ Transmit(rest, Broadcast(n, [orig |-> n, id |-> rreq_id[n], dest |-> pkt.dst, hops |-> 0]))
  /\ UNCHANGED <<route, last_rreq>>

Forward(n, pkt, rest) ==
  \/ ForwardAlongRoute(n, pkt, rest)
  \/ QueuePacket(n, pkt, rest)
  \/ QueueAndDiscover(n, pkt, rest)

\* mesh_send
Send(n, d) ==
  /\ open[n]
  /\ sends[n] < MaxSends[n]
  /\ sends' = [sends EXCEPT ![n] = @ + 1]
  /\ Forward(n, [src |-> n, num |-> sends[n] + 1, dst |-> d], air)
  /\ UNCHANGED <<open, delivered, opens>>

\* data_packet_received of multihop.c and, for the node itself, of mesh.c.
RecvData(n, f) ==
  /\ f.type = "data" /\ f.to = n /\ open[n] /\ f.pkt.dst = n
  /\ route' = [route EXCEPT ![n] = route_refresh(@, f.pkt.src)]
  /\ air' = air \ {f}
  /\ delivered' = delivered \cup {f.pkt}
  /\ UNCHANGED <<queued, discovery, free, open, sends, opens>>

RecvDataForOther(n, f) ==
  /\ f.type = "data" /\ f.to = n /\ open[n] /\ f.pkt.dst # n
  /\ Forward(n, f.pkt, air \ {f})
  /\ UNCHANGED <<open, ghosts>>

-----------------------------------------------------------------------------
(* A request is received: recv of ipolite.c, recv_from_ipolite of netflood.c *)
(* and rreq_packet_received of route-discovery.c.                            *)

\* ipolite drops the flood that waits if it hears a copy of it (maxdups is 1).
HearsCopy(n, r) == flood[n] # NULL /\ flood[n].orig = r.orig /\ flood[n].id = r.id
FloodHeard(n, r) == IF HearsCopy(n, r) THEN NULL ELSE flood[n]
FreeHeard(n, r) == IF HearsCopy(n, r) THEN free[n] + 1 ELSE free[n]

\* The filters of netflood and of route discovery.
NotNew(n, r) ==
  \/ last_flood[n].orig = r.orig /\ r.id <= last_flood[n].id
  \/ last_rreq[n] = [orig |-> r.orig, id |-> r.id]

IsRequestAt(n, f) == f.type = "rreq" /\ f.to = n /\ open[n]

RecvOldRequest(n, f) ==
  /\ IsRequestAt(n, f)
  /\ NotNew(n, f.req)
  /\ flood' = [flood EXCEPT ![n] = FloodHeard(n, f.req)]
  /\ free' = [free EXCEPT ![n] = FreeHeard(n, f.req)]
  /\ air' = air \ {f}
  /\ UNCHANGED <<route, queued, pending, timer, rreq_id, last_flood, last_rreq, open, ghosts>>

NewRequest(n, f) ==
  /\ IsRequestAt(n, f)
  /\ ~NotNew(n, f.req)
  /\ last_rreq' = [last_rreq EXCEPT ![n] = [orig |-> f.req.orig, id |-> f.req.id]]
  /\ route' = [route EXCEPT ![n] = route_add(@, f.req.orig, f.from, f.req.hops)]
  /\ UNCHANGED <<queued, pending, timer, rreq_id, open, ghosts>>

\* The request is for this node: send_rrep.
RecvRequestForMe(n, f) ==
  /\ NewRequest(n, f)
  /\ f.req.dest = n
  /\ flood' = [flood EXCEPT ![n] = FloodHeard(n, f.req)]
  /\ free' = [free EXCEPT ![n] = FreeHeard(n, f.req)]
  /\ LET t == route'[n] IN
     Transmit(air \ {f}, Reply(n, t[route_lookup(t, f.req.orig)].nexthop, f.req.orig, n, 0))
  /\ UNCHANGED last_flood

\* It is for another node: netflood forwards the copy it made before, if there
\* was a queue buffer for it, after a while (ipolite_send).
SameHops(r) == r   \* fault: the copy is forwarded as it came
Further(r) == [r EXCEPT !.hops = @ + 1]
CanForwardFlood(n, r) == FreeHeard(n, r) > 0 /\ r.hops < HopsMax

RecvRequestForOther(n, f) ==
  /\ NewRequest(n, f)
  /\ f.req.dest # n
  /\ CanForwardFlood(n, f.req)
  /\ flood' = [flood EXCEPT ![n] = Further(f.req)]
  /\ free' = [free EXCEPT ![n] = FreeHeard(n, f.req) + Held(FloodHeard(n, f.req)) - 1]
  /\ last_flood' = [last_flood EXCEPT ![n] = [orig |-> f.req.orig, id |-> f.req.id]]
  /\ air' = air \ {f}

RecvRequestNotForwarded(n, f) ==
  /\ NewRequest(n, f)
  /\ f.req.dest # n
  /\ ~CanForwardFlood(n, f.req)
  /\ flood' = [flood EXCEPT ![n] = FloodHeard(n, f.req)]
  /\ free' = [free EXCEPT ![n] = FreeHeard(n, f.req)]
  /\ air' = air \ {f}
  /\ UNCHANGED last_flood

\* send of ipolite.c, the callback of its ctimer.
FloodOn(n) ==
  /\ flood[n] # NULL
  /\ Transmit(air, Broadcast(n, flood[n]))
  /\ flood' = [flood EXCEPT ![n] = NULL]
  /\ free' = [free EXCEPT ![n] = @ + 1]
  /\ UNCHANGED <<route, queued, pending, timer, rreq_id, last_flood, last_rreq, open, ghosts>>

-----------------------------------------------------------------------------
(* A reply is received: rrep_packet_received.                                *)

IsReplyAt(n, f) == f.type = "rrep" /\ f.to = n /\ open[n]
Awaits(n, d) == queued[n] # NULL /\ queued[n].dst = d
RouteAdded(n, f) == route' = [route EXCEPT ![n] = route_add(@, f.orig, f.from, f.hops)]

RecvReplyForOther(n, f) ==
  /\ IsReplyAt(n, f)
  /\ f.dest # n
  /\ RouteAdded(n, f)
  /\ LET t == route'[n] IN
     Transmit(air \ {f},
              IF Towards(t, f.dest) = {} THEN {}
              ELSE Reply(n, t[route_lookup(t, f.dest)].nexthop, f.dest, f.orig, f.hops + 1))
  /\ UNCHANGED <<queued, discovery, free, open, ghosts>>

\* The reply is for this node, for the present request or an earlier one.
ReplyForMe(n, f) ==
  /\ IsReplyAt(n, f)
  /\ f.dest = n
  /\ RouteAdded(n, f)
  /\ pending' = NotPending(n)
  /\ timer' = [timer EXCEPT ![n] = FALSE]
  /\ UNCHANGED <<rreq_id, last_flood, last_rreq, flood, open, ghosts>>

\* found_route sends the packet that waits for this route ...
RecvReplySends(n, f) ==
  /\ ReplyForMe(n, f)
  /\ Awaits(n, f.orig)
  /\ queued' = Dequeued(n)
  /\ free' = [free EXCEPT ![n] = @ + 1]
  /\ LET t == route'[n] IN
     Transmit(air \ {f}, Unicast(n, t[route_lookup(t, f.orig)].nexthop, queued[n]))

\* ... and leaves any other where it is.
RecvReplyOnly(n, f) ==
  /\ ReplyForMe(n, f)
  /\ ~Awaits(n, f.orig)
  /\ air' = air \ {f}
  /\ UNCHANGED <<queued, free>>

\* timeout_handler and route_timed_out.
DiscoveryTimesOut(n) ==
  /\ timer[n]
  /\ timer' = [timer EXCEPT ![n] = FALSE]
  /\ pending' = NotPending(n)
  /\ queued' = Dequeued(n)
  /\ free' = [free EXCEPT ![n] = @ + Held(queued[n])]
  /\ UNCHANGED <<route, rreq_id, last_flood, last_rreq, flood, open, air, ghosts>>

-----------------------------------------------------------------------------
\* mesh_close: neither rrep_pending nor the queued packet is touched.
Close(n) ==
  /\ open[n]
  /\ opens[n] < MaxOpens[n]
  /\ open' = [open EXCEPT ![n] = FALSE]
  /\ timer' = [timer EXCEPT ![n] = FALSE]
  /\ flood' = [flood EXCEPT ![n] = NULL]
  /\ free' = [free EXCEPT ![n] = @ + Held(flood[n])]
  /\ UNCHANGED <<route, queued, pending, rreq_id, last_flood, last_rreq, air, ghosts>>

\* mesh_open again: route_init empties the routing table.
Open(n) ==
  /\ ~open[n]
  /\ open' = [open EXCEPT ![n] = TRUE]
  /\ opens' = [opens EXCEPT ![n] = @ + 1]
  /\ route' = [route EXCEPT ![n] = << >>]
  /\ UNCHANGED <<queued, discovery, free, air, sends, delivered>>

Recv(n, f) ==
  \/ RecvData(n, f)
  \/ RecvDataForOther(n, f)
  \/ RecvOldRequest(n, f)
  \/ RecvRequestForMe(n, f)
  \/ RecvRequestForOther(n, f)
  \/ RecvRequestNotForwarded(n, f)
  \/ RecvReplyForOther(n, f)
  \/ RecvReplySends(n, f)
  \/ RecvReplyOnly(n, f)

Next ==
  \/ \E n \in Node : \E d \in Destination \ {n} : Send(n, d)
  \/ \E n \in Node, f \in air : Recv(n, f)
  \/ \E n \in Node : FloodOn(n) \/ DiscoveryTimesOut(n) \/ RoutePeriodic(n)
  \/ \E n \in Node : Close(n) \/ Open(n)

\* The ctimer of a pending request expires; nothing is assumed of the radio.
Fairness == \A n \in Node : WF_vars(DiscoveryTimesOut(n))

Spec == Init /\ [][Next]_vars /\ Fairness

-----------------------------------------------------------------------------
(* Properties                                                               *)

\* Queue buffers are neither leaked nor freed twice when a packet is replaced,
\* sent or given up, and when a flood is sent, dropped or replaced.
BuffersAccounted ==
  \A n \in Node : free[n] + Held(queued[n]) + Held(flood[n]) = QueuebufNum

\* A packet is in one place at most, in the air, queued at one node or
\* delivered, however often replies, timeouts and new packets meet.
Copies(p) ==
  Cardinality({f \in air : f.type = "data" /\ f.pkt = p})
    + Cardinality({n \in Node : queued[n] = p})
    + (IF p \in delivered THEN 1 ELSE 0)
PacketIsUnique ==
  \A p \in {f.pkt : f \in {g \in air : g.type = "data"}}
           \cup {queued[n] : n \in {m \in Node : queued[m] # NULL}} : Copies(p) = 1

\* Pairs of nodes joined by a walk over exactly k links.
Walk[k \in Nat] ==
  IF k = 0 THEN {<<n, n>> : n \in Node}
  ELSE {<<p[1][1], p[2][2]>> : p \in {q \in Link \X Walk[k-1] : q[1][2] = q[2][1]}}

\* Every route is one the topology has: the next hop is in range, and from there
\* the destination is as many links away as the cost says, however requests and
\* replies of several discoveries mix.
RouteCostsAreReal ==
  \A n \in Node : \A i \in DOMAIN route[n] :
    LET e == route[n][i] IN
    /\ <<n, e.nexthop>> \in Link
    /\ <<e.nexthop, e.dest>> \in Walk[e.cost]

\* With one destination, a packet that waits for a route is looked for by a
\* request whose timer runs: discovery is never refused to it (route-discovery.c
\* ignores a request while another is pending) nor left without a time limit.
\* Not so for a connection that has been closed: mesh_close stops the timer and
\* leaves rrep_pending set.
QueuedIsPursued ==
  \A n \in Node : queued[n] # NULL /\ open[n] /\ opens[n] = 0 => pending[n] /\ timer[n]

\* A packet that waits for a route is transmitted or given up (the sent and
\* timedout callbacks of mesh.h), unless its connection is closed.
PacketLeavesQueue ==
  \A n \in Node :
    queued[n] # NULL /\ opens[n] = 0 ~> queued[n] = NULL \/ ~open[n] \/ opens[n] > 0
=============================================================================
