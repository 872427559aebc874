--------------------------- MODULE RunicastProofs ---------------------------
(***************************************************************************)
(* Proofs about Runicast, for every set of nodes and every value of the     *)
(* bounds.  For an application that does not send from its timedout         *)
(* callback also what runicast promises it: the number of transmissions it  *)
(* asked for, one verdict for each packet, and, altogether, the             *)
(* specification ReliableUnicast.                                           *)
(***************************************************************************)
EXTENDS Runicast, TLAPS

(***************************************************************************)
(* Arithmetic of the packet identifiers                                     *)
(***************************************************************************)

\* NextId stays within the identifiers the 2-bit attribute can carry.
LEMMA NextIdType == \A i \in Ids : NextId(i) \in Ids
  BY DEF NextId, Ids, IdSpace

\* Advancing sndnxt keeps it equal to the number of packets modulo 4.
LEMMA NextIdMod == \A k \in Nat : NextId(k % IdSpace) = (k + 1) % IdSpace
  BY DEF NextId, IdSpace

\* Identifiers of packets less than IdSpace apart tell them apart.
LEMMA IdsDistinct ==
  \A j, k \in Nat : j <= k /\ k - j < IdSpace /\ j % IdSpace = k % IdSpace => j = k
  BY DEF IdSpace

(***************************************************************************)
(* The operators on a connection                                            *)
(***************************************************************************)

\* An allocated buffer is never the null buffer.
LEMMA NoBufNotBuffer == NoBuf \notin Buffer
  BY DEF NoBuf, Buffer, Ids, IdSpace

\* runicast_send leaves a well-typed connection that holds a buffer and has
\* its timer armed.
LEMMA AcceptType ==
  ASSUME NEW c \in Conn, NEW k \in Nat, NEW r \in Node, NEW mx \in Byte
  PROVE  /\ Accept(c, k, r, mx) \in Conn
         /\ Accept(c, k, r, mx).buf \in Buffer
<1>1. [id |-> c.sndnxt, pkt |-> k, to |-> r] \in Buffer
  BY DEF Conn, Buffer
<1>2. Accept(c, k, r, mx) \in Conn
  BY <1>1 DEF Accept, Conn, Pointer, Byte
<1>. QED  BY <1>1, <1>2 DEF Accept

\* The failing runicast_send frees the old buffer and keeps the rest.
LEMMA NoBufferType ==
  ASSUME NEW c \in Conn, NEW mx \in Byte
  PROVE  /\ NoBuffer(c, mx) \in Conn
         /\ NoBuffer(c, mx).buf = NoBuf
         /\ NoBuffer(c, mx).open = c.open
         /\ NoBuffer(c, mx).is_tx = c.is_tx
         /\ NoBuffer(c, mx).sndnxt = c.sndnxt
         /\ NoBuffer(c, mx).timer = c.timer
<1>1. 0 \in Byte /\ NoBuf \in Pointer
  BY DEF Byte, Pointer
<1>. QED  BY <1>1 DEF NoBuffer, Conn

\* stunicast_cancel frees the buffer and disarms the timer, nothing else.
LEMMA CancelType ==
  ASSUME NEW c \in Conn
  PROVE  /\ stunicast_cancel(c) \in Conn
         /\ stunicast_cancel(c).buf = NoBuf
         /\ stunicast_cancel(c).timer = FALSE
         /\ stunicast_cancel(c).open = c.open
         /\ stunicast_cancel(c).is_tx = c.is_tx
         /\ stunicast_cancel(c).sndnxt = c.sndnxt
         /\ stunicast_cancel(c).max_rxmit = c.max_rxmit
<1>1. NoBuf \in Pointer
  BY DEF Pointer
<1>. QED  BY <1>1 DEF stunicast_cancel, Conn

\* Counting a transmission that is not the last one stays within a byte.
LEMMA CountType ==
  ASSUME NEW c \in Conn, ~LastTransmission(c)
  PROVE  /\ CountTransmission(c) \in Conn
         /\ CountTransmission(c).rxmit = c.rxmit + 1
         /\ CountTransmission(c).buf = c.buf
         /\ CountTransmission(c).timer = c.timer
         /\ CountTransmission(c).open = c.open
         /\ CountTransmission(c).is_tx = c.is_tx
         /\ CountTransmission(c).sndnxt = c.sndnxt
         /\ CountTransmission(c).max_rxmit = c.max_rxmit
<1>1. c.rxmit + 1 \in Byte
  BY DEF LastTransmission, Conn, Byte
<1>. QED  BY <1>1 DEF CountTransmission, Conn

\* Giving up a packet leaves an idle connection.
LEMMA GiveUpType ==
  ASSUME NEW c \in Conn
  PROVE  /\ GiveUp(c) \in Conn
         /\ GiveUp(c).buf = NoBuf
         /\ GiveUp(c).timer = FALSE
         /\ GiveUp(c).is_tx = FALSE
         /\ GiveUp(c).open = c.open
         /\ GiveUp(c).sndnxt = c.sndnxt
         /\ GiveUp(c).max_rxmit = c.max_rxmit
<1>1. PICK d \in Conn : d = stunicast_cancel(c) /\ d.buf = NoBuf /\ d.timer = FALSE /\ d.open = c.open
      /\ d.sndnxt = c.sndnxt /\ d.max_rxmit = c.max_rxmit
  BY CancelType
<1>2. GiveUp(c) = [d EXCEPT !.is_tx = FALSE]
  BY <1>1 DEF GiveUp
<1>. QED  BY <1>1, <1>2 DEF Conn

\* What runs after the timedout callback only touches rxmit and sndnxt.
LEMMA AfterTimedoutType ==
  ASSUME NEW c \in Conn
  PROVE  /\ AfterTimedout(c) \in Conn
         /\ AfterTimedout(c).sndnxt = NextId(c.sndnxt)
         /\ AfterTimedout(c).rxmit = 0
         /\ AfterTimedout(c).buf = c.buf
         /\ AfterTimedout(c).timer = c.timer
         /\ AfterTimedout(c).open = c.open
         /\ AfterTimedout(c).is_tx = c.is_tx
         /\ AfterTimedout(c).max_rxmit = c.max_rxmit
<1>1. NextId(c.sndnxt) \in Ids
  BY NextIdType DEF Conn
<1>2. 0 \in Byte
  BY DEF Byte
<1>. QED  BY <1>1, <1>2 DEF AfterTimedout, Conn

\* The two halves of a timeout without a send in between.
LEMMA ExpireType ==
  ASSUME NEW c \in Conn
  PROVE  /\ AfterTimedout(GiveUp(c)) \in Conn
         /\ AfterTimedout(GiveUp(c)).buf = NoBuf
         /\ AfterTimedout(GiveUp(c)).is_tx = FALSE
         /\ AfterTimedout(GiveUp(c)).timer = FALSE
         /\ AfterTimedout(GiveUp(c)).open = c.open
         /\ AfterTimedout(GiveUp(c)).sndnxt = NextId(c.sndnxt)
         /\ AfterTimedout(GiveUp(c)).max_rxmit = c.max_rxmit
<1>1. PICK g \in Conn : g = GiveUp(c) /\ g.buf = NoBuf /\ g.is_tx = FALSE
        /\ g.timer = FALSE /\ g.open = c.open /\ g.sndnxt = c.sndnxt
        /\ g.max_rxmit = c.max_rxmit
  BY GiveUpType
<1>2. /\ AfterTimedout(g) \in Conn /\ AfterTimedout(g).buf = NoBuf
      /\ AfterTimedout(g).is_tx = FALSE /\ AfterTimedout(g).timer = FALSE
      /\ AfterTimedout(g).open = c.open
      /\ AfterTimedout(g).sndnxt = NextId(c.sndnxt)
      /\ AfterTimedout(g).max_rxmit = c.max_rxmit
  BY <1>1, AfterTimedoutType
<1>. QED  BY <1>1, <1>2

\* An accepted acknowledgement leaves an idle connection at the next identifier.
LEMMA AcknowledgeType ==
  ASSUME NEW c \in Conn
  PROVE  /\ Acknowledge(c) \in Conn
         /\ Acknowledge(c).buf = NoBuf
         /\ Acknowledge(c).timer = FALSE
         /\ Acknowledge(c).is_tx = FALSE
         /\ Acknowledge(c).open = c.open
         /\ Acknowledge(c).sndnxt = NextId(c.sndnxt)
         /\ Acknowledge(c).max_rxmit = c.max_rxmit
<1>1. PICK d \in Conn : d = stunicast_cancel(c) /\ d.buf = NoBuf /\ d.timer = FALSE /\ d.open = c.open
      /\ d.sndnxt = c.sndnxt /\ d.max_rxmit = c.max_rxmit
  BY CancelType
<1>2. Acknowledge(c) = [d EXCEPT !.sndnxt = NextId(@), !.is_tx = FALSE]
  BY <1>1 DEF Acknowledge
<1>3. NextId(d.sndnxt) \in Ids
  BY <1>1, NextIdType DEF Conn
<1>. QED  BY <1>1, <1>2, <1>3 DEF Conn

\* Closing frees the buffer and leaves is_tx as it was.
LEMMA CloseType ==
  ASSUME NEW c \in Conn
  PROVE  /\ runicast_close(c) \in Conn
         /\ runicast_close(c).buf = NoBuf
         /\ runicast_close(c).open = FALSE
         /\ runicast_close(c).max_rxmit = c.max_rxmit
<1>1. PICK d \in Conn : d = stunicast_cancel(c) /\ d.buf = NoBuf
                        /\ d.max_rxmit = c.max_rxmit
  BY CancelType
<1>2. runicast_close(c) = [d EXCEPT !.open = FALSE]
  BY <1>1 DEF runicast_close
<1>. QED  BY <1>1, <1>2 DEF Conn

\* Opening starts the numbering again.
LEMMA OpenType ==
  ASSUME NEW c \in Conn
  PROVE  runicast_open(c) \in Conn
  BY DEF runicast_open, Conn, Ids, IdSpace, Byte

\* Re-arming the timer touches nothing else.
LEMMA TimerType ==
  ASSUME NEW c \in Conn, NEW t \in BOOLEAN
  PROVE  /\ [c EXCEPT !.timer = t] \in Conn
         /\ [c EXCEPT !.timer = t].timer = t
         /\ [c EXCEPT !.timer = t].buf = c.buf
         /\ [c EXCEPT !.timer = t].open = c.open
         /\ [c EXCEPT !.timer = t].is_tx = c.is_tx
         /\ [c EXCEPT !.timer = t].sndnxt = c.sndnxt
         /\ [c EXCEPT !.timer = t].rxmit = c.rxmit
         /\ [c EXCEPT !.timer = t].max_rxmit = c.max_rxmit
  BY DEF Conn

(***************************************************************************)
(* Type correctness and buffer accounting                                   *)
(***************************************************************************)

BufferInv == TypeOK /\ BuffersAccounted

\* A frame for a buffer of a connection is well typed.
LEMMA DataFrameType ==
  ASSUME NEW n \in Node, NEW c, c.buf \in Buffer
  PROVE  DataFrame(n, c) \in Frame
  BY DEF DataFrame, Frame, Buffer

\* What a step on node n's connection has to show for the whole network.
LEMMA ConnectionStep ==
  ASSUME BufferInv, NEW n \in Node, NEW d \in Conn, NEW f \in Nat,
         conn' = [conn EXCEPT ![n] = d],
         free' = [free EXCEPT ![n] = f],
         UNCHANGED other,
         f + other[n] + Held(d) = QueuebufNum,
         (d.buf # NoBuf) <=> (d.open /\ d.is_tx),
         d.open /\ d.is_tx => d.timer
  PROVE  /\ BuffersAccounted'
         /\ conn' \in [Node -> Conn]
         /\ free' \in [Node -> 0..QueuebufNum]
<1>1. Held(d) \in Nat /\ other[n] \in Nat /\ f <= QueuebufNum
  BY RunicastAssumption DEF Held, BufferInv, TypeOK
<1>2. conn' \in [Node -> Conn] /\ free' \in [Node -> 0..QueuebufNum]
  BY <1>1, RunicastAssumption DEF BufferInv, TypeOK
<1>3. ASSUME NEW k \in Node
      PROVE  /\ free'[k] + other'[k] + Held(conn'[k]) = QueuebufNum
             /\ (conn'[k].buf # NoBuf) <=> (conn'[k].open /\ conn'[k].is_tx)
             /\ conn'[k].open /\ conn'[k].is_tx => conn'[k].timer
  <2>1. CASE k = n
    BY <2>1 DEF BufferInv, TypeOK
  <2>2. CASE k # n
    <3>1. conn'[k] = conn[k] /\ free'[k] = free[k] /\ other'[k] = other[k]
      BY <2>2 DEF BufferInv, TypeOK
    <3>. QED  BY <3>1 DEF BufferInv, BuffersAccounted, Sending
  <2>. QED  BY <2>1, <2>2
<1>. QED  BY <1>2, <1>3 DEF BuffersAccounted, Sending, Held

\* A step that leaves the connections and the pool alone.
LEMMA QuietStep ==
  ASSUME BufferInv, UNCHANGED <<conn, free, other>>
  PROVE  BuffersAccounted'
  BY DEF BufferInv, BuffersAccounted, Sending, Held

LEMMA BufferInvInit == Init => BufferInv
  BY RunicastAssumption DEF Init, BufferInv, TypeOK, BuffersAccounted, Sending,
     Held, Conn, Pointer, Ids, IdSpace, Byte, NoBuf

LEMMA BufferInvSendNoBuffer ==
  ASSUME BufferInv, NEW n \in Node, NEW mx \in MaxRxmits, SendNoBuffer(n, mx)
  PROVE  BufferInv'
<1>. DEFINE d == NoBuffer(conn[n], mx)
<1>1. mx \in Byte /\ conn[n] \in Conn
  BY RunicastAssumption DEF BufferInv, TypeOK, Byte
<1>2. d \in Conn /\ d.buf = NoBuf /\ d.is_tx = conn[n].is_tx
      /\ d.open = conn[n].open
  BY <1>1, NoBufferType
<1>3. Held(d) = 0 /\ Held(conn[n]) = 0 /\ ~conn[n].is_tx
  BY <1>2 DEF SendNoBuffer, CanSend, Held, BufferInv, TypeOK
<1>4. free[n] \in Nat /\ free[n] + other[n] + Held(d) = QueuebufNum
  BY <1>3 DEF BufferInv, TypeOK, BuffersAccounted
<1>5. conn' = [conn EXCEPT ![n] = d] /\ free' = [free EXCEPT ![n] = free[n]]
      /\ UNCHANGED other
  BY DEF SendNoBuffer, BufferInv, TypeOK
<1>. HIDE DEF d
<1>6. BuffersAccounted' /\ conn' \in [Node -> Conn]
      /\ free' \in [Node -> 0..QueuebufNum]
  BY <1>2, <1>3, <1>4, <1>5, ConnectionStep
<1>7. TypeOK'
  BY <1>6 DEF SendNoBuffer, BufferInv, TypeOK
<1>. QED  BY <1>6, <1>7 DEF BufferInv

LEMMA BufferInvSend ==
  ASSUME BufferInv, NEW n \in Node, NEW mx \in MaxRxmits,
         NEW r \in Node \ {n}, Send(n, r, mx)
  PROVE  BufferInv'
<1>. DEFINE c == Accept(conn[n], sends[n] + 1, r, mx)
            d == CountTransmission(c)
            f == free[n] + Held(conn[n]) - 1
<1>1. mx \in Byte /\ conn[n] \in Conn /\ sends[n] + 1 \in Nat /\ r \in Node
  BY RunicastAssumption DEF BufferInv, TypeOK, Byte
<1>2. c \in Conn /\ c.buf \in Buffer /\ c.timer = TRUE /\ c.is_tx = TRUE
      /\ c.open = conn[n].open
  <2>1. PICK k \in Nat : k = sends[n] + 1
    BY <1>1
  <2>2. Accept(conn[n], k, r, mx) \in Conn /\ Accept(conn[n], k, r, mx).buf \in Buffer
    BY <1>1, AcceptType
  <2>3. c.timer = TRUE /\ c.is_tx = TRUE /\ c.open = conn[n].open
    BY DEF Accept
  <2>. QED  BY <2>1, <2>2, <2>3
<1>3. d \in Conn /\ d.buf = c.buf /\ d.timer = TRUE /\ d.is_tx = TRUE
      /\ d.open = conn[n].open
  BY <1>2, CountType DEF Send
<1>4. d.buf # NoBuf /\ Held(d) = 1 /\ d.open
  BY <1>2, <1>3, NoBufNotBuffer DEF Held, Send, CanSend
<1>5. f \in Nat /\ f + other[n] + Held(d) = QueuebufNum
  BY <1>4 DEF BufferInv, TypeOK, BuffersAccounted, Send, Held
<1>6. conn' = [conn EXCEPT ![n] = d] /\ free' = [free EXCEPT ![n] = f]
      /\ UNCHANGED other
  BY DEF Send, BufferInv, TypeOK
<1>7. BuffersAccounted' /\ conn' \in [Node -> Conn]
      /\ free' \in [Node -> 0..QueuebufNum]
  <2>. HIDE DEF d, f
  <2>. QED  BY <1>3, <1>4, <1>5, <1>6, ConnectionStep
<1>8. air' \subseteq Frame
  BY <1>2, DataFrameType DEF Send, Transmit, BufferInv, TypeOK
<1>9. TypeOK'
  BY <1>7, <1>8 DEF Send, BufferInv, TypeOK
<1>. QED  BY <1>7, <1>9 DEF BufferInv

LEMMA BufferInvSendLast ==
  ASSUME BufferInv, NEW n \in Node, NEW mx \in MaxRxmits,
         NEW r \in Node \ {n}, SendLast(n, r, mx)
  PROVE  BufferInv'
<1>. DEFINE c == Accept(conn[n], sends[n] + 1, r, mx)
            d == AfterTimedout(GiveUp(c))
            f == free[n] + Held(conn[n])
<1>1. mx \in Byte /\ conn[n] \in Conn /\ sends[n] + 1 \in Nat /\ r \in Node
  BY RunicastAssumption DEF BufferInv, TypeOK, Byte
<1>2. c \in Conn /\ c.buf \in Buffer /\ c.buf.pkt = sends[n] + 1 /\ c.buf.to = r
  <2>1. PICK k \in Nat : k = sends[n] + 1
    BY <1>1
  <2>2. Accept(conn[n], k, r, mx) \in Conn /\ Accept(conn[n], k, r, mx).buf \in Buffer
    BY <1>1, AcceptType
  <2>3. c.buf.pkt = sends[n] + 1 /\ c.buf.to = r
    BY DEF Accept
  <2>. QED  BY <2>1, <2>2, <2>3
<1>3. d \in Conn /\ d.buf = NoBuf /\ d.is_tx = FALSE
  BY <1>2, ExpireType
<1>4. Held(d) = 0 /\ Held(conn[n]) \in Nat
  BY <1>3 DEF Held
<1>5. f \in Nat /\ f + other[n] + 0 = QueuebufNum
  <2>. HIDE DEF d
  <2>. QED  BY <1>4 DEF BufferInv, TypeOK, BuffersAccounted
<1>6. conn' = [conn EXCEPT ![n] = d] /\ free' = [free EXCEPT ![n] = f]
      /\ UNCHANGED other
  BY DEF SendLast, BufferInv, TypeOK
<1>7. BuffersAccounted' /\ conn' \in [Node -> Conn]
      /\ free' \in [Node -> 0..QueuebufNum]
  <2>. HIDE DEF d, f
  <2>. QED  BY <1>3, <1>4, <1>5, <1>6, ConnectionStep
<1>8. air' \subseteq Frame
  BY <1>2, DataFrameType DEF SendLast, Transmit, BufferInv, TypeOK
<1>9. expired' \in [Node -> SUBSET (Nat \X (Node \cup {NoBuf.to}))]
  BY <1>1, <1>2 DEF SendLast, BufferInv, TypeOK
<1>10. TypeOK'
  BY <1>7, <1>8, <1>9 DEF SendLast, BufferInv, TypeOK
<1>. QED  BY <1>7, <1>10 DEF BufferInv

LEMMA BufferInvTimerWithoutBuffer ==
  ASSUME BufferInv, NEW n \in Node, TimerWithoutBuffer(n)
  PROVE  BufferInv'
<1>. DEFINE d == [conn[n] EXCEPT !.timer = FALSE]
<1>1. conn[n] \in Conn /\ free[n] \in Nat
  BY DEF BufferInv, TypeOK
<1>2. d \in Conn /\ d.buf = NoBuf /\ d.open = conn[n].open
      /\ d.is_tx = conn[n].is_tx
  BY <1>1, TimerType DEF TimerWithoutBuffer
<1>3. ~(d.open /\ d.is_tx)
  BY <1>2 DEF BufferInv, BuffersAccounted, Sending, TimerWithoutBuffer
<1>4. free[n] + other[n] + Held(d) = QueuebufNum
  BY <1>2 DEF BufferInv, BuffersAccounted, Held, TimerWithoutBuffer
<1>5. conn' = [conn EXCEPT ![n] = d] /\ free' = [free EXCEPT ![n] = free[n]]
      /\ UNCHANGED other
  BY DEF TimerWithoutBuffer, BufferInv, TypeOK
<1>6. BuffersAccounted' /\ conn' \in [Node -> Conn]
      /\ free' \in [Node -> 0..QueuebufNum]
  <2>. HIDE DEF d
  <2>. QED  BY <1>1, <1>2, <1>3, <1>4, <1>5, ConnectionStep
<1>7. TypeOK'
  BY <1>6 DEF TimerWithoutBuffer, BufferInv, TypeOK, ghosts
<1>. QED  BY <1>6, <1>7 DEF BufferInv

\* A buffer found by the timer is a real one, of a packet being transmitted.
LEMMA BufferHeld ==
  ASSUME BufferInv, NEW n \in Node, conn[n].buf # NoBuf
  PROVE  /\ conn[n] \in Conn /\ conn[n].buf \in Buffer
         /\ conn[n].open /\ conn[n].is_tx /\ conn[n].timer
         /\ Held(conn[n]) = 1
         /\ free[n] \in Nat /\ free[n] + other[n] + 1 = QueuebufNum
<1>1. conn[n] \in Conn /\ free[n] \in Nat /\ Held(conn[n]) = 1
  BY DEF BufferInv, TypeOK, Held
<1>2. conn[n].buf \in Buffer
  BY <1>1 DEF Conn, Pointer
<1>. QED  BY <1>1, <1>2 DEF BufferInv, BuffersAccounted, Sending

LEMMA BufferInvRetransmit ==
  ASSUME BufferInv, NEW n \in Node, Retransmit(n)
  PROVE  BufferInv'
<1>. DEFINE c == conn[n]
            d == [CountTransmission(c) EXCEPT !.timer = TRUE]
<1>1. c \in Conn /\ c.buf \in Buffer /\ c.open /\ c.is_tx /\ free[n] \in Nat
      /\ free[n] + other[n] + 1 = QueuebufNum
  BY BufferHeld DEF Retransmit
<1>2. d \in Conn /\ d.buf = c.buf /\ d.timer = TRUE /\ d.is_tx = c.is_tx
      /\ d.open = c.open
  <2>1. PICK e \in Conn : e = CountTransmission(c) /\ e.buf = c.buf /\ e.is_tx = c.is_tx /\ e.open = c.open
    BY <1>1, CountType DEF Retransmit
  <2>. QED  BY <2>1, TimerType
<1>3. d.buf # NoBuf /\ Held(d) = 1
  BY <1>1, <1>2, NoBufNotBuffer DEF Held
<1>4. conn' = [conn EXCEPT ![n] = d] /\ free' = [free EXCEPT ![n] = free[n]]
      /\ UNCHANGED other
  BY DEF Retransmit, BufferInv, TypeOK
<1>5. BuffersAccounted' /\ conn' \in [Node -> Conn]
      /\ free' \in [Node -> 0..QueuebufNum]
  <2>. HIDE DEF d
  <2>. QED  BY <1>1, <1>2, <1>3, <1>4, ConnectionStep
<1>6. air' \subseteq Frame
  BY <1>1, DataFrameType DEF Retransmit, Transmit, BufferInv, TypeOK
<1>7. TypeOK'
  BY <1>5, <1>6 DEF Retransmit, BufferInv, TypeOK
<1>. QED  BY <1>5, <1>7 DEF BufferInv

LEMMA BufferInvRetransmitLast ==
  ASSUME BufferInv, NEW n \in Node, RetransmitLast(n)
  PROVE  BufferInv'
<1>. DEFINE c == conn[n]
            d == [AfterTimedout(GiveUp(c)) EXCEPT !.timer = TRUE]
            f == free[n] + 1
<1>1. c \in Conn /\ c.buf \in Buffer /\ free[n] \in Nat
      /\ free[n] + other[n] + 1 = QueuebufNum
  BY BufferHeld DEF RetransmitLast
<1>2. d \in Conn /\ d.buf = NoBuf /\ d.is_tx = FALSE
  <2>1. PICK e \in Conn : e = AfterTimedout(GiveUp(c)) /\ e.buf = NoBuf /\ e.is_tx = FALSE
    BY <1>1, ExpireType
  <2>. QED  BY <2>1, TimerType
<1>3. Held(d) = 0 /\ f \in Nat /\ f + other[n] + 0 = QueuebufNum
  BY <1>1, <1>2 DEF Held, BufferInv, TypeOK
<1>4. conn' = [conn EXCEPT ![n] = d] /\ free' = [free EXCEPT ![n] = f]
      /\ UNCHANGED other
  BY DEF RetransmitLast, BufferInv, TypeOK
<1>5. BuffersAccounted' /\ conn' \in [Node -> Conn]
      /\ free' \in [Node -> 0..QueuebufNum]
  <2>. HIDE DEF d, f
  <2>. QED  BY <1>1, <1>2, <1>3, <1>4, ConnectionStep
<1>6. air' \subseteq Frame
  BY <1>1, DataFrameType DEF RetransmitLast, Transmit, BufferInv, TypeOK
<1>7. expired' \in [Node -> SUBSET (Nat \X (Node \cup {NoBuf.to}))]
  BY <1>1 DEF RetransmitLast, BufferInv, TypeOK, Buffer
<1>8. TypeOK'
  BY <1>5, <1>6, <1>7 DEF RetransmitLast, BufferInv, TypeOK
<1>. QED  BY <1>5, <1>8 DEF BufferInv

LEMMA BufferInvRetransmitLastAndSend ==
  ASSUME BufferInv, NEW n \in Node, NEW mx \in MaxRxmits,
         NEW r \in Node \ {n}, RetransmitLastAndSend(n, r, mx)
  PROVE  BufferInv'
<1>. DEFINE c == conn[n]
            d == Accept(GiveUp(c), sends[n] + 1, r, mx)
            e == [AfterTimedout(CountTransmission(d)) EXCEPT !.timer = TRUE]
<1>1. /\ c \in Conn /\ c.buf \in Buffer /\ c.open /\ free[n] \in Nat
      /\ free[n] + other[n] + 1 = QueuebufNum
      /\ mx \in Byte /\ sends[n] + 1 \in Nat /\ r \in Node
  BY BufferHeld, RunicastAssumption
     DEF RetransmitLastAndSend, BufferInv, TypeOK, Byte
<1>2. GiveUp(c) \in Conn /\ GiveUp(c).open = c.open
  BY <1>1, GiveUpType
<1>3. d \in Conn /\ d.buf \in Buffer /\ d.is_tx = TRUE /\ d.open = c.open
  <2>1. PICK k \in Nat : k = sends[n] + 1
    BY <1>1
  <2>2. PICK g \in Conn : g = GiveUp(c)
    BY <1>2
  <2>3. Accept(g, k, r, mx) \in Conn /\ Accept(g, k, r, mx).buf \in Buffer
    BY <1>1, AcceptType
  <2>4. d.is_tx = TRUE /\ d.open = GiveUp(c).open
    BY DEF Accept
  <2>. QED  BY <1>2, <2>1, <2>2, <2>3, <2>4
<1>4. e \in Conn /\ e.buf = d.buf /\ e.timer = TRUE /\ e.is_tx = d.is_tx
      /\ e.open = d.open
  <2>1. ~LastTransmission(d)
    BY DEF RetransmitLastAndSend
  <2>. HIDE DEF d
  <2>2. PICK u \in Conn : u = CountTransmission(d) /\ u.buf = d.buf
          /\ u.is_tx = d.is_tx /\ u.open = d.open
    BY <1>3, <2>1, CountType
  <2>3. PICK v \in Conn : v = AfterTimedout(u) /\ v.buf = u.buf
          /\ v.is_tx = u.is_tx /\ v.open = u.open
    BY AfterTimedoutType
  <2>4. [v EXCEPT !.timer = TRUE] \in Conn
        /\ [v EXCEPT !.timer = TRUE].timer = TRUE
        /\ [v EXCEPT !.timer = TRUE].buf = v.buf
        /\ [v EXCEPT !.timer = TRUE].is_tx = v.is_tx
        /\ [v EXCEPT !.timer = TRUE].open = v.open
    BY TimerType
  <2>. QED  BY <2>2, <2>3, <2>4
<1>5. e.buf # NoBuf /\ Held(e) = 1 /\ e.open /\ e.is_tx /\ e.timer
  <2>. HIDE DEF d, e
  <2>. QED  BY <1>1, <1>3, <1>4, NoBufNotBuffer DEF Held
<1>6. conn' = [conn EXCEPT ![n] = e] /\ free' = [free EXCEPT ![n] = free[n]]
      /\ UNCHANGED other
  BY DEF RetransmitLastAndSend, BufferInv, TypeOK
<1>7. BuffersAccounted' /\ conn' \in [Node -> Conn]
      /\ free' \in [Node -> 0..QueuebufNum]
  <2>. HIDE DEF e, d
  <2>. QED  BY <1>1, <1>4, <1>5, <1>6, ConnectionStep
<1>8. air' \subseteq Frame
  <2>1. DataFrame(n, c) \in Frame /\ DataFrame(n, d) \in Frame
    <3>. HIDE DEF d
    <3>. QED  BY <1>1, <1>3, DataFrameType
  <2>. QED  BY <2>1 DEF RetransmitLastAndSend, Transmit, BufferInv, TypeOK
<1>9. expired' \in [Node -> SUBSET (Nat \X (Node \cup {NoBuf.to}))]
  BY <1>1 DEF RetransmitLastAndSend, BufferInv, TypeOK, Buffer
<1>10. TypeOK'
  BY <1>7, <1>8, <1>9 DEF RetransmitLastAndSend, BufferInv, TypeOK
<1>. QED  BY <1>7, <1>10 DEF BufferInv

LEMMA BufferInvSendLastAndSend ==
  ASSUME BufferInv, NEW n \in Node, NEW mx \in MaxRxmits, NEW mx2 \in MaxRxmits,
         NEW r \in Node \ {n}, NEW r2 \in Node \ {n},
         SendLastAndSend(n, r, mx, r2, mx2)
  PROVE  BufferInv'
<1>. DEFINE c == Accept(conn[n], sends[n] + 1, r, mx)
            d == Accept(GiveUp(c), sends[n] + 2, r2, mx2)
            e == AfterTimedout(CountTransmission(d))
            f == free[n] + Held(conn[n]) - 1
<1>1. /\ conn[n] \in Conn /\ sends[n] + 1 \in Nat /\ sends[n] + 2 \in Nat
      /\ mx \in Byte /\ mx2 \in Byte /\ r \in Node /\ r2 \in Node
      /\ conn[n].open /\ free[n] \in Nat
  BY RunicastAssumption DEF SendLastAndSend, CanSend, BufferInv, TypeOK, Byte
<1>2. c \in Conn /\ c.buf \in Buffer /\ c.open = conn[n].open
      /\ c.buf.pkt = sends[n] + 1 /\ c.buf.to = r
  <2>1. PICK k \in Nat : k = sends[n] + 1
    BY <1>1
  <2>2. Accept(conn[n], k, r, mx) \in Conn /\ Accept(conn[n], k, r, mx).buf \in Buffer
    BY <1>1, AcceptType
  <2>3. c.open = conn[n].open /\ c.buf.pkt = sends[n] + 1 /\ c.buf.to = r
    BY DEF Accept
  <2>. QED  BY <2>1, <2>2, <2>3
<1>3. GiveUp(c) \in Conn /\ GiveUp(c).open = c.open
  <2>. HIDE DEF c
  <2>. QED  BY <1>2, GiveUpType
<1>4. d \in Conn /\ d.buf \in Buffer /\ d.is_tx = TRUE /\ d.open = conn[n].open
      /\ d.timer = TRUE
  <2>1. PICK k \in Nat : k = sends[n] + 2
    BY <1>1
  <2>2. PICK g \in Conn : g = GiveUp(c)
    BY <1>3
  <2>3. Accept(g, k, r2, mx2) \in Conn /\ Accept(g, k, r2, mx2).buf \in Buffer
    BY <1>1, AcceptType
  <2>4. d.is_tx = TRUE /\ d.open = GiveUp(c).open /\ d.timer = TRUE
    BY DEF Accept
  <2>. QED  BY <1>2, <1>3, <2>1, <2>2, <2>3, <2>4
<1>5. e \in Conn /\ e.buf = d.buf /\ e.timer = d.timer /\ e.is_tx = d.is_tx
      /\ e.open = d.open
  <2>1. ~LastTransmission(d)
    BY DEF SendLastAndSend
  <2>. HIDE DEF d
  <2>2. PICK u \in Conn : u = CountTransmission(d) /\ u.buf = d.buf
          /\ u.is_tx = d.is_tx /\ u.open = d.open /\ u.timer = d.timer
    BY <1>4, <2>1, CountType
  <2>3. PICK v \in Conn : v = AfterTimedout(u) /\ v.buf = u.buf
          /\ v.is_tx = u.is_tx /\ v.open = u.open /\ v.timer = u.timer
    BY AfterTimedoutType
  <2>. QED  BY <2>2, <2>3
<1>6. e.buf # NoBuf /\ Held(e) = 1 /\ e.open /\ e.is_tx /\ e.timer
  <2>. HIDE DEF d, e
  <2>. QED  BY <1>1, <1>4, <1>5, NoBufNotBuffer DEF Held
<1>7. f \in Nat /\ f + other[n] + Held(e) = QueuebufNum
  <2>. HIDE DEF d, e
  <2>. QED  BY <1>6 DEF BufferInv, TypeOK, BuffersAccounted, SendLastAndSend, Held
<1>8. conn' = [conn EXCEPT ![n] = e] /\ free' = [free EXCEPT ![n] = f]
      /\ UNCHANGED other
  BY DEF SendLastAndSend, BufferInv, TypeOK
<1>9. BuffersAccounted' /\ conn' \in [Node -> Conn]
      /\ free' \in [Node -> 0..QueuebufNum]
  <2>. HIDE DEF d, e, f
  <2>. QED  BY <1>5, <1>6, <1>7, <1>8, ConnectionStep
<1>10. air' \subseteq Frame
  <2>1. DataFrame(n, c) \in Frame /\ DataFrame(n, d) \in Frame
    <3>. HIDE DEF c, d
    <3>. QED  BY <1>2, <1>4, DataFrameType
  <2>. QED  BY <2>1 DEF SendLastAndSend, Transmit, BufferInv, TypeOK
<1>11. expired' \in [Node -> SUBSET (Nat \X (Node \cup {NoBuf.to}))]
  <2>1. expired' = [expired EXCEPT ![n] = @ \cup {<<c.buf.pkt, c.buf.to>>}]
    BY DEF SendLastAndSend
  <2>. HIDE DEF c
  <2>. QED  BY <1>1, <1>2, <2>1 DEF BufferInv, TypeOK
<1>12. TypeOK'
  BY <1>9, <1>10, <1>11 DEF SendLastAndSend, BufferInv, TypeOK
<1>. QED  BY <1>9, <1>12 DEF BufferInv

LEMMA BufferInvRecvAck ==
  ASSUME BufferInv, NEW n \in Node, NEW m \in air, NEW keep \in BOOLEAN,
         RecvAck(n, m, keep)
  PROVE  BufferInv'
<1>. DEFINE c == conn[n]
            d == Acknowledge(c)
            f == free[n] + Held(c)
<1>1. c \in Conn /\ free[n] \in Nat /\ Held(c) \in Nat
      /\ free[n] + Held(c) + other[n] = QueuebufNum
  BY DEF BufferInv, TypeOK, BuffersAccounted, Held
<1>2. d \in Conn /\ d.buf = NoBuf /\ d.is_tx = FALSE
  BY <1>1, AcknowledgeType
<1>3. Held(d) = 0 /\ f \in Nat /\ f + other[n] + 0 = QueuebufNum
  BY <1>1, <1>2 DEF Held, BufferInv, TypeOK
<1>4. conn' = [conn EXCEPT ![n] = d] /\ free' = [free EXCEPT ![n] = f]
      /\ UNCHANGED other
  BY DEF RecvAck, BufferInv, TypeOK
<1>5. BuffersAccounted' /\ conn' \in [Node -> Conn]
      /\ free' \in [Node -> 0..QueuebufNum]
  <2>. HIDE DEF d, f
  <2>. QED  BY <1>2, <1>3, <1>4, ConnectionStep
<1>6. <<c.buf.pkt, c.buf.to>> \in Nat \X (Node \cup {NoBuf.to})
  BY <1>1 DEF Conn, Pointer, Buffer, NoBuf
<1>7. acked' \in [Node -> SUBSET (Nat \X (Node \cup {NoBuf.to}))]
  BY <1>6 DEF RecvAck, BufferInv, TypeOK
<1>8. TypeOK'
  BY <1>5, <1>7 DEF RecvAck, BufferInv, TypeOK
<1>. QED  BY <1>5, <1>8 DEF BufferInv

LEMMA BufferInvRecvData ==
  ASSUME BufferInv, NEW n \in Node, NEW m \in air, NEW keep \in BOOLEAN,
         RecvData(n, m, keep)
  PROVE  BufferInv'
<1>1. m \in Frame /\ [m EXCEPT !.type = "ack"] \in Frame
  BY DEF BufferInv, TypeOK, Frame
<1>2. air' \subseteq Frame
  BY <1>1 DEF RecvData, BufferInv, TypeOK
<1>3. got' \subseteq Node \X Nat \X Node
  BY <1>1 DEF RecvData, BufferInv, TypeOK, Frame
<1>4. TypeOK'
  BY <1>2, <1>3 DEF RecvData, BufferInv, TypeOK
<1>5. BuffersAccounted'
  BY QuietStep DEF RecvData
<1>. QED  BY <1>4, <1>5 DEF BufferInv

LEMMA BufferInvClose ==
  ASSUME BufferInv, NEW n \in Node, Close(n)
  PROVE  BufferInv'
<1>. DEFINE c == conn[n]
            d == runicast_close(c)
            f == free[n] + Held(c)
<1>1. c \in Conn /\ free[n] \in Nat /\ Held(c) \in Nat
      /\ free[n] + Held(c) + other[n] = QueuebufNum
  BY DEF BufferInv, TypeOK, BuffersAccounted, Held
<1>2. d \in Conn /\ d.buf = NoBuf /\ d.open = FALSE
  BY <1>1, CloseType
<1>3. Held(d) = 0 /\ f \in Nat /\ f + other[n] + 0 = QueuebufNum
  BY <1>1, <1>2 DEF Held, BufferInv, TypeOK
<1>4. conn' = [conn EXCEPT ![n] = d] /\ free' = [free EXCEPT ![n] = f]
      /\ UNCHANGED other
  BY DEF Close, BufferInv, TypeOK
<1>5. BuffersAccounted' /\ conn' \in [Node -> Conn]
      /\ free' \in [Node -> 0..QueuebufNum]
  <2>. HIDE DEF d, f
  <2>. QED  BY <1>2, <1>3, <1>4, ConnectionStep
<1>6. TypeOK'
  BY <1>5 DEF Close, BufferInv, TypeOK, ghosts
<1>. QED  BY <1>5, <1>6 DEF BufferInv

LEMMA BufferInvOpen ==
  ASSUME BufferInv, NEW n \in Node, Open(n)
  PROVE  BufferInv'
<1>. DEFINE c == conn[n]
            d == runicast_open(c)
<1>1. c \in Conn /\ free[n] \in Nat /\ c.buf = NoBuf
      /\ free[n] + other[n] + Held(c) = QueuebufNum
  BY DEF BufferInv, TypeOK, BuffersAccounted, Sending, Open
<1>2. d \in Conn /\ d.buf = NoBuf /\ d.is_tx = FALSE
  BY <1>1, OpenType DEF runicast_open
<1>3. free[n] + other[n] + Held(d) = QueuebufNum
  BY <1>1, <1>2 DEF Held
<1>4. conn' = [conn EXCEPT ![n] = d] /\ free' = [free EXCEPT ![n] = free[n]]
      /\ UNCHANGED other
  BY DEF Open, BufferInv, TypeOK
<1>5. BuffersAccounted' /\ conn' \in [Node -> Conn]
      /\ free' \in [Node -> 0..QueuebufNum]
  <2>. HIDE DEF d
  <2>. QED  BY <1>1, <1>2, <1>3, <1>4, ConnectionStep
<1>6. TypeOK'
  BY <1>5 DEF Open, BufferInv, TypeOK
<1>. QED  BY <1>5, <1>6 DEF BufferInv

LEMMA BufferInvPool ==
  ASSUME BufferInv, NEW n \in Node, TakeQueuebuf(n) \/ ReturnQueuebuf(n)
  PROVE  BufferInv'
<1>1. UNCHANGED <<conn, air, ghosts>>
  BY DEF TakeQueuebuf, ReturnQueuebuf
<1>2. Held(conn[n]) \in Nat /\ free[n] \in Nat /\ other[n] \in Nat
      /\ free[n] + other[n] + Held(conn[n]) = QueuebufNum
  BY DEF BufferInv, TypeOK, BuffersAccounted, Held
<1>3. /\ free' \in [Node -> 0..QueuebufNum] /\ other' \in [Node -> 0..QueuebufNum]
      /\ free'[n] + other'[n] = free[n] + other[n]
      /\ \A k \in Node \ {n} : free'[k] = free[k] /\ other'[k] = other[k]
  BY <1>2, RunicastAssumption DEF TakeQueuebuf, ReturnQueuebuf, BufferInv, TypeOK
<1>4. TypeOK'
  BY <1>1, <1>3 DEF BufferInv, TypeOK, ghosts
<1>5. ASSUME NEW k \in Node
      PROVE  free'[k] + other'[k] + Held(conn'[k]) = QueuebufNum
  <2>1. CASE k = n
    BY <2>1, <1>1, <1>2, <1>3 DEF BufferInv, TypeOK
  <2>2. CASE k # n
    BY <2>2, <1>1, <1>3 DEF BufferInv, BuffersAccounted
  <2>. QED  BY <2>1, <2>2
<1>6. BuffersAccounted'
  BY <1>1, <1>5 DEF BufferInv, BuffersAccounted, Sending, Held
<1>. QED  BY <1>4, <1>6 DEF BufferInv

LEMMA BufferInvNext == BufferInv /\ [Next]_vars => BufferInv'
<1>. SUFFICES ASSUME BufferInv, [Next]_vars
              PROVE  BufferInv'
  OBVIOUS
<1>1. ASSUME NEW n \in Node, NEW mx \in MaxRxmits, SendNoBuffer(n, mx)
      PROVE  BufferInv'
  BY <1>1, BufferInvSendNoBuffer
<1>2. ASSUME NEW n \in Node, NEW mx \in MaxRxmits, NEW r \in Node \ {n},
             Send(n, r, mx)
      PROVE  BufferInv'
  BY <1>2, BufferInvSend
<1>3. ASSUME NEW n \in Node, NEW mx \in MaxRxmits, NEW r \in Node \ {n},
             SendLast(n, r, mx)
      PROVE  BufferInv'
  BY <1>3, BufferInvSendLast
<1>4. ASSUME NEW n \in Node, NEW mx \in MaxRxmits, NEW mx2 \in MaxRxmits,
             NEW r \in Node \ {n}, NEW r2 \in Node \ {n},
             SendLastAndSend(n, r, mx, r2, mx2)
      PROVE  BufferInv'
  BY <1>4, BufferInvSendLastAndSend
<1>5. ASSUME NEW n \in Node, TimerFires(n)
      PROVE  BufferInv'
  BY <1>5, BufferInvTimerWithoutBuffer, BufferInvRetransmit,
     BufferInvRetransmitLast, BufferInvRetransmitLastAndSend DEF TimerFires
<1>6. ASSUME NEW n \in Node, NEW m \in air, NEW keep \in BOOLEAN,
             RecvData(n, m, keep)
      PROVE  BufferInv'
  BY <1>6, BufferInvRecvData
<1>7. ASSUME NEW n \in Node, NEW m \in air, NEW keep \in BOOLEAN,
             RecvAck(n, m, keep)
      PROVE  BufferInv'
  BY <1>7, BufferInvRecvAck
<1>8. ASSUME NEW n \in Node, NEW m \in air, RecvBadAck(n, m)
      PROVE  BufferInv'
  BY <1>8, QuietStep DEF RecvBadAck, BufferInv, TypeOK, ghosts
<1>9. ASSUME NEW m \in air, LoseFrame(m)
      PROVE  BufferInv'
  BY <1>9, QuietStep DEF LoseFrame, BufferInv, TypeOK, ghosts
<1>10. ASSUME NEW n \in Node, Close(n) \/ Open(n)
       PROVE  BufferInv'
  BY <1>10, BufferInvClose, BufferInvOpen
<1>11. ASSUME NEW n \in Node, TakeQueuebuf(n) \/ ReturnQueuebuf(n)
       PROVE  BufferInv'
  BY <1>11, BufferInvPool
<1>12. CASE UNCHANGED vars
  BY <1>12, QuietStep DEF vars, ghosts, BufferInv, TypeOK
<1>. QED  BY <1>1, <1>2, <1>3, <1>4, <1>5, <1>6, <1>7, <1>8, <1>9, <1>10,
             <1>11, <1>12 DEF Next

\* Every reachable state is well typed: in particular rxmit stays a byte and the
\* pool never holds more buffers than it was given, also when an application
\* sends from its timedout callback.
THEOREM TypeCorrect == Spec => []TypeOK
<1>1. Init => BufferInv
  BY BufferInvInit
<1>2. BufferInv /\ [Next]_vars => BufferInv'
  BY BufferInvNext
<1>3. BufferInv => TypeOK
  BY DEF BufferInv
<1>. QED  BY <1>1, <1>2, <1>3, PTL DEF Spec

\* No queue buffer is leaked or freed twice, and a connection holds one, with
\* its timer armed, exactly while it transmits.
THEOREM BuffersAreAccounted == Spec => []BuffersAccounted
<1>1. Init => BufferInv
  BY BufferInvInit
<1>2. BufferInv /\ [Next]_vars => BufferInv'
  BY BufferInvNext
<1>3. BufferInv => BuffersAccounted
  BY DEF BufferInv
<1>. QED  BY <1>1, <1>2, <1>3, PTL DEF Spec

(***************************************************************************)
(* A sent callback tells the truth.  Needs that ACKs of packets IdSpace - 1 *)
(* or more behind do not arrive (AckLag) and that no application sends from *)
(* its timedout callback.                                                   *)
(***************************************************************************)

SafeLag == AckLag < IdSpace /\ ~TimedoutSends

WireInv == BufferInv /\ WireConsistent /\ AckedWasDelivered

\* A step on node n's connection keeps the numbering of every node.
LEMMA NumberingStep ==
  ASSUME WireInv, NEW n \in Node, NEW d, NEW s \in Nat,
         conn' = [conn EXCEPT ![n] = d],
         sends' = [sends EXCEPT ![n] = s],
         UNCHANGED opened,
         Numbered(d, s, opened[n])
  PROVE  Numbering'
<1>1. ASSUME NEW k \in Node
      PROVE  Numbered(conn'[k], sends'[k], opened'[k])
  <2>1. CASE k = n
    BY <2>1 DEF WireInv, BufferInv, TypeOK
  <2>2. CASE k # n
    BY <2>2 DEF WireInv, WireConsistent, Numbering, BufferInv, TypeOK
  <2>. QED  BY <2>1, <2>2
<1>. QED  BY <1>1 DEF Numbering, Numbered

\* A step on node n's connection keeps the frames genuine, if it stops n's
\* packet, keeps it, or starts a new one.
LEMMA FramesStep ==
  ASSUME WireInv, NEW n \in Node, NEW d, NEW s \in Nat, NEW New,
         conn' = [conn EXCEPT ![n] = d],
         sends' = [sends EXCEPT ![n] = s],
         UNCHANGED <<opened, got>>,
         sends[n] <= s,
         air' \subseteq air \cup New,
         \A m \in New : Genuine(m)',
         \/ ~(d.open /\ d.is_tx)
         \/ s > sends[n]
         \/ Sending(n) /\ d.buf = conn[n].buf
  PROVE  FramesGenuine'
<1>. SUFFICES ASSUME NEW m \in air, m \in air'
              PROVE  Genuine(m)'
  BY DEF FramesGenuine
<1>1. m \in Frame /\ Genuine(m) /\ m.src \in Node /\ m.pkt \in Nat
  BY DEF WireInv, WireConsistent, FramesGenuine, BufferInv, TypeOK, Frame
<1>2. CASE m.src # n
  <2>1. conn'[m.src] = conn[m.src] /\ sends'[m.src] = sends[m.src]
    BY <1>1, <1>2 DEF WireInv, BufferInv, TypeOK
  <2>. QED  BY <1>1, <2>1 DEF Genuine, Sending
<1>3. CASE m.src = n
  <2>1. conn'[n] = d /\ sends'[n] = s /\ sends[n] \in Nat
    BY DEF WireInv, BufferInv, TypeOK
  <2>2. opened[n] < m.pkt /\ m.pkt <= s
        /\ m.id = (m.pkt - opened[n] - 1) % IdSpace
        /\ (m.type = "ack" => <<n, m.pkt, m.dst>> \in got)
    BY <1>1, <1>3, <2>1 DEF Genuine
  <2>3. d.open /\ d.is_tx /\ m.pkt = s => m.dst = d.buf.to
    BY <1>1, <1>3, <2>1 DEF Genuine, Sending
  <2>. QED  BY <1>3, <2>1, <2>2, <2>3 DEF Genuine, Sending
<1>. QED  BY <1>2, <1>3

\* A step that does not report a packet as sent.
LEMMA ReportsStep ==
  ASSUME WireInv, UNCHANGED acked, got \subseteq got'
  PROVE  AckedWasDelivered'
  BY DEF WireInv, AckedWasDelivered

LEMMA WireInvInit == Init => WireInv
<1>1. Init => Numbering
  BY DEF Init, Numbering, Numbered, IdSpace
<1>2. Init => FramesGenuine /\ AckedWasDelivered
  BY DEF Init, FramesGenuine, AckedWasDelivered
<1>. QED  BY <1>1, <1>2, BufferInvInit DEF WireInv, WireConsistent

LEMMA WireInvSendNoBuffer ==
  ASSUME WireInv, NEW n \in Node, NEW mx \in MaxRxmits, SendNoBuffer(n, mx)
  PROVE  WireConsistent' /\ AckedWasDelivered'
<1>. DEFINE c == conn[n]
            d == NoBuffer(c, mx)
<1>1. mx \in Byte /\ c \in Conn /\ sends[n] \in Nat /\ opened[n] \in Nat
  BY RunicastAssumption DEF WireInv, BufferInv, TypeOK, Byte
<1>2. d.is_tx = c.is_tx /\ d.open = c.open /\ d.sndnxt = c.sndnxt /\ ~c.is_tx
  BY <1>1, NoBufferType DEF SendNoBuffer, CanSend
<1>3. conn' = [conn EXCEPT ![n] = d] /\ sends' = [sends EXCEPT ![n] = sends[n]]
      /\ UNCHANGED <<opened, got, acked, air>>
  BY DEF SendNoBuffer, WireInv, BufferInv, TypeOK
<1>4. Numbered(d, sends[n], opened[n])
  BY <1>2 DEF Numbered, WireInv, WireConsistent, Numbering
<1>. HIDE DEF d
<1>5. Numbering'
  BY <1>1, <1>3, <1>4, NumberingStep
<1>6. FramesGenuine'
  <2>1. ~(d.open /\ d.is_tx) /\ sends[n] <= sends[n] /\ air' \subseteq air \cup {}
    BY <1>1, <1>2, <1>3
  <2>2. PICK New : New = {}
    OBVIOUS
  <2>3. air' \subseteq air \cup New /\ \A m \in New : Genuine(m)'
    BY <2>1, <2>2
  <2>. QED  BY <1>1, <1>3, <2>1, <2>3, FramesStep
<1>7. AckedWasDelivered'
  BY <1>3, ReportsStep
<1>. QED  BY <1>5, <1>6, <1>7 DEF WireConsistent

\* The first frame of a new packet is genuine.
LEMMA NewFrameGenuine ==
  ASSUME WireInv, NEW n \in Node, NEW k \in Nat, NEW c,
         k = sends[n] + 1,
         conn[n].open, ~conn[n].is_tx,
         c.buf.pkt = k, c.buf.id = conn[n].sndnxt,
         sends' = [sends EXCEPT ![n] = k], UNCHANGED opened,
         Sending(n)' => conn'[n].buf.to = c.buf.to
  PROVE  Genuine(DataFrame(n, c))'
<1>. DEFINE m == DataFrame(n, c)
<1>1. m.src = n /\ m.dst = c.buf.to /\ m.id = c.buf.id /\ m.pkt = k
      /\ m.type = "data"
  BY DEF DataFrame
<1>2. sends[n] \in Nat /\ opened[n] \in Nat /\ sends'[n] = k
      /\ opened'[n] = opened[n]
  BY DEF WireInv, BufferInv, TypeOK
<1>3. opened[n] <= sends[n]
      /\ conn[n].sndnxt = (sends[n] - opened[n]) % IdSpace
  BY DEF WireInv, WireConsistent, Numbering, Numbered
<1>4. k - opened[n] - 1 = sends[n] - opened[n] /\ opened[n] < k
  BY <1>2, <1>3
<1>. HIDE DEF m
<1>. QED  BY <1>1, <1>2, <1>3, <1>4 DEF Genuine, m

LEMMA WireInvSend ==
  ASSUME WireInv, NEW n \in Node, NEW mx \in MaxRxmits,
         NEW r \in Node \ {n}, Send(n, r, mx)
  PROVE  WireConsistent' /\ AckedWasDelivered'
<1>1. PICK k \in Nat : k = sends[n] + 1
  BY DEF WireInv, BufferInv, TypeOK
<1>c. PICK c : c = Accept(conn[n], sends[n] + 1, r, mx)
  OBVIOUS
<1>d. PICK d : d = CountTransmission(c)
  OBVIOUS
<1>2. sends[n] \in Nat /\ opened[n] \in Nat /\ conn[n].open /\ ~conn[n].is_tx
      /\ conn[n] \in Conn
  BY DEF WireInv, BufferInv, TypeOK, Send, CanSend
<1>3. c.buf.pkt = k /\ c.buf.id = conn[n].sndnxt /\ c.sndnxt = conn[n].sndnxt
  BY <1>1, <1>c DEF Accept
<1>4. d.buf = c.buf /\ d.sndnxt = c.sndnxt
  <2>1. d = [c EXCEPT !.rxmit = @ + 1]
    BY <1>d DEF CountTransmission
  <2>. QED  BY <2>1, <1>c DEF Accept
<1>5. conn' = [conn EXCEPT ![n] = d] /\ sends' = [sends EXCEPT ![n] = k]
      /\ UNCHANGED <<opened, got, acked>>
  BY <1>1, <1>c, <1>d DEF Send
<1>6. opened[n] <= sends[n] /\ conn[n].sndnxt = (sends[n] - opened[n]) % IdSpace
  BY <1>2 DEF WireInv, WireConsistent, Numbering, Numbered
<1>7. k - opened[n] - 1 = sends[n] - opened[n]
  BY <1>1, <1>2
<1>8. d.is_tx = TRUE
  <2>1. d = [c EXCEPT !.rxmit = @ + 1]
    BY <1>d DEF CountTransmission
  <2>. QED  BY <2>1, <1>c DEF Accept
<1>9. air' \subseteq air \cup {DataFrame(n, c)}
  BY <1>c DEF Send, Transmit
<1>10. Numbered(d, k, opened[n])
  BY <1>1, <1>2, <1>3, <1>4, <1>6, <1>7, <1>8 DEF Numbered
<1>11. Numbering'
  BY <1>5, <1>10, NumberingStep
<1>12. Genuine(DataFrame(n, c))'
  <2>1. conn'[n].buf.to = c.buf.to
    BY <1>4, <1>5 DEF WireInv, BufferInv, TypeOK
  <2>. QED  BY <1>1, <1>2, <1>3, <1>5, <2>1, NewFrameGenuine
<1>13. FramesGenuine'
  <2>1. PICK New : New = {DataFrame(n, c)}
    OBVIOUS
  <2>2. air' \subseteq air \cup New /\ \A m \in New : Genuine(m)'
    BY <1>9, <1>12, <2>1
  <2>3. sends[n] <= k /\ k > sends[n]
    BY <1>1, <1>2
  <2>. QED  BY <1>5, <2>2, <2>3, FramesStep
<1>14. AckedWasDelivered'
  BY <1>5, ReportsStep
<1>. QED  BY <1>11, <1>13, <1>14 DEF WireConsistent

LEMMA WireInvSendLast ==
  ASSUME WireInv, NEW n \in Node, NEW mx \in MaxRxmits,
         NEW r \in Node \ {n}, SendLast(n, r, mx)
  PROVE  WireConsistent' /\ AckedWasDelivered'
<1>1. PICK k \in Nat : k = sends[n] + 1
  BY DEF WireInv, BufferInv, TypeOK
<1>c. PICK c : c = Accept(conn[n], sends[n] + 1, r, mx)
  OBVIOUS
<1>d. PICK d : d = AfterTimedout(GiveUp(c))
  OBVIOUS
<1>2. sends[n] \in Nat /\ opened[n] \in Nat /\ conn[n].open /\ ~conn[n].is_tx
      /\ conn[n] \in Conn /\ mx \in Byte /\ r \in Node
  BY RunicastAssumption DEF WireInv, BufferInv, TypeOK, SendLast, CanSend, Byte
<1>3. c.buf.pkt = k /\ c.buf.id = conn[n].sndnxt /\ c.sndnxt = conn[n].sndnxt
  BY <1>1, <1>c DEF Accept
<1>4. c \in Conn
  BY <1>1, <1>2, <1>c, AcceptType
<1>5. d.is_tx = FALSE /\ d.sndnxt = NextId(c.sndnxt)
  BY <1>4, <1>d, ExpireType
<1>6. conn' = [conn EXCEPT ![n] = d] /\ sends' = [sends EXCEPT ![n] = k]
      /\ UNCHANGED <<opened, got, acked>>
  BY <1>1, <1>c, <1>d DEF SendLast
<1>7. opened[n] <= sends[n] /\ conn[n].sndnxt = (sends[n] - opened[n]) % IdSpace
  BY <1>2 DEF WireInv, WireConsistent, Numbering, Numbered
<1>8. d.sndnxt = (k - opened[n]) % IdSpace
  <2>1. sends[n] - opened[n] \in Nat /\ k - opened[n] = (sends[n] - opened[n]) + 1
    BY <1>1, <1>2, <1>7
  <2>. QED  BY <1>3, <1>5, <1>7, <2>1, NextIdMod
<1>9. Numbered(d, k, opened[n])
  BY <1>1, <1>2, <1>5, <1>7, <1>8 DEF Numbered
<1>10. Numbering'
  BY <1>6, <1>9, NumberingStep
<1>11. ~Sending(n)'
  BY <1>5, <1>6 DEF Sending, WireInv, BufferInv, TypeOK
<1>12. Genuine(DataFrame(n, c))'
  BY <1>1, <1>2, <1>3, <1>6, <1>11, NewFrameGenuine
<1>13. FramesGenuine'
  <2>1. PICK New : New = {DataFrame(n, c)}
    OBVIOUS
  <2>2. air' \subseteq air \cup New /\ \A m \in New : Genuine(m)'
    BY <1>12, <2>1, <1>c DEF SendLast, Transmit
  <2>3. sends[n] <= k /\ k > sends[n]
    BY <1>1, <1>2
  <2>. QED  BY <1>6, <2>2, <2>3, FramesStep
<1>14. AckedWasDelivered'
  BY <1>6, ReportsStep
<1>. QED  BY <1>10, <1>13, <1>14 DEF WireConsistent

LEMMA WireInvTimerWithoutBuffer ==
  ASSUME WireInv, NEW n \in Node, TimerWithoutBuffer(n)
  PROVE  WireConsistent' /\ AckedWasDelivered'
<1>d. PICK d : d = [conn[n] EXCEPT !.timer = FALSE]
  OBVIOUS
<1>1. conn[n] \in Conn /\ sends[n] \in Nat /\ opened[n] \in Nat
  BY DEF WireInv, BufferInv, TypeOK
<1>2. d.buf = conn[n].buf /\ d.open = conn[n].open /\ d.is_tx = conn[n].is_tx
      /\ d.sndnxt = conn[n].sndnxt
  BY <1>1, <1>d, TimerType
<1>3. conn' = [conn EXCEPT ![n] = d] /\ sends' = [sends EXCEPT ![n] = sends[n]]
      /\ UNCHANGED <<opened, got, acked, air>>
  BY <1>d DEF TimerWithoutBuffer, WireInv, BufferInv, TypeOK, ghosts
<1>4. ~(d.open /\ d.is_tx)
  BY <1>2 DEF WireInv, BufferInv, BuffersAccounted, Sending, TimerWithoutBuffer
<1>5. Numbered(d, sends[n], opened[n])
  BY <1>2 DEF Numbered, WireInv, WireConsistent, Numbering
<1>6. Numbering'
  BY <1>1, <1>3, <1>5, NumberingStep
<1>7. FramesGenuine'
  <2>1. sends[n] <= sends[n] /\ air' \subseteq air \cup {}
    BY <1>1, <1>3
  <2>2. PICK New : New = {}
    OBVIOUS
  <2>3. air' \subseteq air \cup New /\ \A m \in New : Genuine(m)'
    BY <2>1, <2>2
  <2>. QED  BY <1>1, <1>3, <1>4, <2>1, <2>3, FramesStep
<1>8. AckedWasDelivered'
  BY <1>3, ReportsStep
<1>. QED  BY <1>6, <1>7, <1>8 DEF WireConsistent

\* The packet held by a connection, as the invariant describes it.
LEMMA HeldPacket ==
  ASSUME WireInv, NEW n \in Node, conn[n].buf # NoBuf
  PROVE  /\ conn[n] \in Conn /\ conn[n].buf \in Buffer
         /\ conn[n].open /\ conn[n].is_tx /\ Sending(n)
         /\ sends[n] \in Nat /\ opened[n] \in Nat /\ opened[n] < sends[n]
         /\ conn[n].sndnxt = (sends[n] - opened[n] - 1) % IdSpace
         /\ conn[n].buf.pkt = sends[n] /\ conn[n].buf.id = conn[n].sndnxt
<1>1. /\ conn[n] \in Conn /\ conn[n].buf \in Buffer
      /\ conn[n].open /\ conn[n].is_tx
  BY BufferHeld DEF WireInv
<1>2. Numbered(conn[n], sends[n], opened[n])
  BY DEF WireInv, WireConsistent, Numbering
<1>. QED  BY <1>1, <1>2 DEF Numbered, Sending, WireInv, BufferInv, TypeOK

\* A retransmission, the last one or not, is as genuine as the first frame.
LEMMA HeldFrameGenuine ==
  ASSUME WireInv, NEW n \in Node, conn[n].buf # NoBuf, NEW c, c = conn[n],
         UNCHANGED <<sends, opened>>,
         Sending(n)' => conn'[n].buf.to = c.buf.to
  PROVE  Genuine(DataFrame(n, c))'
<1>1. /\ sends[n] \in Nat /\ opened[n] \in Nat /\ opened[n] < sends[n]
      /\ conn[n].sndnxt = (sends[n] - opened[n] - 1) % IdSpace
      /\ conn[n].buf.pkt = sends[n] /\ conn[n].buf.id = conn[n].sndnxt
  BY HeldPacket
<1>2. PICK m : m = DataFrame(n, c)
  OBVIOUS
<1>3. m.src = n /\ m.dst = c.buf.to /\ m.id = c.buf.id /\ m.pkt = c.buf.pkt
      /\ m.type = "data"
  BY <1>2 DEF DataFrame
<1>4. Genuine(m)'
  BY <1>1, <1>3 DEF Genuine
<1>. QED  BY <1>2, <1>4

LEMMA WireInvRetransmit ==
  ASSUME WireInv, NEW n \in Node, Retransmit(n)
  PROVE  WireConsistent' /\ AckedWasDelivered'
<1>c. PICK c : c = conn[n]
  OBVIOUS
<1>d. PICK d : d = [CountTransmission(c) EXCEPT !.timer = TRUE]
  OBVIOUS
<1>1. /\ conn[n].buf # NoBuf /\ c \in Conn /\ c.open /\ c.is_tx /\ Sending(n)
      /\ sends[n] \in Nat /\ opened[n] \in Nat /\ opened[n] < sends[n]
      /\ c.sndnxt = (sends[n] - opened[n] - 1) % IdSpace
      /\ c.buf.pkt = sends[n] /\ c.buf.id = c.sndnxt
  BY <1>c, HeldPacket DEF Retransmit
<1>2. d.buf = c.buf /\ d.is_tx = c.is_tx /\ d.open = c.open /\ d.sndnxt = c.sndnxt
  <2>1. PICK e \in Conn : e = CountTransmission(c) /\ e.buf = c.buf
          /\ e.is_tx = c.is_tx /\ e.open = c.open /\ e.sndnxt = c.sndnxt
    BY <1>1, <1>c, CountType DEF Retransmit
  <2>. QED  BY <1>d, <2>1, TimerType
<1>3. conn' = [conn EXCEPT ![n] = d] /\ sends' = [sends EXCEPT ![n] = sends[n]]
      /\ UNCHANGED <<sends, opened, got, acked>>
  BY <1>c, <1>d DEF Retransmit, WireInv, BufferInv, TypeOK
<1>4. Numbered(d, sends[n], opened[n])
  BY <1>1, <1>2 DEF Numbered
<1>5. Numbering'
  BY <1>1, <1>3, <1>4, NumberingStep
<1>6. Genuine(DataFrame(n, c))'
  <2>1. conn'[n].buf.to = c.buf.to
    BY <1>2, <1>3 DEF WireInv, BufferInv, TypeOK
  <2>. QED  BY <1>1, <1>3, <1>c, <2>1, HeldFrameGenuine
<1>7. FramesGenuine'
  <2>1. PICK New : New = {DataFrame(n, c)}
    OBVIOUS
  <2>2. air' \subseteq air \cup New /\ \A m \in New : Genuine(m)'
    BY <1>6, <1>c, <2>1 DEF Retransmit, Transmit
  <2>3. sends[n] <= sends[n] /\ d.buf = conn[n].buf
    BY <1>1, <1>2, <1>c
  <2>. QED  BY <1>1, <1>3, <2>2, <2>3, FramesStep
<1>8. AckedWasDelivered'
  BY <1>3, ReportsStep
<1>. QED  BY <1>5, <1>7, <1>8 DEF WireConsistent

LEMMA WireInvRetransmitLast ==
  ASSUME WireInv, NEW n \in Node, RetransmitLast(n)
  PROVE  WireConsistent' /\ AckedWasDelivered'
<1>c. PICK c : c = conn[n]
  OBVIOUS
<1>d. PICK d : d = [AfterTimedout(GiveUp(c)) EXCEPT !.timer = TRUE]
  OBVIOUS
<1>1. /\ conn[n].buf # NoBuf /\ c \in Conn /\ Sending(n)
      /\ sends[n] \in Nat /\ opened[n] \in Nat /\ opened[n] < sends[n]
      /\ c.sndnxt = (sends[n] - opened[n] - 1) % IdSpace
  BY <1>c, HeldPacket DEF RetransmitLast
<1>2. d.is_tx = FALSE /\ d.sndnxt = NextId(c.sndnxt)
  <2>1. PICK e \in Conn : e = AfterTimedout(GiveUp(c)) /\ e.is_tx = FALSE
          /\ e.sndnxt = NextId(c.sndnxt)
    BY <1>1, ExpireType
  <2>. QED  BY <1>d, <2>1, TimerType
<1>3. conn' = [conn EXCEPT ![n] = d] /\ sends' = [sends EXCEPT ![n] = sends[n]]
      /\ UNCHANGED <<sends, opened, got, acked>>
  BY <1>c, <1>d DEF RetransmitLast, WireInv, BufferInv, TypeOK
<1>4. d.sndnxt = (sends[n] - opened[n]) % IdSpace
  <2>1. PICK j \in Nat : j = sends[n] - opened[n] - 1
    BY <1>1
  <2>2. j + 1 = sends[n] - opened[n]
    BY <1>1, <2>1
  <2>. QED  BY <1>1, <1>2, <2>1, <2>2, NextIdMod
<1>5. Numbered(d, sends[n], opened[n])
  BY <1>1, <1>2, <1>4 DEF Numbered
<1>6. Numbering'
  BY <1>1, <1>3, <1>5, NumberingStep
<1>7. ~Sending(n)'
  BY <1>2, <1>3 DEF Sending, WireInv, BufferInv, TypeOK
<1>8. Genuine(DataFrame(n, c))'
  BY <1>1, <1>3, <1>c, <1>7, HeldFrameGenuine
<1>9. FramesGenuine'
  <2>1. PICK New : New = {DataFrame(n, c)}
    OBVIOUS
  <2>2. air' \subseteq air \cup New /\ \A m \in New : Genuine(m)'
    BY <1>8, <1>c, <2>1 DEF RetransmitLast, Transmit
  <2>3. sends[n] <= sends[n] /\ ~(d.open /\ d.is_tx)
    BY <1>1, <1>2
  <2>. QED  BY <1>1, <1>3, <2>2, <2>3, FramesStep
<1>10. AckedWasDelivered'
  BY <1>3, ReportsStep
<1>. QED  BY <1>6, <1>9, <1>10 DEF WireConsistent

\* A step that leaves connections and numbering alone and brings no frame but
\* acknowledgements of delivered packets.
LEMMA AirStep ==
  ASSUME WireInv, UNCHANGED <<conn, sends, opened>>, got \subseteq got',
         NEW New, air' \subseteq air \cup New,
         \A m \in New : Genuine(m)'
  PROVE  WireConsistent'
<1>1. Numbering'
  BY DEF WireInv, WireConsistent, Numbering, Numbered
<1>2. FramesGenuine'
  BY DEF WireInv, WireConsistent, FramesGenuine, Genuine, Sending
<1>. QED  BY <1>1, <1>2 DEF WireConsistent

\* A step that only takes frames out of the air.
LEMMA LossStep ==
  ASSUME WireInv, UNCHANGED <<conn, sends, opened, got, acked>>,
         air' \subseteq air
  PROVE  WireConsistent' /\ AckedWasDelivered'
<1>1. PICK New : New = {}
  OBVIOUS
<1>2. air' \subseteq air \cup New /\ \A m \in New : Genuine(m)'
  BY <1>1
<1>3. WireConsistent'
  BY <1>2, AirStep
<1>. QED  BY <1>3, ReportsStep

LEMMA WireInvRecvData ==
  ASSUME WireInv, NEW n \in Node, NEW m \in air, NEW keep \in BOOLEAN,
         RecvData(n, m, keep)
  PROVE  WireConsistent' /\ AckedWasDelivered'
<1>1. m \in Frame /\ Genuine(m) /\ m.dst = n
  BY DEF RecvData, WireInv, WireConsistent, FramesGenuine, BufferInv, TypeOK
<1>2. PICK a : a = [m EXCEPT !.type = "ack"]
  OBVIOUS
<1>3. a.src = m.src /\ a.dst = m.dst /\ a.id = m.id /\ a.pkt = m.pkt
  BY <1>1, <1>2 DEF Frame
<1>4. UNCHANGED <<conn, sends, opened, acked>> /\ <<m.src, m.pkt, n>> \in got'
      /\ got \subseteq got'
  BY DEF RecvData
<1>5. Genuine(a)'
  BY <1>1, <1>3, <1>4 DEF Genuine, Sending
<1>6. PICK New : New = {a}
  OBVIOUS
<1>7. air' \subseteq air \cup New /\ \A x \in New : Genuine(x)'
  BY <1>2, <1>5, <1>6 DEF RecvData
<1>8. WireConsistent'
  BY <1>4, <1>7, AirStep
<1>. QED  BY <1>4, <1>8, ReportsStep

\* The heart of the argument: the identifier of a fresh acknowledgement equals
\* sndnxt only if it acknowledges the packet being transmitted.
LEMMA FreshAckIsOwn ==
  ASSUME WireInv, SafeLag, NEW n \in Node, NEW m \in air, NEW keep \in BOOLEAN,
         RecvAck(n, m, keep)
  PROVE  /\ conn[n].is_tx
         /\ <<n, conn[n].buf.pkt, conn[n].buf.to>> \in got
<1>1. /\ m \in Frame /\ Genuine(m) /\ m.src = n /\ m.type = "ack"
      /\ conn[n].open /\ m.id = conn[n].sndnxt /\ sends[n] - m.pkt < AckLag
      /\ m.pkt \in Nat /\ sends[n] \in Nat /\ opened[n] \in Nat /\ conn[n] \in Conn
  BY DEF RecvAck, Fresh, WireInv, WireConsistent, FramesGenuine, BufferInv,
         TypeOK, Frame
<1>2. /\ opened[n] < m.pkt /\ m.pkt <= sends[n]
      /\ m.id = (m.pkt - opened[n] - 1) % IdSpace
      /\ <<n, m.pkt, m.dst>> \in got
      /\ Sending(n) /\ m.pkt = sends[n] => m.dst = conn[n].buf.to
  BY <1>1 DEF Genuine
<1>3. Numbered(conn[n], sends[n], opened[n])
  BY DEF WireInv, WireConsistent, Numbering
<1>4. PICK j \in Nat : j = m.pkt - opened[n] - 1
  BY <1>1, <1>2
<1>5. sends[n] - m.pkt < IdSpace - 1
  BY <1>1, RunicastAssumption DEF SafeLag, IdSpace
<1>6. conn[n].is_tx
  <2>1. SUFFICES ASSUME ~conn[n].is_tx  PROVE FALSE
    OBVIOUS
  <2>2. PICK k \in Nat : k = sends[n] - opened[n]
    BY <1>1, <1>2
  <2>3. j % IdSpace = k % IdSpace /\ j <= k /\ k - j < IdSpace
    BY <1>1, <1>2, <1>3, <1>4, <1>5, <2>1, <2>2 DEF Numbered, IdSpace
  <2>4. j = k
    BY <2>3, IdsDistinct
  <2>. QED  BY <1>1, <1>2, <1>4, <2>2, <2>4
<1>7. m.pkt = sends[n] /\ conn[n].buf.pkt = sends[n]
  <2>1. PICK k \in Nat : k = sends[n] - opened[n] - 1
    BY <1>1, <1>2
  <2>2. j % IdSpace = k % IdSpace /\ j <= k /\ k - j < IdSpace
    BY <1>1, <1>2, <1>3, <1>4, <1>5, <1>6, <2>1 DEF Numbered, IdSpace
  <2>3. j = k
    BY <2>2, IdsDistinct
  <2>4. conn[n].buf.pkt = sends[n]
    BY <1>1, <1>3, <1>6 DEF Numbered
  <2>. QED  BY <1>1, <1>2, <1>4, <2>1, <2>3, <2>4
<1>. QED  BY <1>1, <1>2, <1>6, <1>7 DEF Sending

LEMMA WireInvRecvAck ==
  ASSUME WireInv, SafeLag, NEW n \in Node, NEW m \in air, NEW keep \in BOOLEAN,
         RecvAck(n, m, keep)
  PROVE  WireConsistent' /\ AckedWasDelivered'
<1>d. PICK d : d = Acknowledge(conn[n])
  OBVIOUS
<1>1. /\ conn[n] \in Conn /\ conn[n].open
      /\ sends[n] \in Nat /\ opened[n] \in Nat
  BY DEF WireInv, BufferInv, TypeOK, RecvAck
<1>2. conn[n].is_tx /\ <<n, conn[n].buf.pkt, conn[n].buf.to>> \in got
  BY FreshAckIsOwn
<1>3. d.is_tx = FALSE /\ d.sndnxt = NextId(conn[n].sndnxt)
  BY <1>1, <1>d, AcknowledgeType
<1>4. conn' = [conn EXCEPT ![n] = d] /\ sends' = [sends EXCEPT ![n] = sends[n]]
      /\ UNCHANGED <<opened, got>> /\ air' \subseteq air
  BY <1>d DEF RecvAck, WireInv, BufferInv, TypeOK
<1>5. opened[n] < sends[n] /\ conn[n].sndnxt = (sends[n] - opened[n] - 1) % IdSpace
  BY <1>1, <1>2 DEF WireInv, WireConsistent, Numbering, Numbered
<1>6. d.sndnxt = (sends[n] - opened[n]) % IdSpace
  <2>1. PICK j \in Nat : j = sends[n] - opened[n] - 1
    BY <1>1, <1>5
  <2>2. j + 1 = sends[n] - opened[n]
    BY <1>1, <2>1
  <2>. QED  BY <1>3, <1>5, <2>1, <2>2, NextIdMod
<1>7. Numbered(d, sends[n], opened[n])
  BY <1>1, <1>3, <1>5, <1>6 DEF Numbered
<1>8. Numbering'
  BY <1>1, <1>4, <1>7, NumberingStep
<1>9. FramesGenuine'
  <2>1. sends[n] <= sends[n] /\ ~(d.open /\ d.is_tx)
    BY <1>1, <1>3
  <2>2. PICK New : New = {}
    OBVIOUS
  <2>3. air' \subseteq air \cup New /\ \A x \in New : Genuine(x)'
    BY <1>4, <2>2
  <2>. QED  BY <1>1, <1>4, <2>1, <2>3, FramesStep
<1>10. AckedWasDelivered'
  <2>1. acked' = [acked EXCEPT ![n] = @ \cup {<<conn[n].buf.pkt, conn[n].buf.to>>}]
    BY DEF RecvAck
  <2>2. ASSUME NEW k \in Node, NEW e \in acked'[k]
        PROVE  <<k, e[1], e[2]>> \in got
    <3>1. CASE e \in acked[k]
      BY <3>1 DEF WireInv, AckedWasDelivered
    <3>2. CASE e \notin acked[k]
      <4>1. k = n /\ e = <<conn[n].buf.pkt, conn[n].buf.to>>
        BY <2>1, <2>2, <3>2 DEF WireInv, BufferInv, TypeOK
      <4>. QED  BY <1>2, <4>1
    <3>. QED  BY <3>1, <3>2
  <2>. QED  BY <1>4, <2>2 DEF AckedWasDelivered
<1>. QED  BY <1>8, <1>9, <1>10 DEF WireConsistent

LEMMA WireInvClose ==
  ASSUME WireInv, NEW n \in Node, Close(n)
  PROVE  WireConsistent' /\ AckedWasDelivered'
<1>d. PICK d : d = runicast_close(conn[n])
  OBVIOUS
<1>1. conn[n] \in Conn /\ sends[n] \in Nat /\ opened[n] <= sends[n]
  BY DEF WireInv, BufferInv, TypeOK, WireConsistent, Numbering, Numbered
<1>2. d.open = FALSE
  BY <1>1, <1>d, CloseType
<1>3. conn' = [conn EXCEPT ![n] = d] /\ sends' = [sends EXCEPT ![n] = sends[n]]
      /\ UNCHANGED <<opened, got, acked, air>>
  BY <1>d DEF Close, WireInv, BufferInv, TypeOK, ghosts
<1>4. Numbered(d, sends[n], opened[n])
  BY <1>1, <1>2 DEF Numbered
<1>5. Numbering'
  BY <1>1, <1>3, <1>4, NumberingStep
<1>6. FramesGenuine'
  <2>1. sends[n] <= sends[n] /\ ~(d.open /\ d.is_tx)
    BY <1>1, <1>2
  <2>2. PICK New : New = {}
    OBVIOUS
  <2>3. air' \subseteq air \cup New /\ \A x \in New : Genuine(x)'
    BY <1>3, <2>2
  <2>. QED  BY <1>1, <1>3, <2>1, <2>3, FramesStep
<1>. QED  BY <1>3, <1>5, <1>6, ReportsStep DEF WireConsistent

LEMMA WireInvOpen ==
  ASSUME WireInv, NEW n \in Node, Open(n)
  PROVE  WireConsistent' /\ AckedWasDelivered'
<1>d. PICK d : d = runicast_open(conn[n])
  OBVIOUS
<1>1. d.is_tx = FALSE /\ d.sndnxt = 0 /\ d.open = TRUE
  BY <1>d DEF runicast_open
<1>2. conn' = [conn EXCEPT ![n] = d] /\ opened' = [opened EXCEPT ![n] = sends[n]]
      /\ UNCHANGED <<sends, got, acked, air>> /\ \A m \in air : m.src # n
  BY <1>d DEF Open
<1>3. ASSUME NEW k \in Node
      PROVE  Numbered(conn'[k], sends'[k], opened'[k])
  <2>1. CASE k = n
    <3>1. conn'[k] = d /\ sends'[k] = sends[n] /\ opened'[k] = sends[n]
          /\ sends[n] \in Nat
      BY <1>2, <2>1 DEF WireInv, BufferInv, TypeOK
    <3>2. (sends[n] - sends[n]) % IdSpace = 0
      BY <3>1 DEF IdSpace
    <3>. QED  BY <1>1, <3>1, <3>2 DEF Numbered
  <2>2. CASE k # n
    BY <1>2, <2>2 DEF WireInv, WireConsistent, Numbering, BufferInv, TypeOK
  <2>. QED  BY <2>1, <2>2
<1>4. ASSUME NEW m \in air'
      PROVE  Genuine(m)'
  <2>1. m \in Frame /\ Genuine(m) /\ m.src \in Node /\ m.src # n
    BY <1>2 DEF WireInv, WireConsistent, FramesGenuine, BufferInv, TypeOK, Frame
  <2>2. conn'[m.src] = conn[m.src] /\ opened'[m.src] = opened[m.src]
        /\ sends'[m.src] = sends[m.src] /\ got' = got
    BY <1>2, <2>1 DEF WireInv, BufferInv, TypeOK
  <2>. QED  BY <2>1, <2>2 DEF Genuine, Sending
<1>5. WireConsistent'
  BY <1>3, <1>4 DEF WireConsistent, Numbering, Numbered, FramesGenuine
<1>. QED  BY <1>2, <1>5, ReportsStep

LEMMA WireInvNext == SafeLag /\ WireInv /\ [Next]_vars => WireInv'
<1>. SUFFICES ASSUME SafeLag, WireInv, [Next]_vars
              PROVE  WireInv'
  OBVIOUS
<1>0. BufferInv'
  BY BufferInvNext DEF WireInv
<1>1. ASSUME NEW n \in Node, NEW mx \in MaxRxmits, SendNoBuffer(n, mx)
      PROVE  WireConsistent' /\ AckedWasDelivered'
  BY <1>1, WireInvSendNoBuffer
<1>2. ASSUME NEW n \in Node, NEW mx \in MaxRxmits, NEW r \in Node \ {n},
             Send(n, r, mx)
      PROVE  WireConsistent' /\ AckedWasDelivered'
  BY <1>2, WireInvSend
<1>3. ASSUME NEW n \in Node, NEW mx \in MaxRxmits, NEW r \in Node \ {n},
             SendLast(n, r, mx)
      PROVE  WireConsistent' /\ AckedWasDelivered'
  BY <1>3, WireInvSendLast
<1>4. ASSUME NEW n \in Node, NEW mx \in MaxRxmits, NEW mx2 \in MaxRxmits,
             NEW r \in Node \ {n}, NEW r2 \in Node \ {n},
             SendLastAndSend(n, r, mx, r2, mx2)
      PROVE  WireConsistent' /\ AckedWasDelivered'
  BY <1>4 DEF SendLastAndSend, SafeLag
<1>5. ASSUME NEW n \in Node, TimerFires(n)
      PROVE  WireConsistent' /\ AckedWasDelivered'
  BY <1>5, WireInvTimerWithoutBuffer, WireInvRetransmit, WireInvRetransmitLast
     DEF TimerFires, RetransmitLastAndSend, SafeLag
<1>6. ASSUME NEW n \in Node, NEW m \in air, NEW keep \in BOOLEAN,
             RecvData(n, m, keep)
      PROVE  WireConsistent' /\ AckedWasDelivered'
  BY <1>6, WireInvRecvData
<1>7. ASSUME NEW n \in Node, NEW m \in air, NEW keep \in BOOLEAN,
             RecvAck(n, m, keep)
      PROVE  WireConsistent' /\ AckedWasDelivered'
  BY <1>7, WireInvRecvAck
<1>8. ASSUME NEW n \in Node, NEW m \in air, RecvBadAck(n, m)
      PROVE  WireConsistent' /\ AckedWasDelivered'
  BY <1>8, LossStep DEF RecvBadAck, ghosts
<1>9. ASSUME NEW m \in air, LoseFrame(m)
      PROVE  WireConsistent' /\ AckedWasDelivered'
  BY <1>9, LossStep DEF LoseFrame, ghosts
<1>10. ASSUME NEW n \in Node, Close(n) \/ Open(n)
       PROVE  WireConsistent' /\ AckedWasDelivered'
  BY <1>10, WireInvClose, WireInvOpen
<1>11. ASSUME NEW n \in Node, TakeQueuebuf(n) \/ ReturnQueuebuf(n)
       PROVE  WireConsistent' /\ AckedWasDelivered'
  BY <1>11, LossStep DEF TakeQueuebuf, ReturnQueuebuf, ghosts
<1>12. ASSUME UNCHANGED vars
       PROVE  WireConsistent' /\ AckedWasDelivered'
  <2>1. conn' = conn /\ air' = air /\ ghosts' = ghosts
    BY <1>12 DEF vars
  <2>2. sends' = sends /\ opened' = opened /\ got' = got /\ acked' = acked
    BY <2>1 DEF ghosts
  <2>. QED  BY <2>1, <2>2, LossStep
<1>13. WireConsistent' /\ AckedWasDelivered'
  <2>. QED  BY <1>1, <1>2, <1>3, <1>4, <1>5, <1>6, <1>7, <1>8, <1>9, <1>10,
               <1>11, <1>12 DEF Next
<1>. QED  BY <1>0, <1>13 DEF WireInv

\* The sent callback is only ever made for a packet that its receiver has been
\* handed, however frames are lost, delayed, duplicated and acknowledged late.
THEOREM SentIsDelivered ==
  ASSUME SafeLag
  PROVE  Spec => []AckedWasDelivered
<1>1. Init => WireInv
  BY WireInvInit
<1>2. WireInv /\ [Next]_vars => WireInv'
  BY WireInvNext, SafeLag
<1>3. WireInv => AckedWasDelivered
  BY DEF WireInv
<1>. QED  BY <1>1, <1>2, <1>3, PTL DEF Spec

\* The packet numbers, sndnxt and the frames in the air always agree.
THEOREM WireIsConsistent ==
  ASSUME SafeLag
  PROVE  Spec => []WireConsistent
<1>1. Init => WireInv
  BY WireInvInit
<1>2. WireInv /\ [Next]_vars => WireInv'
  BY WireInvNext, SafeLag
<1>3. WireInv => WireConsistent
  BY DEF WireInv
<1>. QED  BY <1>1, <1>2, <1>3, PTL DEF Spec

(***************************************************************************)
(* What runicast promises an application that does not send from its        *)
(* timedout callback                                                        *)
(***************************************************************************)

(***************************************************************************)
(* The number of transmissions                                              *)
(***************************************************************************)

\* The transmissions runicast.h allows a packet with a given max_rxmit.
Allowed(mx) == IF mx > 1 THEN mx ELSE 1

\* While a packet is being transmitted rxmit counts its transmissions, and one
\* more is to come.
Counted(c, t) ==
  /\ t <= Allowed(c.max_rxmit)
  /\ c.open /\ c.is_tx => t = c.rxmit /\ c.rxmit < c.max_rxmit

CountsExact == \A n \in Node : Counted(conn[n], tx[n])

CountInv == BufferInv /\ CountsExact

\* A step on node n's connection keeps the counts of every node.
LEMMA CountsStep ==
  ASSUME CountInv, NEW n \in Node, NEW d, NEW t,
         conn' = [conn EXCEPT ![n] = d],
         tx' = [tx EXCEPT ![n] = t],
         Counted(d, t)
  PROVE  CountsExact'
<1>1. ASSUME NEW k \in Node
      PROVE  Counted(conn'[k], tx'[k])
  <2>1. CASE k = n
    BY <2>1 DEF CountInv, BufferInv, TypeOK
  <2>2. CASE k # n
    BY <2>2 DEF CountInv, CountsExact, BufferInv, TypeOK
  <2>. QED  BY <2>1, <2>2
<1>. QED  BY <1>1 DEF CountsExact, Counted

LEMMA CountInvInit == Init => CountInv
<1>1. Init => CountsExact
  BY DEF Init, CountsExact, Counted, Allowed
<1>. QED  BY <1>1, BufferInvInit DEF CountInv

LEMMA CountsSendNoBuffer ==
  ASSUME CountInv, NEW n \in Node, NEW mx \in MaxRxmits, SendNoBuffer(n, mx)
  PROVE  CountsExact'
<1>d. PICK d : d = NoBuffer(conn[n], mx)
  OBVIOUS
<1>1. mx \in Byte /\ conn[n] \in Conn
  BY RunicastAssumption DEF CountInv, BufferInv, TypeOK, Byte
<1>2. d \in Conn /\ d.is_tx = conn[n].is_tx /\ ~conn[n].is_tx
  BY <1>1, <1>d, NoBufferType DEF SendNoBuffer, CanSend
<1>3. conn' = [conn EXCEPT ![n] = d] /\ tx' = [tx EXCEPT ![n] = 0]
  BY <1>d DEF SendNoBuffer
<1>4. Counted(d, 0)
  BY <1>2 DEF Counted, Allowed, Conn, Byte
<1>. QED  BY <1>3, <1>4, CountsStep

LEMMA CountsSend ==
  ASSUME CountInv, NEW n \in Node, NEW mx \in MaxRxmits,
         NEW r \in Node \ {n}, Send(n, r, mx)
  PROVE  CountsExact'
<1>c. PICK c : c = Accept(conn[n], sends[n] + 1, r, mx)
  OBVIOUS
<1>d. PICK d : d = CountTransmission(c)
  OBVIOUS
<1>1. mx \in Byte /\ c.rxmit = 0 /\ c.max_rxmit = mx /\ ~LastTransmission(c)
  BY <1>c, RunicastAssumption DEF Accept, Send, Byte
<1>2. d.rxmit = 1 /\ d.max_rxmit = mx
  BY <1>c, <1>d DEF CountTransmission, Accept
<1>3. 1 < mx
  BY <1>1 DEF LastTransmission, Byte
<1>4. conn' = [conn EXCEPT ![n] = d] /\ tx' = [tx EXCEPT ![n] = 1]
  BY <1>c, <1>d DEF Send
<1>5. Counted(d, 1)
  BY <1>1, <1>2, <1>3 DEF Counted, Allowed, Byte
<1>. QED  BY <1>4, <1>5, CountsStep

LEMMA CountsSendLast ==
  ASSUME CountInv, NEW n \in Node, NEW mx \in MaxRxmits,
         NEW r \in Node \ {n}, SendLast(n, r, mx)
  PROVE  CountsExact'
<1>k. PICK k \in Nat : k = sends[n] + 1
  BY DEF CountInv, BufferInv, TypeOK
<1>c. PICK c : c = Accept(conn[n], sends[n] + 1, r, mx)
  OBVIOUS
<1>d. PICK d : d = AfterTimedout(GiveUp(c))
  OBVIOUS
<1>1. mx \in Byte /\ conn[n] \in Conn /\ r \in Node
  BY RunicastAssumption DEF CountInv, BufferInv, TypeOK, Byte
<1>2. c \in Conn
  BY <1>1, <1>k, <1>c, AcceptType
<1>3. d \in Conn /\ d.is_tx = FALSE
  BY <1>2, <1>d, ExpireType
<1>4. conn' = [conn EXCEPT ![n] = d] /\ tx' = [tx EXCEPT ![n] = 1]
  BY <1>c, <1>d DEF SendLast
<1>5. Counted(d, 1)
  BY <1>3 DEF Counted, Allowed, Conn, Byte
<1>. QED  BY <1>4, <1>5, CountsStep

\* The connection whose timer finds a buffer is transmitting it.
LEMMA HeldCounted ==
  ASSUME CountInv, NEW n \in Node, conn[n].buf # NoBuf
  PROVE  /\ conn[n] \in Conn
         /\ tx[n] = conn[n].rxmit
         /\ conn[n].rxmit < conn[n].max_rxmit
<1>1. Sending(n)
  BY DEF CountInv, BufferInv, BuffersAccounted
<1>. QED  BY <1>1 DEF CountInv, CountsExact, Counted, Sending, BufferInv, TypeOK

LEMMA CountsRetransmit ==
  ASSUME CountInv, NEW n \in Node, Retransmit(n)
  PROVE  CountsExact'
<1>c. PICK c : c = CountTransmission(conn[n])
  OBVIOUS
<1>d. PICK d : d = [c EXCEPT !.timer = TRUE]
  OBVIOUS
<1>1. conn[n] \in Conn /\ tx[n] = conn[n].rxmit /\ ~LastTransmission(conn[n])
  BY HeldCounted DEF Retransmit
<1>2. c \in Conn /\ c.rxmit = conn[n].rxmit + 1 /\ c.max_rxmit = conn[n].max_rxmit
  BY <1>1, <1>c, CountType
<1>3. d.rxmit = c.rxmit /\ d.max_rxmit = c.max_rxmit
  BY <1>2, <1>d, TimerType
<1>4. conn' = [conn EXCEPT ![n] = d] /\ tx' = [tx EXCEPT ![n] = tx[n] + 1]
  BY <1>c, <1>d DEF Retransmit
<1>5. PICK i \in Byte, mx \in Byte : i = conn[n].rxmit /\ mx = conn[n].max_rxmit
  BY <1>1 DEF Conn
<1>6. tx[n] + 1 = i + 1 /\ d.rxmit = i + 1 /\ d.max_rxmit = mx /\ i + 1 < mx
  BY <1>1, <1>2, <1>3, <1>5 DEF LastTransmission, Byte
<1>7. Counted(d, tx[n] + 1)
  BY <1>5, <1>6 DEF Counted, Allowed, Byte
<1>. QED  BY <1>4, <1>7, CountsStep

LEMMA CountsRetransmitLast ==
  ASSUME CountInv, NEW n \in Node, RetransmitLast(n)
  PROVE  CountsExact'
<1>c. PICK c : c = AfterTimedout(GiveUp(conn[n]))
  OBVIOUS
<1>d. PICK d : d = [c EXCEPT !.timer = TRUE]
  OBVIOUS
<1>1. conn[n] \in Conn /\ tx[n] = conn[n].rxmit
      /\ conn[n].rxmit < conn[n].max_rxmit
  BY HeldCounted DEF RetransmitLast
<1>2. c \in Conn /\ c.is_tx = FALSE /\ c.max_rxmit = conn[n].max_rxmit
  BY <1>1, <1>c, ExpireType
<1>3. d.is_tx = FALSE /\ d.max_rxmit = c.max_rxmit
  BY <1>2, <1>d, TimerType
<1>4. conn' = [conn EXCEPT ![n] = d] /\ tx' = [tx EXCEPT ![n] = tx[n] + 1]
  BY <1>c, <1>d DEF RetransmitLast
<1>5. PICK i \in Byte, mx \in Byte : i = conn[n].rxmit /\ mx = conn[n].max_rxmit
  BY <1>1 DEF Conn
<1>6. tx[n] + 1 = i + 1 /\ d.max_rxmit = mx /\ i < mx
  BY <1>1, <1>2, <1>3, <1>5
<1>7. Counted(d, tx[n] + 1)
  BY <1>3, <1>5, <1>6 DEF Counted, Allowed, Byte
<1>. QED  BY <1>4, <1>7, CountsStep

LEMMA CountsRecvAck ==
  ASSUME CountInv, NEW n \in Node, NEW m \in air, NEW keep \in BOOLEAN,
         RecvAck(n, m, keep)
  PROVE  CountsExact'
<1>d. PICK d : d = Acknowledge(conn[n])
  OBVIOUS
<1>1. conn[n] \in Conn
  BY DEF CountInv, BufferInv, TypeOK
<1>2. d.is_tx = FALSE /\ d.max_rxmit = conn[n].max_rxmit
  BY <1>1, <1>d, AcknowledgeType
<1>3. conn' = [conn EXCEPT ![n] = d] /\ tx' = [tx EXCEPT ![n] = tx[n]]
  BY <1>d DEF RecvAck, CountInv, BufferInv, TypeOK
<1>4. Counted(d, tx[n])
  BY <1>2 DEF Counted, CountInv, CountsExact
<1>. QED  BY <1>3, <1>4, CountsStep

LEMMA CountsClose ==
  ASSUME CountInv, NEW n \in Node, Close(n)
  PROVE  CountsExact'
<1>d. PICK d : d = runicast_close(conn[n])
  OBVIOUS
<1>1. conn[n] \in Conn
  BY DEF CountInv, BufferInv, TypeOK
<1>2. d.open = FALSE /\ d.max_rxmit = conn[n].max_rxmit
  BY <1>1, <1>d, CloseType
<1>3. conn' = [conn EXCEPT ![n] = d] /\ tx' = [tx EXCEPT ![n] = tx[n]]
  BY <1>d DEF Close, CountInv, BufferInv, TypeOK, ghosts
<1>4. Counted(d, tx[n])
  BY <1>2 DEF Counted, CountInv, CountsExact
<1>. QED  BY <1>3, <1>4, CountsStep

LEMMA CountsOpen ==
  ASSUME CountInv, NEW n \in Node, Open(n)
  PROVE  CountsExact'
<1>d. PICK d : d = runicast_open(conn[n])
  OBVIOUS
<1>1. d.is_tx = FALSE /\ d.max_rxmit = conn[n].max_rxmit
  BY <1>d DEF runicast_open
<1>2. conn' = [conn EXCEPT ![n] = d] /\ tx' = [tx EXCEPT ![n] = tx[n]]
  BY <1>d DEF Open, CountInv, BufferInv, TypeOK
<1>3. Counted(d, tx[n])
  BY <1>1 DEF Counted, CountInv, CountsExact
<1>. QED  BY <1>2, <1>3, CountsStep

\* A timer that finds no buffer leaves an idle connection idle.
LEMMA CountsTimerWithoutBuffer ==
  ASSUME CountInv, NEW n \in Node, TimerWithoutBuffer(n)
  PROVE  CountsExact'
<1>d. PICK d : d = [conn[n] EXCEPT !.timer = FALSE]
  OBVIOUS
<1>1. conn[n] \in Conn
  BY DEF CountInv, BufferInv, TypeOK
<1>2. d.open = conn[n].open /\ d.is_tx = conn[n].is_tx
      /\ d.rxmit = conn[n].rxmit /\ d.max_rxmit = conn[n].max_rxmit
  BY <1>1, <1>d, TimerType
<1>3. conn' = [conn EXCEPT ![n] = d] /\ tx' = [tx EXCEPT ![n] = tx[n]]
  BY <1>d DEF TimerWithoutBuffer, CountInv, BufferInv, TypeOK, ghosts
<1>4. Counted(d, tx[n])
  BY <1>2 DEF Counted, CountInv, CountsExact
<1>. QED  BY <1>3, <1>4, CountsStep

\* A step that leaves connections and transmissions alone.
LEMMA CountsQuiet ==
  ASSUME CountInv, UNCHANGED <<conn, tx>>
  PROVE  CountsExact'
  BY DEF CountInv, CountsExact, Counted

LEMMA CountInvNext == ~TimedoutSends /\ CountInv /\ [Next]_vars => CountInv'
<1>. SUFFICES ASSUME ~TimedoutSends, CountInv, [Next]_vars
              PROVE  CountInv'
  OBVIOUS
<1>0. BufferInv'
  BY BufferInvNext DEF CountInv
<1>1. ASSUME NEW n \in Node, NEW mx \in MaxRxmits, SendNoBuffer(n, mx)
      PROVE  CountsExact'
  BY <1>1, CountsSendNoBuffer
<1>2. ASSUME NEW n \in Node, NEW mx \in MaxRxmits, NEW r \in Node \ {n},
             Send(n, r, mx) \/ SendLast(n, r, mx)
      PROVE  CountsExact'
  BY <1>2, CountsSend, CountsSendLast
<1>3. ASSUME NEW n \in Node, NEW mx \in MaxRxmits, NEW mx2 \in MaxRxmits,
             NEW r \in Node \ {n}, NEW r2 \in Node \ {n},
             SendLastAndSend(n, r, mx, r2, mx2)
      PROVE  CountsExact'
  BY <1>3 DEF SendLastAndSend
<1>4. ASSUME NEW n \in Node, TimerFires(n)
      PROVE  CountsExact'
  BY <1>4, CountsTimerWithoutBuffer, CountsRetransmit, CountsRetransmitLast
     DEF TimerFires, RetransmitLastAndSend
<1>5. ASSUME NEW n \in Node, NEW m \in air, NEW keep \in BOOLEAN,
             RecvAck(n, m, keep)
      PROVE  CountsExact'
  BY <1>5, CountsRecvAck
<1>6. ASSUME NEW n \in Node, Close(n) \/ Open(n)
      PROVE  CountsExact'
  BY <1>6, CountsClose, CountsOpen
<1>7. ASSUME NEW n \in Node, NEW m \in air, NEW keep \in BOOLEAN,
             RecvData(n, m, keep) \/ RecvBadAck(n, m)
      PROVE  CountsExact'
  BY <1>7, CountsQuiet DEF RecvData, RecvBadAck, ghosts
<1>8. ASSUME NEW m \in air, LoseFrame(m)
      PROVE  CountsExact'
  BY <1>8, CountsQuiet DEF LoseFrame, ghosts
<1>9. ASSUME NEW n \in Node, TakeQueuebuf(n) \/ ReturnQueuebuf(n)
      PROVE  CountsExact'
  BY <1>9, CountsQuiet DEF TakeQueuebuf, ReturnQueuebuf, ghosts
<1>10. ASSUME UNCHANGED vars
       PROVE  CountsExact'
  <2>1. conn' = conn /\ ghosts' = ghosts
    BY <1>10 DEF vars
  <2>. QED  BY <2>1, CountsQuiet DEF ghosts
<1>11. CountsExact'
  BY <1>1, <1>2, <1>3, <1>4, <1>5, <1>6, <1>7, <1>8, <1>9, <1>10 DEF Next
<1>. QED  BY <1>0, <1>11 DEF CountInv

\* No packet is transmitted more often than the application allowed, however
\* acknowledgements, closes and timer expiries interleave, as long as no
\* application sends from its timedout callback: there rxmit is reset after the
\* new packet's first transmission has been counted.
THEOREM TransmissionsAreBounded ==
  ASSUME ~TimedoutSends
  PROVE  Spec => []TransmissionsBounded
<1>1. Init => CountInv
  BY CountInvInit
<1>2. CountInv /\ [Next]_vars => CountInv'
  BY CountInvNext
<1>3. CountInv => TransmissionsBounded
  BY DEF CountInv, CountsExact, Counted, Allowed, TransmissionsBounded
<1>. QED  BY <1>1, <1>2, <1>3, PTL DEF Spec

(***************************************************************************)
(* One verdict                                                              *)
(***************************************************************************)

\* No packet has both verdicts, and none has a verdict that is still to be
\* sent or is being transmitted.
JudgedOnce(c, s, a, e) ==
  /\ a \cap e = {}
  /\ \A v \in a \cup e : v[1] <= s
  /\ c.open /\ c.is_tx => \A v \in a \cup e : v[1] # s

VerdictsOnce ==
  \A n \in Node : JudgedOnce(conn[n], sends[n], acked[n], expired[n])

VerdictInv == WireInv /\ VerdictsOnce

\* A step on node n keeps the verdicts of every node single.
LEMMA VerdictsStep ==
  ASSUME VerdictInv, NEW n \in Node, NEW d, NEW s, NEW a, NEW e,
         conn' = [conn EXCEPT ![n] = d],
         sends' = [sends EXCEPT ![n] = s],
         acked' = [acked EXCEPT ![n] = a],
         expired' = [expired EXCEPT ![n] = e],
         JudgedOnce(d, s, a, e)
  PROVE  VerdictsOnce'
<1>1. ASSUME NEW k \in Node
      PROVE  JudgedOnce(conn'[k], sends'[k], acked'[k], expired'[k])
  <2>1. CASE k = n
    BY <2>1 DEF VerdictInv, WireInv, BufferInv, TypeOK
  <2>2. CASE k # n
    BY <2>2 DEF VerdictInv, VerdictsOnce, WireInv, BufferInv, TypeOK
  <2>. QED  BY <2>1, <2>2
<1>. QED  BY <1>1 DEF VerdictsOnce, JudgedOnce

\* What VerdictInv says of one node.
LEMMA VerdictNode ==
  ASSUME VerdictInv, NEW n \in Node
  PROVE  /\ conn[n] \in Conn /\ sends[n] \in Nat /\ opened[n] \in Nat
         /\ JudgedOnce(conn[n], sends[n], acked[n], expired[n])
         /\ \A v \in acked[n] \cup expired[n] : v[1] \in Nat
         /\ Numbered(conn[n], sends[n], opened[n])
<1>1. acked[n] \subseteq Nat \X (Node \cup {NoBuf.to})
      /\ expired[n] \subseteq Nat \X (Node \cup {NoBuf.to})
  BY DEF VerdictInv, WireInv, BufferInv, TypeOK
<1>2. \A v \in acked[n] \cup expired[n] : v[1] \in Nat
  BY <1>1
<1>. QED  BY <1>2 DEF VerdictInv, VerdictsOnce, WireInv, WireConsistent,
             Numbering, BufferInv, TypeOK

LEMMA VerdictInvInit == Init => VerdictInv
<1>1. Init => VerdictsOnce
  BY DEF Init, VerdictsOnce, JudgedOnce
<1>. QED  BY <1>1, WireInvInit DEF VerdictInv

\* A step that gives no verdict and starts no packet.
LEMMA VerdictsSilent ==
  ASSUME VerdictInv, NEW n \in Node, NEW d,
         conn' = [conn EXCEPT ![n] = d],
         UNCHANGED <<sends, acked, expired>>,
         d.open /\ d.is_tx => Sending(n)
  PROVE  VerdictsOnce'
<1>1. PICK s, a, e : s = sends[n] /\ a = acked[n] /\ e = expired[n]
  OBVIOUS
<1>2. JudgedOnce(d, s, a, e)
  BY <1>1, VerdictNode DEF JudgedOnce, Sending
<1>3. /\ sends' = [sends EXCEPT ![n] = s]
      /\ acked' = [acked EXCEPT ![n] = a]
      /\ expired' = [expired EXCEPT ![n] = e]
  BY <1>1 DEF VerdictInv, WireInv, BufferInv, TypeOK
<1>. QED  BY <1>2, <1>3, VerdictsStep

LEMMA VerdictsQuiet ==
  ASSUME VerdictInv, UNCHANGED <<conn, sends, acked, expired>>
  PROVE  VerdictsOnce'
  BY DEF VerdictInv, VerdictsOnce, JudgedOnce

LEMMA VerdictsSendNoBuffer ==
  ASSUME VerdictInv, NEW n \in Node, NEW mx \in MaxRxmits, SendNoBuffer(n, mx)
  PROVE  VerdictsOnce'
<1>d. PICK d : d = NoBuffer(conn[n], mx)
  OBVIOUS
<1>1. mx \in Byte /\ conn[n] \in Conn
  BY RunicastAssumption, VerdictNode DEF Byte
<1>2. d.is_tx = conn[n].is_tx /\ ~conn[n].is_tx
  BY <1>1, <1>d, NoBufferType DEF SendNoBuffer, CanSend
<1>3. conn' = [conn EXCEPT ![n] = d] /\ UNCHANGED <<sends, acked, expired>>
  BY <1>d DEF SendNoBuffer
<1>. QED  BY <1>2, <1>3, VerdictsSilent

LEMMA VerdictsSend ==
  ASSUME VerdictInv, NEW n \in Node, NEW mx \in MaxRxmits,
         NEW r \in Node \ {n}, Send(n, r, mx)
  PROVE  VerdictsOnce'
<1>d. PICK d : d = CountTransmission(Accept(conn[n], sends[n] + 1, r, mx))
  OBVIOUS
<1>1. PICK k \in Nat : k = sends[n] + 1
  BY VerdictNode
<1>2. /\ conn' = [conn EXCEPT ![n] = d] /\ sends' = [sends EXCEPT ![n] = k]
      /\ acked' = [acked EXCEPT ![n] = acked[n]]
      /\ expired' = [expired EXCEPT ![n] = expired[n]]
  BY <1>d, <1>1 DEF Send, VerdictInv, WireInv, BufferInv, TypeOK
<1>3. JudgedOnce(d, k, acked[n], expired[n])
  BY <1>1, VerdictNode DEF JudgedOnce
<1>. QED  BY <1>2, <1>3, VerdictsStep

LEMMA VerdictsSendLast ==
  ASSUME VerdictInv, NEW n \in Node, NEW mx \in MaxRxmits,
         NEW r \in Node \ {n}, SendLast(n, r, mx)
  PROVE  VerdictsOnce'
<1>c. PICK c : c = Accept(conn[n], sends[n] + 1, r, mx)
  OBVIOUS
<1>d. PICK d : d = AfterTimedout(GiveUp(c))
  OBVIOUS
<1>1. PICK k \in Nat : k = sends[n] + 1
  BY VerdictNode
<1>2. mx \in Byte /\ r \in Node /\ conn[n] \in Conn
  BY RunicastAssumption, VerdictNode DEF Byte
<1>3. c \in Conn /\ c.buf.pkt = k /\ c.buf.to = r
  BY <1>1, <1>2, <1>c, AcceptType DEF Accept
<1>4. d.is_tx = FALSE
  BY <1>3, <1>d, ExpireType
<1>5. PICK e : e = expired[n] \cup {<<k, r>>}
  OBVIOUS
<1>6. /\ conn' = [conn EXCEPT ![n] = d] /\ sends' = [sends EXCEPT ![n] = k]
      /\ acked' = [acked EXCEPT ![n] = acked[n]]
      /\ expired' = [expired EXCEPT ![n] = e]
  BY <1>c, <1>d, <1>1, <1>3, <1>5 DEF SendLast, VerdictInv, WireInv, BufferInv, TypeOK
<1>7. JudgedOnce(d, k, acked[n], e)
  BY <1>1, <1>4, <1>5, VerdictNode DEF JudgedOnce
<1>. QED  BY <1>6, <1>7, VerdictsStep

\* The verdict given to the packet being transmitted is its first.
LEMMA FirstVerdict ==
  ASSUME VerdictInv, NEW n \in Node, Sending(n), NEW d, d.is_tx = FALSE,
         NEW v, v = <<conn[n].buf.pkt, conn[n].buf.to>>
  PROVE  /\ JudgedOnce(d, sends[n], acked[n] \cup {v}, expired[n])
         /\ JudgedOnce(d, sends[n], acked[n], expired[n] \cup {v})
<1>1. v[1] = sends[n]
  BY VerdictNode DEF Numbered, Sending
<1>. QED  BY <1>1, VerdictNode DEF JudgedOnce, Sending

LEMMA VerdictsRetransmitLast ==
  ASSUME VerdictInv, NEW n \in Node, RetransmitLast(n)
  PROVE  VerdictsOnce'
<1>c. PICK c : c = AfterTimedout(GiveUp(conn[n]))
  OBVIOUS
<1>d. PICK d : d = [c EXCEPT !.timer = TRUE]
  OBVIOUS
<1>1. conn[n] \in Conn /\ Sending(n)
  BY VerdictNode DEF VerdictInv, WireInv, BufferInv, BuffersAccounted,
     RetransmitLast
<1>2. c \in Conn /\ c.is_tx = FALSE
  BY <1>1, <1>c, ExpireType
<1>3. d.is_tx = FALSE
  BY <1>2, <1>d, TimerType
<1>4. PICK v : v = <<conn[n].buf.pkt, conn[n].buf.to>>
  OBVIOUS
<1>5. /\ conn' = [conn EXCEPT ![n] = d] /\ sends' = [sends EXCEPT ![n] = sends[n]]
      /\ acked' = [acked EXCEPT ![n] = acked[n]]
      /\ expired' = [expired EXCEPT ![n] = expired[n] \cup {v}]
  BY <1>c, <1>d, <1>4 DEF RetransmitLast, VerdictInv, WireInv, BufferInv, TypeOK
<1>6. JudgedOnce(d, sends[n], acked[n], expired[n] \cup {v})
  BY <1>1, <1>3, <1>4, FirstVerdict
<1>. QED  BY <1>5, <1>6, VerdictsStep

LEMMA VerdictsRecvAck ==
  ASSUME VerdictInv, SafeLag, NEW n \in Node, NEW m \in air,
         NEW keep \in BOOLEAN, RecvAck(n, m, keep)
  PROVE  VerdictsOnce'
<1>d. PICK d : d = Acknowledge(conn[n])
  OBVIOUS
<1>1. conn[n] \in Conn /\ Sending(n)
  BY VerdictNode, FreshAckIsOwn DEF VerdictInv, Sending, RecvAck
<1>2. d.is_tx = FALSE
  BY <1>1, <1>d, AcknowledgeType
<1>3. PICK v : v = <<conn[n].buf.pkt, conn[n].buf.to>>
  OBVIOUS
<1>4. /\ conn' = [conn EXCEPT ![n] = d] /\ sends' = [sends EXCEPT ![n] = sends[n]]
      /\ acked' = [acked EXCEPT ![n] = acked[n] \cup {v}]
      /\ expired' = [expired EXCEPT ![n] = expired[n]]
  BY <1>d, <1>3 DEF RecvAck, VerdictInv, WireInv, BufferInv, TypeOK
<1>5. JudgedOnce(d, sends[n], acked[n] \cup {v}, expired[n])
  BY <1>1, <1>2, <1>3, FirstVerdict
<1>. QED  BY <1>4, <1>5, VerdictsStep
\* What the steps of a connection that neither start nor end a packet do to it.
LEMMA SilentConnection ==
  ASSUME BufferInv, NEW n \in Node,
         \/ TimerWithoutBuffer(n) \/ Retransmit(n) \/ Close(n) \/ Open(n)
  PROVE  \E d : /\ conn' = [conn EXCEPT ![n] = d]
                /\ d.open /\ d.is_tx => Sending(n) /\ d.buf = conn[n].buf
                /\ ~(d.open /\ d.is_tx) => d.buf = NoBuf
                /\ ~Close(n) /\ ~Open(n) => d.open = conn[n].open /\ d.is_tx = conn[n].is_tx
<1>1. conn[n] \in Conn /\ (conn[n].buf # NoBuf <=> Sending(n))
  BY DEF BufferInv, TypeOK, BuffersAccounted
<1>2. CASE TimerWithoutBuffer(n)
  <2>1. PICK d : d = [conn[n] EXCEPT !.timer = FALSE]
    OBVIOUS
  <2>2. d.buf = conn[n].buf /\ d.open = conn[n].open /\ d.is_tx = conn[n].is_tx
    BY <1>1, <2>1, TimerType
  <2>3. conn' = [conn EXCEPT ![n] = d]
    BY <1>2, <2>1 DEF TimerWithoutBuffer
  <2>. QED  BY <1>1, <2>2, <2>3 DEF Sending
<1>3. CASE Retransmit(n)
  <2>1. PICK c : c = CountTransmission(conn[n])
    OBVIOUS
  <2>2. PICK d : d = [c EXCEPT !.timer = TRUE]
    OBVIOUS
  <2>3. c \in Conn /\ c.buf = conn[n].buf
    BY <1>1, <1>3, <2>1, CountType DEF Retransmit
  <2>4. d.buf = conn[n].buf
    BY <2>2, <2>3, TimerType
  <2>5. conn' = [conn EXCEPT ![n] = d] /\ conn[n].buf # NoBuf
    BY <1>3, <2>1, <2>2 DEF Retransmit
  <2>6. d.open = conn[n].open /\ d.is_tx = conn[n].is_tx
    BY <1>1, <1>3, <2>1, <2>2, CountType, TimerType DEF Retransmit
  <2>. QED  BY <1>1, <2>4, <2>5, <2>6 DEF Sending
<1>4. CASE Close(n)
  <2>1. PICK d : d = runicast_close(conn[n])
    OBVIOUS
  <2>2. d.buf = NoBuf /\ d.open = FALSE
    BY <1>1, <2>1, CloseType
  <2>3. conn' = [conn EXCEPT ![n] = d]
    BY <1>4, <2>1 DEF Close
  <2>. QED  BY <1>4, <2>2, <2>3
<1>5. CASE Open(n)
  <2>1. PICK d : d = runicast_open(conn[n])
    OBVIOUS
  <2>2. d.is_tx = FALSE /\ d.buf = conn[n].buf
    BY <2>1 DEF runicast_open
  <2>3. conn' = [conn EXCEPT ![n] = d] /\ conn[n].buf = NoBuf
    BY <1>1, <1>5, <2>1 DEF Open, Sending
  <2>. QED  BY <1>5, <2>2, <2>3
<1>. QED  BY <1>2, <1>3, <1>4, <1>5

LEMMA VerdictInvNext == SafeLag /\ VerdictInv /\ [Next]_vars => VerdictInv'
<1>. SUFFICES ASSUME SafeLag, VerdictInv, [Next]_vars
              PROVE  VerdictInv'
  OBVIOUS
<1>0. WireInv'
  BY WireInvNext DEF VerdictInv
<1>1. ASSUME NEW n \in Node, NEW mx \in MaxRxmits, SendNoBuffer(n, mx)
      PROVE  VerdictsOnce'
  BY <1>1, VerdictsSendNoBuffer
<1>2. ASSUME NEW n \in Node, NEW mx \in MaxRxmits, NEW r \in Node \ {n},
             Send(n, r, mx) \/ SendLast(n, r, mx)
      PROVE  VerdictsOnce'
  BY <1>2, VerdictsSend, VerdictsSendLast
<1>3. ASSUME NEW n \in Node, NEW mx \in MaxRxmits, NEW mx2 \in MaxRxmits,
             NEW r \in Node \ {n}, NEW r2 \in Node \ {n},
             SendLastAndSend(n, r, mx, r2, mx2)
      PROVE  VerdictsOnce'
  BY <1>3 DEF SendLastAndSend, SafeLag
<1>4. ASSUME NEW n \in Node,
             TimerWithoutBuffer(n) \/ Retransmit(n) \/ Close(n) \/ Open(n)
      PROVE  VerdictsOnce'
  <2>1. BufferInv
    BY DEF VerdictInv, WireInv
  <2>2. PICK d : /\ conn' = [conn EXCEPT ![n] = d]
                 /\ d.open /\ d.is_tx => Sending(n)
    BY <1>4, <2>1, SilentConnection
  <2>3. UNCHANGED <<sends, acked, expired>>
    BY <1>4 DEF TimerWithoutBuffer, Retransmit, Close, Open, ghosts
  <2>. QED  BY <2>2, <2>3, VerdictsSilent
<1>5. ASSUME NEW n \in Node, TimerFires(n)
      PROVE  VerdictsOnce'
  BY <1>4, <1>5, VerdictsRetransmitLast
     DEF TimerFires, RetransmitLastAndSend, SafeLag
<1>6. ASSUME NEW n \in Node, NEW m \in air, NEW keep \in BOOLEAN,
             RecvAck(n, m, keep)
      PROVE  VerdictsOnce'
  BY <1>6, VerdictsRecvAck
<1>7. ASSUME NEW n \in Node, NEW m \in air, NEW keep \in BOOLEAN,
             RecvData(n, m, keep) \/ RecvBadAck(n, m)
      PROVE  VerdictsOnce'
  BY <1>7, VerdictsQuiet DEF RecvData, RecvBadAck, ghosts
<1>8. ASSUME NEW m \in air, LoseFrame(m)
      PROVE  VerdictsOnce'
  BY <1>8, VerdictsQuiet DEF LoseFrame, ghosts
<1>9. ASSUME NEW n \in Node, TakeQueuebuf(n) \/ ReturnQueuebuf(n)
      PROVE  VerdictsOnce'
  BY <1>9, VerdictsQuiet DEF TakeQueuebuf, ReturnQueuebuf, ghosts
<1>10. ASSUME UNCHANGED vars
       PROVE  VerdictsOnce'
  <2>1. conn' = conn /\ ghosts' = ghosts
    BY <1>10 DEF vars
  <2>. QED  BY <2>1, VerdictsQuiet DEF ghosts
<1>11. VerdictsOnce'
  BY <1>1, <1>2, <1>3, <1>4, <1>5, <1>6, <1>7, <1>8, <1>9, <1>10 DEF Next
<1>. QED  BY <1>0, <1>11 DEF VerdictInv

\* A packet never has both the sent and the timedout callback, and has neither
\* while it is being transmitted, whatever frames are lost, delayed or repeated.
THEOREM VerdictIsUnique ==
  ASSUME SafeLag
  PROVE  Spec => []OneVerdict
<1>1. Init => VerdictInv
  BY VerdictInvInit
<1>2. VerdictInv /\ [Next]_vars => VerdictInv'
  BY VerdictInvNext, SafeLag
<1>3. VerdictInv => OneVerdict
  <2>. SUFFICES ASSUME VerdictInv, NEW n \in Node
                PROVE  /\ acked[n] \cap expired[n] = {}
                       /\ Sending(n) => \A e \in acked[n] \cup expired[n] :
                                          e[1] # conn[n].buf.pkt
    BY DEF OneVerdict
  <2>1. Sending(n) => conn[n].buf.pkt = sends[n]
    BY VerdictNode DEF Numbered, Sending
  <2>. QED  BY <2>1, VerdictNode DEF JudgedOnce, Sending
<1>. QED  BY <1>1, <1>2, <1>3, PTL DEF Spec

\* An acknowledgement of the packet being transmitted is never dropped as a bad
\* one: sndnxt does not move before the packet has its verdict.
THEOREM OwnAckIsAccepted ==
  ASSUME SafeLag
  PROVE  Spec => OwnAckAccepted
<1>1. Init => WireInv
  BY WireInvInit
<1>2. WireInv /\ [Next]_vars => WireInv'
  BY WireInvNext, SafeLag
<1>3. WireInv => \A n \in Node, m \in air :
                   Sending(n) /\ RecvBadAck(n, m) => m.pkt # conn[n].buf.pkt
  <2>. SUFFICES ASSUME WireInv, NEW n \in Node, NEW m \in air, Sending(n),
                       RecvBadAck(n, m), m.pkt = conn[n].buf.pkt
                PROVE  FALSE
    OBVIOUS
  <2>1. m.src = n /\ m.id # conn[n].sndnxt
    BY DEF RecvBadAck
  <2>2. m.id = (m.pkt - opened[n] - 1) % IdSpace
    BY <2>1 DEF WireInv, WireConsistent, FramesGenuine, Genuine
  <2>3. /\ conn[n].sndnxt = (sends[n] - opened[n] - 1) % IdSpace
        /\ conn[n].buf.pkt = sends[n]
    BY DEF WireInv, WireConsistent, Numbering, Numbered, Sending
  <2>. QED  BY <2>1, <2>2, <2>3
<1>. QED  BY <1>1, <1>2, <1>3, PTL DEF Spec, OwnAckAccepted

(***************************************************************************)
(* The refinement of ReliableUnicast                                        *)
(***************************************************************************)

\* Nobody is sent its own packet.
NotToSelf ==
  /\ \A m \in air : m.src # m.dst
  /\ \A n \in Node : Sending(n) => conn[n].buf.to # n

RefinementInv == WireInv /\ NotToSelf

\* The packet node n transmits, as ReliableUnicast sees it.
Current == [n \in Node |-> CurrentPacket(conn[n])]
IsOpen == [n \in Node |-> conn[n].open]

\* A step on node n's connection changes the packet of n only.
LEMMA CurrentStep ==
  ASSUME conn \in [Node -> Conn], NEW n \in Node, NEW d,
         conn' = [conn EXCEPT ![n] = d]
  PROVE  /\ Current' = [Current EXCEPT ![n] = CurrentPacket(d)]
         /\ IsOpen' = [IsOpen EXCEPT ![n] = d.open]
         /\ d.open = conn[n].open => IsOpen' = IsOpen
  BY DEF Current, CurrentPacket, IsOpen

LEMMA NotToSelfStep ==
  ASSUME RefinementInv, NEW n \in Node, NEW d,
         conn' = [conn EXCEPT ![n] = d],
         d.open /\ d.is_tx => d.buf.to # n
  PROVE  \A k \in Node : Sending(k)' => conn'[k].buf.to # k
<1>. TAKE k \in Node
<1>1. CASE k = n
  BY <1>1 DEF Sending, RefinementInv, WireInv, BufferInv, TypeOK
<1>2. CASE k # n
  BY <1>2 DEF Sending, RefinementInv, NotToSelf, WireInv, BufferInv, TypeOK
<1>. QED  BY <1>1, <1>2

\* What RefinementInv says of one node.
LEMMA RefinementNode ==
  ASSUME RefinementInv, NEW n \in Node
  PROVE  /\ conn[n] \in Conn /\ sends[n] \in Nat
         /\ Current[n] = CurrentPacket(conn[n]) /\ IsOpen[n] = conn[n].open
         /\ ~Sending(n) => conn[n].buf = NoBuf /\ Current[n] = Abstract!Idle
         /\ Sending(n) =>
              /\ conn[n].buf # NoBuf /\ conn[n].buf.to # n
              /\ conn[n].buf.pkt = sends[n] /\ sends[n] > 0
              /\ Current[n] = <<sends[n], conn[n].buf.to>>
              /\ Current[n] # Abstract!Idle
<1>1. /\ conn[n] \in Conn /\ sends[n] \in Nat /\ opened[n] \in Nat
      /\ conn[n].buf # NoBuf <=> Sending(n)
      /\ Numbered(conn[n], sends[n], opened[n])
      /\ Sending(n) => conn[n].buf.to # n
  BY DEF RefinementInv, NotToSelf, WireInv, WireConsistent, Numbering,
     BufferInv, BuffersAccounted, TypeOK
<1>2. Current[n] = CurrentPacket(conn[n]) /\ IsOpen[n] = conn[n].open
  BY DEF Current, IsOpen
<1>3. ~Sending(n) => conn[n].buf = NoBuf /\ Current[n] = Abstract!Idle
  BY <1>1, <1>2 DEF CurrentPacket, Abstract!Idle
<1>4. Sending(n) => conn[n].buf.pkt = sends[n] /\ sends[n] > 0
  BY <1>1 DEF Numbered, Sending
<1>5. Sending(n) => Current[n] = <<sends[n], conn[n].buf.to>>
  BY <1>1, <1>2, <1>4 DEF CurrentPacket
<1>6. Sending(n) => Current[n] # Abstract!Idle
  <2>1. ASSUME Sending(n), Current[n] = <<0, 0>>  PROVE FALSE
    <3>1. <<sends[n], conn[n].buf.to>>[1] = <<0, 0>>[1]
      BY <1>5, <2>1
    <3>. QED  BY <1>1, <1>4, <2>1, <3>1
  <2>. QED  BY <2>1 DEF Abstract!Idle
<1>. QED  BY <1>1, <1>2, <1>3, <1>4, <1>5, <1>6

LEMMA RefinementInvInit == Init => RefinementInv
<1>1. Init => NotToSelf
  BY DEF Init, NotToSelf, Sending
<1>. QED  BY <1>1, WireInvInit DEF RefinementInv

\* The initial states of runicast are initial states of ReliableUnicast.
LEMMA RefinementInit == Init => Abstract!Init
  BY DEF Init, Abstract!Init, Abstract!Idle, CurrentPacket

\* A step that leaves the packets and reports as they were.
LEMMA RefinementStutter ==
  ASSUME UNCHANGED <<sends, got, acked, expired>>, Current' = Current, IsOpen' = IsOpen
  PROVE  UNCHANGED Abstract!avars
  BY DEF Current, IsOpen, Abstract!avars

LEMMA RefinementSendNoBuffer ==
  ASSUME RefinementInv, NEW n \in Node, NEW mx \in MaxRxmits,
         SendNoBuffer(n, mx)
  PROVE  NotToSelf' /\ UNCHANGED Abstract!avars
<1>d. PICK d : d = NoBuffer(conn[n], mx)
  OBVIOUS
<1>1. mx \in Byte /\ conn[n] \in Conn /\ ~conn[n].is_tx
  BY RunicastAssumption, RefinementNode DEF Byte, SendNoBuffer, CanSend
<1>2. d.is_tx = conn[n].is_tx /\ d.buf = NoBuf /\ d.open = conn[n].open
  BY <1>1, <1>d, NoBufferType
<1>3. conn' = [conn EXCEPT ![n] = d] /\ UNCHANGED <<air, sends, got, acked, expired>>
  BY <1>d DEF SendNoBuffer
<1>4. NotToSelf'
  BY <1>1, <1>2, <1>3, NotToSelfStep DEF NotToSelf, RefinementInv
<1>5. Current' = Current /\ IsOpen' = IsOpen
  <2>1. Current' = [Current EXCEPT ![n] = CurrentPacket(d)] /\ IsOpen' = IsOpen
    BY <1>2, <1>3, CurrentStep DEF RefinementInv, WireInv, BufferInv, TypeOK
  <2>2. CurrentPacket(d) = Current[n]
    BY <1>1, <1>2, RefinementNode DEF CurrentPacket, Abstract!Idle, Sending
  <2>. QED  BY <2>1, <2>2 DEF Current
<1>. QED  BY <1>3, <1>4, <1>5, RefinementStutter

LEMMA RefinementSend ==
  ASSUME RefinementInv, NEW n \in Node, NEW mx \in MaxRxmits,
         NEW r \in Node \ {n}, Send(n, r, mx)
  PROVE  NotToSelf' /\ Abstract!Submit(n, r)
<1>k. PICK k \in Nat : k = sends[n] + 1
  BY RefinementNode
<1>c. PICK c : c = Accept(conn[n], sends[n] + 1, r, mx)
  OBVIOUS
<1>d. PICK d : d = CountTransmission(c)
  OBVIOUS
<1>1. conn[n] \in Conn /\ ~conn[n].is_tx /\ mx \in Byte /\ r \in Node /\ r # n /\ conn[n].open
  BY RunicastAssumption, RefinementNode DEF Byte, Send, CanSend
<1>2. c \in Conn /\ c.buf \in Buffer
  BY <1>1, <1>k, <1>c, AcceptType
<1>3. d.buf = c.buf /\ c.buf.pkt = k /\ c.buf.to = r /\ d.open = conn[n].open
  BY <1>2, <1>c, <1>d, <1>k, CountType DEF Send, Accept
<1>4. CurrentPacket(d) = <<k, r>>
  BY <1>2, <1>3, NoBufNotBuffer DEF CurrentPacket
<1>5. conn' = [conn EXCEPT ![n] = d] /\ sends' = [sends EXCEPT ![n] = k]
      /\ UNCHANGED <<got, acked, expired>>
      /\ air' \subseteq air \cup {DataFrame(n, c)}
  BY <1>c, <1>d, <1>k DEF Send, Transmit
<1>6. NotToSelf'
  <2>1. \A m \in air' : m.src # m.dst
    BY <1>1, <1>3, <1>5 DEF DataFrame, RefinementInv, NotToSelf
  <2>. QED  BY <1>1, <1>3, <1>5, <2>1, NotToSelfStep DEF NotToSelf
<1>7. Current' = [Current EXCEPT ![n] = <<k, r>>] /\ IsOpen' = IsOpen
  <2>1. conn \in [Node -> Conn] /\ conn' = [conn EXCEPT ![n] = d]
    BY <1>5 DEF RefinementInv, WireInv, BufferInv, TypeOK
  <2>2. Current' = [Current EXCEPT ![n] = CurrentPacket(d)] /\ IsOpen' = IsOpen
    BY <1>3, <2>1, CurrentStep
  <2>. QED  BY <1>4, <2>2
<1>8. Current[n] = Abstract!Idle /\ IsOpen[n]
  BY <1>1, RefinementNode DEF Sending
<1>9. Abstract!Submit(n, r)
  BY <1>k, <1>5, <1>7, <1>8 DEF Abstract!Submit, Current, IsOpen
<1>. QED  BY <1>6, <1>9

LEMMA RefinementSendLast ==
  ASSUME RefinementInv, NEW n \in Node, NEW mx \in MaxRxmits,
         NEW r \in Node \ {n}, SendLast(n, r, mx)
  PROVE  NotToSelf' /\ Abstract!SubmitAndFail(n, r)
<1>k. PICK k \in Nat : k = sends[n] + 1
  BY RefinementNode
<1>c. PICK c : c = Accept(conn[n], sends[n] + 1, r, mx)
  OBVIOUS
<1>d. PICK d : d = AfterTimedout(GiveUp(c))
  OBVIOUS
<1>1. conn[n] \in Conn /\ ~conn[n].is_tx /\ mx \in Byte /\ r \in Node /\ r # n /\ conn[n].open
  BY RunicastAssumption, RefinementNode DEF Byte, SendLast, CanSend
<1>2. c \in Conn /\ c.buf.pkt = k /\ c.buf.to = r /\ c.open = conn[n].open
  BY <1>1, <1>k, <1>c, AcceptType DEF Accept
<1>3. d.buf = NoBuf /\ d.is_tx = FALSE /\ d.open = conn[n].open
  BY <1>2, <1>d, ExpireType
<1>4. conn' = [conn EXCEPT ![n] = d] /\ sends' = [sends EXCEPT ![n] = k]
      /\ expired' = [expired EXCEPT ![n] = expired[n] \cup {<<k, r>>}]
      /\ UNCHANGED <<got, acked>>
      /\ air' \subseteq air \cup {DataFrame(n, c)}
  BY <1>2, <1>c, <1>d, <1>k DEF SendLast, Transmit
<1>5. NotToSelf'
  <2>1. \A m \in air' : m.src # m.dst
    BY <1>1, <1>2, <1>4 DEF DataFrame, RefinementInv, NotToSelf
  <2>. QED  BY <1>3, <1>4, <2>1, NotToSelfStep DEF NotToSelf
<1>6. Current[n] = Abstract!Idle /\ IsOpen[n]
  BY <1>1, RefinementNode DEF Sending
<1>7. Current' = Current /\ IsOpen' = IsOpen
  <2>1. Current' = [Current EXCEPT ![n] = CurrentPacket(d)] /\ IsOpen' = IsOpen
    BY <1>3, <1>4, CurrentStep DEF RefinementInv, WireInv, BufferInv, TypeOK
  <2>2. CurrentPacket(d) = Current[n]
    BY <1>3, <1>6 DEF CurrentPacket, Abstract!Idle
  <2>. QED  BY <2>1, <2>2 DEF Current
<1>8. Abstract!SubmitAndFail(n, r)
  BY <1>k, <1>4, <1>6, <1>7 DEF Abstract!SubmitAndFail, Current, IsOpen
<1>. QED  BY <1>5, <1>8

LEMMA RefinementRetransmitLast ==
  ASSUME RefinementInv, NEW n \in Node, RetransmitLast(n)
  PROVE  NotToSelf' /\ Abstract!Fail(n)
<1>c. PICK c : c = AfterTimedout(GiveUp(conn[n]))
  OBVIOUS
<1>d. PICK d : d = [c EXCEPT !.timer = TRUE]
  OBVIOUS
<1>1. conn[n] \in Conn /\ Sending(n)
  BY RefinementNode DEF RetransmitLast
<1>2. c \in Conn /\ c.buf = NoBuf /\ c.is_tx = FALSE /\ c.open = conn[n].open
  BY <1>1, <1>c, ExpireType
<1>3. d.buf = NoBuf /\ d.is_tx = FALSE /\ d.open = conn[n].open
  BY <1>2, <1>d, TimerType
<1>4. PICK v : v = <<conn[n].buf.pkt, conn[n].buf.to>> /\ v = Current[n]
  BY <1>1, RefinementNode
<1>5. conn' = [conn EXCEPT ![n] = d]
      /\ expired' = [expired EXCEPT ![n] = expired[n] \cup {v}]
      /\ UNCHANGED <<sends, got, acked>>
      /\ air' \subseteq air \cup {DataFrame(n, conn[n])}
  BY <1>c, <1>d, <1>4 DEF RetransmitLast, Transmit
<1>6. NotToSelf'
  <2>1. conn[n].buf.to # n
    BY <1>1, RefinementNode
  <2>2. \A m \in air' : m.src # m.dst
    BY <1>5, <2>1 DEF DataFrame, RefinementInv, NotToSelf
  <2>. QED  BY <1>3, <1>5, <2>2, NotToSelfStep DEF NotToSelf
<1>7. Current' = [Current EXCEPT ![n] = Abstract!Idle] /\ IsOpen' = IsOpen
  BY <1>3, <1>5, CurrentStep
     DEF RefinementInv, WireInv, BufferInv, TypeOK, CurrentPacket, Abstract!Idle
<1>8. Current[n] # Abstract!Idle
  BY <1>1, RefinementNode
<1>9. Abstract!Fail(n)
  BY <1>4, <1>5, <1>7, <1>8 DEF Abstract!Fail, Current, IsOpen
<1>. QED  BY <1>6, <1>9

\* A received packet was sent to its receiver, by the node it names.
LEMMA RefinementRecvData ==
  ASSUME RefinementInv, NEW n \in Node, NEW m \in air, NEW keep \in BOOLEAN,
         RecvData(n, m, keep)
  PROVE  /\ NotToSelf'
         /\ m.src \in Node /\ m.pkt \in 1..sends[m.src] /\ n \in Node \ {m.src}
         /\ Abstract!Reach(m.src, m.pkt, n)
<1>1. m \in Frame /\ m.src \in Node /\ m.pkt \in Nat /\ Genuine(m)
      /\ m.dst = n /\ m.src # n /\ IsOpen[n]
  BY DEF RecvData, RefinementInv, NotToSelf, WireInv, WireConsistent,
         FramesGenuine, BufferInv, TypeOK, Frame, IsOpen
<1>a. PICK a : a = [m EXCEPT !.type = "ack"]
  OBVIOUS
<1>2. a.src = m.src /\ a.dst = m.dst
  BY <1>1, <1>a DEF Frame
<1>3. UNCHANGED <<conn, sends, acked, expired>> /\ air' \subseteq air \cup {a}
      /\ got' = got \cup {<<m.src, m.pkt, n>>}
  BY <1>a DEF RecvData
<1>4. NotToSelf'
  BY <1>1, <1>2, <1>3 DEF NotToSelf, Sending, RefinementInv
<1>5. m.pkt \in 1..sends[m.src]
  <2>1. sends[m.src] \in Nat /\ opened[m.src] \in Nat
    BY <1>1 DEF RefinementInv, WireInv, BufferInv, TypeOK
  <2>. QED  BY <1>1, <2>1 DEF Genuine
<1>6. Current[m.src][1] = m.pkt => Current[m.src][2] = n
  <2>1. CASE Sending(m.src)
    <3>1. Current[m.src] = <<sends[m.src], conn[m.src].buf.to>>
      BY <1>1, <2>1, RefinementNode
    <3>2. m.pkt = sends[m.src] => conn[m.src].buf.to = n
      BY <1>1, <2>1 DEF Genuine
    <3>. QED  BY <3>1, <3>2
  <2>2. CASE ~Sending(m.src)
    <3>1. Current[m.src][1] = 0
      BY <1>1, <2>2, RefinementNode DEF Abstract!Idle
    <3>. QED  BY <1>5, <3>1
  <2>. QED  BY <2>1, <2>2
<1>7. Abstract!Reach(m.src, m.pkt, n)
  BY <1>1, <1>3, <1>5, <1>6 DEF Abstract!Reach, Current, IsOpen
<1>. QED  BY <1>1, <1>4, <1>5, <1>7

LEMMA RefinementRecvAck ==
  ASSUME RefinementInv, SafeLag, NEW n \in Node, NEW m \in air,
         NEW keep \in BOOLEAN, RecvAck(n, m, keep)
  PROVE  NotToSelf' /\ Abstract!Confirm(n)
<1>d. PICK d : d = Acknowledge(conn[n])
  OBVIOUS
<1>1. conn[n] \in Conn /\ Sending(n)
      /\ <<n, conn[n].buf.pkt, conn[n].buf.to>> \in got
  BY RefinementNode, FreshAckIsOwn DEF RefinementInv, Sending, RecvAck
<1>2. d.buf = NoBuf /\ d.is_tx = FALSE /\ d.open = conn[n].open
  BY <1>1, <1>d, AcknowledgeType
<1>3. PICK v : v = <<conn[n].buf.pkt, conn[n].buf.to>> /\ v = Current[n]
  BY <1>1, RefinementNode
<1>4. conn' = [conn EXCEPT ![n] = d]
      /\ acked' = [acked EXCEPT ![n] = acked[n] \cup {v}]
      /\ UNCHANGED <<sends, got, expired>> /\ air' \subseteq air
  BY <1>d, <1>3 DEF RecvAck
<1>5. NotToSelf'
  BY <1>2, <1>4, NotToSelfStep DEF NotToSelf, RefinementInv
<1>6. Current' = [Current EXCEPT ![n] = Abstract!Idle] /\ IsOpen' = IsOpen
  BY <1>2, <1>4, CurrentStep
     DEF RefinementInv, WireInv, BufferInv, TypeOK, CurrentPacket, Abstract!Idle
<1>7. Current[n] # Abstract!Idle
  BY <1>1, RefinementNode
<1>8. <<n, Current[n][1], Current[n][2]>> \in got
  BY <1>1, <1>3
<1>9. Abstract!Confirm(n)
  BY <1>3, <1>4, <1>6, <1>7, <1>8 DEF Abstract!Confirm, Current, IsOpen
<1>. QED  BY <1>5, <1>9

\* A step that neither starts nor ends a packet, or closes or opens the connection.
LEMMA RefinementSilent ==
  ASSUME RefinementInv, NEW n \in Node,
         \/ TimerWithoutBuffer(n) \/ Retransmit(n) \/ Close(n) \/ Open(n)
  PROVE  /\ NotToSelf'
         /\ Abstract!Close(n) \/ Abstract!Open(n) \/ UNCHANGED Abstract!avars
<1>1. PICK d : /\ conn' = [conn EXCEPT ![n] = d]
               /\ d.open /\ d.is_tx => Sending(n) /\ d.buf = conn[n].buf
               /\ ~(d.open /\ d.is_tx) => d.buf = NoBuf
               /\ ~Close(n) /\ ~Open(n) => d.open = conn[n].open /\ d.is_tx = conn[n].is_tx
  BY SilentConnection DEF RefinementInv, WireInv
<1>2. UNCHANGED <<sends, got, acked, expired>>
  BY DEF TimerWithoutBuffer, Retransmit, Close, Open, ghosts
<1>3. \A m \in air' : m.src # m.dst
  <2>1. CASE Retransmit(n)
    <3>1. air' \subseteq air \cup {DataFrame(n, conn[n])} /\ conn[n].buf # NoBuf
      BY <2>1 DEF Retransmit, Transmit
    <3>2. conn[n].buf.to # n
      BY <3>1, RefinementNode
    <3>. QED  BY <3>1, <3>2 DEF DataFrame, RefinementInv, NotToSelf
  <2>2. CASE TimerWithoutBuffer(n) \/ Close(n) \/ Open(n)
    BY <2>2 DEF TimerWithoutBuffer, Close, Open, RefinementInv, NotToSelf
  <2>. QED  BY <2>1, <2>2
<1>4. NotToSelf'
  BY <1>1, <1>3, RefinementNode, NotToSelfStep DEF NotToSelf
<1>5. /\ Current' = [Current EXCEPT ![n] = CurrentPacket(d)]
      /\ IsOpen' = [IsOpen EXCEPT ![n] = d.open]
      /\ d.open = conn[n].open => IsOpen' = IsOpen
  BY <1>1, CurrentStep DEF RefinementInv, WireInv, BufferInv, TypeOK
<1>6. CASE Close(n)
  <2>1. d.open = FALSE /\ conn[n].open
    <3>1. PICK e : e = runicast_close(conn[n])
      OBVIOUS
    <3>2. e.open = FALSE
      BY <3>1, RefinementNode, CloseType
    <3>3. conn' = [conn EXCEPT ![n] = e] /\ conn[n].open
      BY <1>6, <3>1 DEF Close
    <3>4. d = e
      BY <1>1, <3>3 DEF RefinementInv, WireInv, BufferInv, TypeOK
    <3>. QED  BY <3>2, <3>3, <3>4
  <2>2. CurrentPacket(d) = Abstract!Idle
    BY <1>1, <2>1 DEF CurrentPacket, Abstract!Idle
  <2>3. Abstract!Close(n)
    BY <1>2, <1>5, <2>1, <2>2 DEF Abstract!Close, Current, IsOpen
  <2>. QED  BY <1>4, <2>3
<1>7. CASE Open(n)
  <2>1. d.open = TRUE /\ ~conn[n].open
    <3>1. IsOpen'[n] = TRUE
      BY <1>7, RefinementNode DEF Open, IsOpen, runicast_open, RefinementInv, WireInv, BufferInv, TypeOK
    <3>. QED  BY <1>5, <1>7, <3>1 DEF Open, IsOpen
  <2>2. Current[n] = Abstract!Idle
    BY <2>1, RefinementNode DEF Sending
  <2>3. CurrentPacket(d) = Abstract!Idle
    <3>1. d.buf = NoBuf
      BY <1>1, <2>1 DEF Sending
    <3>. QED  BY <3>1 DEF CurrentPacket, Abstract!Idle
  <2>4. Current' = Current
    BY <1>5, <2>2, <2>3 DEF Current
  <2>5. Abstract!Open(n)
    BY <1>2, <1>5, <2>1, <2>4 DEF Abstract!Open, Current, IsOpen
  <2>. QED  BY <1>4, <2>5
<1>8. CASE ~Close(n) /\ ~Open(n)
  <2>1. d.open = conn[n].open /\ d.is_tx = conn[n].is_tx
    BY <1>1, <1>8
  <2>2. d.buf = conn[n].buf
    BY <1>1, <2>1, RefinementNode DEF Sending
  <2>3. CurrentPacket(d) = Current[n]
    BY <2>2, RefinementNode DEF CurrentPacket
  <2>4. Current' = Current
    BY <1>5, <2>3 DEF Current
  <2>. QED  BY <1>2, <1>4, <1>5, <2>1, <2>4, RefinementStutter
<1>. QED  BY <1>6, <1>7, <1>8

\* Every step of runicast is a step of ReliableUnicast or leaves it alone.
LEMMA RefinementNext ==
  ASSUME SafeLag, RefinementInv, [Next]_vars
  PROVE  RefinementInv' /\ [Abstract!Next]_(Abstract!avars)
<1>0. WireInv'
  BY WireInvNext DEF RefinementInv
<1>1. ASSUME NEW n \in Node, NEW mx \in MaxRxmits, SendNoBuffer(n, mx)
      PROVE  NotToSelf' /\ UNCHANGED Abstract!avars
  BY <1>1, RefinementSendNoBuffer
<1>2. ASSUME NEW n \in Node, NEW mx \in MaxRxmits, NEW r \in Node \ {n},
             Send(n, r, mx)
      PROVE  NotToSelf' /\ Abstract!Next
  BY <1>2, RefinementSend DEF Abstract!Next
<1>3. ASSUME NEW n \in Node, NEW mx \in MaxRxmits, NEW r \in Node \ {n},
             SendLast(n, r, mx)
      PROVE  NotToSelf' /\ Abstract!Next
  BY <1>3, RefinementSendLast DEF Abstract!Next
<1>4. ASSUME NEW n \in Node, NEW mx \in MaxRxmits, NEW mx2 \in MaxRxmits,
             NEW r \in Node \ {n}, NEW r2 \in Node \ {n},
             SendLastAndSend(n, r, mx, r2, mx2)
      PROVE  FALSE
  BY <1>4 DEF SendLastAndSend, SafeLag
<1>5. ASSUME NEW n \in Node,
             TimerWithoutBuffer(n) \/ Retransmit(n) \/ Close(n) \/ Open(n)
      PROVE  NotToSelf' /\ (Abstract!Next \/ UNCHANGED Abstract!avars)
  BY <1>5, RefinementSilent DEF Abstract!Next
<1>6. ASSUME NEW n \in Node, RetransmitLast(n)
      PROVE  NotToSelf' /\ Abstract!Next
  BY <1>6, RefinementRetransmitLast DEF Abstract!Next
<1>7. ASSUME NEW n \in Node, TimerFires(n)
      PROVE  NotToSelf' /\ (Abstract!Next \/ UNCHANGED Abstract!avars)
  BY <1>5, <1>6, <1>7 DEF TimerFires, RetransmitLastAndSend, SafeLag
<1>8. ASSUME NEW n \in Node, NEW m \in air, NEW keep \in BOOLEAN,
             RecvData(n, m, keep)
      PROVE  NotToSelf' /\ Abstract!Next
  BY <1>8, RefinementRecvData DEF Abstract!Next
<1>9. ASSUME NEW n \in Node, NEW m \in air, NEW keep \in BOOLEAN,
             RecvAck(n, m, keep)
      PROVE  NotToSelf' /\ Abstract!Next
  BY <1>9, RefinementRecvAck DEF Abstract!Next
<1>10. ASSUME UNCHANGED <<conn, sends, got, acked, expired>>, air' \subseteq air
       PROVE  NotToSelf' /\ UNCHANGED Abstract!avars
  <2>1. NotToSelf'
    BY <1>10 DEF RefinementInv, NotToSelf, Sending
  <2>2. Current' = Current /\ IsOpen' = IsOpen
    BY <1>10 DEF Current, IsOpen
  <2>. QED  BY <1>10, <2>1, <2>2, RefinementStutter
<1>11. ASSUME NEW n \in Node, NEW m \in air, RecvBadAck(n, m)
       PROVE  NotToSelf' /\ UNCHANGED Abstract!avars
  BY <1>10, <1>11 DEF RecvBadAck, ghosts
<1>12. ASSUME NEW m \in air, LoseFrame(m)
       PROVE  NotToSelf' /\ UNCHANGED Abstract!avars
  BY <1>10, <1>12 DEF LoseFrame, ghosts
<1>13. ASSUME NEW n \in Node, TakeQueuebuf(n) \/ ReturnQueuebuf(n)
       PROVE  NotToSelf' /\ UNCHANGED Abstract!avars
  BY <1>10, <1>13 DEF TakeQueuebuf, ReturnQueuebuf, ghosts
<1>14. ASSUME UNCHANGED vars
       PROVE  NotToSelf' /\ UNCHANGED Abstract!avars
  <2>1. conn' = conn /\ air' = air /\ ghosts' = ghosts
    BY <1>14 DEF vars
  <2>. QED  BY <1>10, <2>1 DEF ghosts
<1>15. NotToSelf' /\ (Abstract!Next \/ UNCHANGED Abstract!avars)
  BY <1>1, <1>2, <1>3, <1>4, <1>5, <1>7, <1>8, <1>9, <1>11, <1>12, <1>13, <1>14
     DEF Next
<1>. QED  BY <1>0, <1>15 DEF RefinementInv

\* runicast over a lossy, duplicating, reordering link implements the reliable
\* unicast its header promises.
THEOREM RunicastImplementsReliableUnicast ==
  ASSUME SafeLag
  PROVE  Spec => ImplementsReliableUnicast
<1>1. Init => RefinementInv /\ Abstract!Init
  BY RefinementInvInit, RefinementInit
<1>2. RefinementInv /\ [Next]_vars =>
        RefinementInv' /\ [Abstract!Next]_(Abstract!avars)
  BY RefinementNext, SafeLag
<1>. QED  BY <1>1, <1>2, PTL DEF Spec, ImplementsReliableUnicast, Abstract!Spec
=============================================================================
