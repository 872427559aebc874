--------------------------- MODULE ReliableUnicast ---------------------------
(***************************************************************************)
(* What runicast promises its applications, without identifiers, timers,   *)
(* buffers or frames: a node transmits one packet at a time; the packet may *)
(* reach its receiver any number of times, also after the sender gave up;   *)
(* the sender is told "sent" only once the packet has reached the receiver, *)
(* and gets one verdict for each packet, unless it closes the connection    *)
(* first: nothing else ends a packet without one.                           *)
(***************************************************************************)
EXTENDS Integers

CONSTANT Node

VARIABLES
  open,     \* whether each node's connection is open
  current,  \* the packet each node transmits: <<number, receiver>> or Idle
  count,    \* packets each node has submitted
  reached,  \* <<sender, number, receiver>> handed to a receiver
  sent,     \* packets reported as sent, by sender
  failed    \* packets reported as timed out, by sender

avars == <<open, current, count, reached, sent, failed>>

Idle == <<0, 0>>

Init ==
  /\ open = [n \in Node |-> TRUE]
  /\ current = [n \in Node |-> Idle]
  /\ count = [n \in Node |-> 0]
  /\ reached = {}
  /\ sent = [n \in Node |-> {}]
  /\ failed = [n \in Node |-> {}]

Submit(n, r) ==
  /\ open[n] /\ current[n] = Idle
  /\ count' = [count EXCEPT ![n] = @ + 1]
  /\ current' = [current EXCEPT ![n] = <<count[n] + 1, r>>]
  /\ UNCHANGED <<open, reached, sent, failed>>

\* A packet whose transmissions are all made within the submission.
SubmitAndFail(n, r) ==
  /\ open[n] /\ current[n] = Idle
  /\ count' = [count EXCEPT ![n] = @ + 1]
  /\ failed' = [failed EXCEPT ![n] = @ \cup {<<count[n] + 1, r>>}]
  /\ UNCHANGED <<open, current, reached, sent>>

Reach(n, k, r) ==
  /\ open[r]
  /\ k \in 1..count[n]
  /\ current[n][1] = k => current[n][2] = r
  /\ reached' = reached \cup {<<n, k, r>>}
  /\ UNCHANGED <<open, current, count, sent, failed>>

Confirm(n) ==
  /\ current[n] # Idle
  /\ <<n, current[n][1], current[n][2]>> \in reached
  /\ current' = [current EXCEPT ![n] = Idle]
  /\ sent' = [sent EXCEPT ![n] = @ \cup {current[n]}]
  /\ UNCHANGED <<open, count, reached, failed>>

Fail(n) ==
  /\ current[n] # Idle
  /\ current' = [current EXCEPT ![n] = Idle]
  /\ failed' = [failed EXCEPT ![n] = @ \cup {current[n]}]
  /\ UNCHANGED <<open, count, reached, sent>>

\* Closing the connection: a packet that is being transmitted gets no verdict.
Close(n) ==
  /\ open[n]
  /\ open' = [open EXCEPT ![n] = FALSE]
  /\ current' = [current EXCEPT ![n] = Idle]
  /\ UNCHANGED <<count, reached, sent, failed>>

Open(n) ==
  /\ ~open[n]
  /\ open' = [open EXCEPT ![n] = TRUE]
  /\ UNCHANGED <<current, count, reached, sent, failed>>

Next ==
  \E n \in Node :
    \/ \E r \in Node \ {n} : Submit(n, r) \/ SubmitAndFail(n, r)
    \/ \E k \in 1..count[n], r \in Node \ {n} : Reach(n, k, r)
    \/ Confirm(n) \/ Fail(n) \/ Close(n) \/ Open(n)

Spec == Init /\ [][Next]_avars
=============================================================================
