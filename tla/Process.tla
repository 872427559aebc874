------------------------------ MODULE Process ------------------------------
(***************************************************************************)
(* The process kernel, core/sys/process.c, with autostart.c: the process   *)
(* list, the poll flags, the event ring and the C stack of kernel functions *)
(* and process threads that call each other.                                *)
(*                                                                          *)
(* One step runs from one point where something else can happen to the next: *)
(* a thread's code is arbitrary between its kernel calls, and an interrupt  *)
(* handler may call process_poll before any step.  Threads may make any of  *)
(* the calls process.h offers.                                              *)
(***************************************************************************)
EXTENDS Integers, Sequences, FiniteSets

CONSTANTS
  Proc,         \* process structures
  NULL,         \* the null pointer; as a receiver, PROCESS_BROADCAST
  NumEvents,    \* PROCESS_CONF_NUMEVENTS
  Autostart,    \* the autostart_processes array
  ExitCalled,   \* whether process_exit is called for a process whose thread is
                \* on the stack, the caller's own above all
  MaxCalls,     \* bound: kernel calls made by threads
  MaxPolls      \* bound: calls of process_poll made by interrupt handlers

ASSUME ProcessAssumption ==
  /\ IsFiniteSet(Proc)
  /\ NULL \notin Proc
  /\ "keep" \notin Proc \cup {NULL}   \* the mark for what process_current keeps
  /\ NumEvents \in 1..128      \* process_num_events_t is an unsigned char
  /\ Autostart \in Seq(Proc)
  /\ ExitCalled \in BOOLEAN
  /\ MaxCalls \in Nat
  /\ MaxPolls \in Nat

VARIABLES
  head,            \* process_list
  next,            \* p->next; a process keeps it when it leaves the list
  state,           \* p->state
  needspoll,       \* the processes with p->needspoll set
  poll_requested,
  current,         \* process_current
  events, fevent, nevents,   \* the event ring
  stack,           \* active kernel functions and threads, innermost first
  boot,            \* autostart processes that remain to be started
  calls, polls,    \* bounds: calls made so far
  posted, taken,   \* ghost: events accepted by process_post, taken by do_event
  wants,           \* ghost: processes with an accepted, undelivered poll
  due, heard,      \* ghost: processes the broadcast under way has yet to reach,
                   \* and those it has given the event
  restarted        \* ghost: a do_poll inside the broadcast started a process

list == <<head, next>>
running == <<state, current, stack>>
polling == <<needspoll, poll_requested, wants>>
ring == <<events, fevent, nevents>>
bounds == <<calls, polls>>
count == <<posted, taken>>
broadcast == <<due, heard, restarted>>
vars == <<list, running, polling, ring, boot, bounds, count, broadcast>>

Pointer == Proc \cup {NULL}
Event == {"msg", "INIT", "POLL", "EXIT", "EXITED"}

\* Activation records.  q is the process a loop over the list has reached, NULL
\* before the first; old is what process_current is set back to on return, for
\* a thread called from process_post_synch, and "keep" for the others.
Run(at) == [fn |-> "process_run", at |-> at]
Poll(q) == [fn |-> "do_poll", q |-> q]
Broadcast(q, n) == [fn |-> "do_event", q |-> q, n |-> n]
Deliver(q, n) == [fn |-> "deliver", q |-> q, n |-> n]
Thread(p, ev, old) == [fn |-> "thread", p |-> p, ev |-> ev, old |-> old]
Exiting(p, q, from, old) ==
  [fn |-> "exit_process", p |-> p, q |-> q, from |-> from, old |-> old]
Unlinking(p, old) == [fn |-> "unlink", p |-> p, old |-> old]
Last(p) == [fn |-> "last", p |-> p]       \* the thread, for its EXIT event

top == Head(stack)
callers == Tail(stack)
InThread == top.fn \in {"thread", "last"}

\* The processes met by following next pointers from p.
From(p) ==
  LET met[i \in 0..Cardinality(Proc)] ==
        IF i = 0 THEN {p} ELSE met[i - 1] \cup {next[q] : q \in met[i - 1] \ {NULL}}
  IN  met[Cardinality(Proc)] \ {NULL}
OnList(p) == p \in From(head)

After(q) == IF q = NULL THEN head ELSE next[q]

Init ==
  /\ head = NULL
  /\ next = [p \in Proc |-> NULL]
  /\ state = [p \in Proc |-> "NONE"]
  /\ needspoll = {}
  /\ poll_requested = FALSE
  /\ current = NULL
  /\ events = [i \in 0..NumEvents - 1 |-> [to |-> NULL, n |-> 0]]
  /\ fevent = 0
  /\ nevents = 0
  /\ stack = <<Run("poll")>>
  /\ boot = Autostart
  /\ calls = 0 /\ polls = 0
  /\ posted = 0 /\ taken = 0
  /\ wants = {} /\ due = {} /\ heard = {} /\ restarted = FALSE

-----------------------------------------------------------------------------
(* Kernel functions, as operators on the part of the state they change.     *)

\* call_process up to the call of the thread, with the frames in rest below it.
CallAnyState(p) == state[p] # "NONE"          \* fault: CALLED is not excluded
Callable(p) == state[p] = "RUNNING"

call_process(p, ev, old, rest) ==
  IF Callable(p)
  THEN /\ state' = [state EXCEPT ![p] = "CALLED"]
       /\ current' = p
       /\ stack' = <<Thread(p, ev, old)>> \o rest
  ELSE /\ stack' = rest
       /\ UNCHANGED <<state, current>>

\* exit_process, the unlinking at its end.
UnlinkFirst(p) ==                             \* fault: only the first process
  /\ head' = IF head = p THEN next[p] ELSE head
  /\ next' = next
Unlink(p) ==
  /\ head' = IF head = p THEN next[p] ELSE head
  /\ next' = [q \in Proc |-> IF head # p /\ q \in From(head) /\ next[q] = p
                             THEN next[p] ELSE next[q]]

\* process_start of a process that is not on the list, up to its INIT event.
NotRunning(p) == state[p] = "NONE"            \* fault: asks the state instead
Startable(p) == ~OnList(p)

start(p, rest) ==
  /\ next' = [next EXCEPT ![p] = head]
  /\ head' = p
  /\ state' = [state EXCEPT ![p] = "CALLED"]
  /\ current' = p
  /\ stack' = <<Thread(p, "INIT", current)>> \o rest

\* process_poll, from a thread or an interrupt handler.
process_poll(p) ==
  IF state[p] \in {"RUNNING", "CALLED"}
  THEN /\ needspoll' = needspoll \cup {p}
       /\ poll_requested' = TRUE
       /\ wants' = wants \cup {p}
  ELSE UNCHANGED polling

\* The slot process_post writes: the sum is an unsigned char before the modulo.
SlotOfLast == (fevent + nevents + NumEvents - 1) % NumEvents   \* fault: off by one
Slot == ((fevent + nevents) % 256) % NumEvents

-----------------------------------------------------------------------------
(* process_run and autostart_start, in the main loop                        *)

\* autostart_start: process_start for the next element of the array.
AutostartNext ==
  /\ boot # <<>> /\ top.fn = "process_run"
  /\ boot' = Tail(boot)
  /\ IF Startable(Head(boot))
     THEN start(Head(boot), stack)
     ELSE UNCHANGED <<list, running>>
  /\ UNCHANGED <<polling, ring, bounds, count, broadcast>>

\* Entering do_poll: the request is withdrawn before the list is searched.
do_poll(rest) ==
  /\ poll_requested' = FALSE
  /\ stack' = <<Poll(NULL)>> \o rest

RunPolls ==
  /\ boot = <<>> /\ top = Run("poll")
  /\ IF poll_requested
     THEN do_poll(<<Run("event")>> \o callers)
     ELSE /\ stack' = <<Run("event")>> \o callers
          /\ UNCHANGED poll_requested
  /\ UNCHANGED <<list, state, current, needspoll, wants, ring, boot,
                 bounds, count, broadcast>>

\* One turn of the loop in do_poll.
WithdrawnAfterSearch == FALSE      \* fault: poll_requested is cleared at the end
AfterSearch == poll_requested

PollNext ==
  /\ top.fn = "do_poll"
  /\ LET p == After(top.q) IN
     \/ /\ p = NULL
        /\ stack' = callers
        /\ poll_requested' = AfterSearch
        /\ UNCHANGED <<state, current, needspoll, wants>>
     \/ /\ p # NULL /\ p \notin needspoll
        /\ stack' = <<Poll(p)>> \o callers
        /\ UNCHANGED <<state, current, polling>>
     \/ /\ p # NULL /\ p \in needspoll
        /\ needspoll' = needspoll \ {p}
        /\ poll_requested' = poll_requested
        /\ wants' = wants \ {p}
        /\ state' = [state EXCEPT ![p] = "CALLED"]    \* RUNNING, then called
        /\ current' = p
        /\ stack' = <<Thread(p, "POLL", "keep"), Poll(p)>> \o callers
  /\ UNCHANGED <<list, ring, boot, bounds, count, broadcast>>

\* do_event: the oldest event leaves the ring; a broadcast starts its loop.
\* No code posts INIT, for which do_event would set the receiver's state.
TwoWaiting == nevents > 1                 \* fault: off by one
EventWaiting == nevents > 0

NextSlotUnwrapped(i) == i + 1             \* fault: the modulo is missing
NextSlot(i) == (i + 1) % NumEvents

RunEvent ==
  /\ top = Run("event")
  /\ IF ~EventWaiting
     THEN /\ stack' = <<Run("poll")>> \o callers
          /\ UNCHANGED <<state, current, ring, taken, broadcast>>
     ELSE /\ fevent' = NextSlot(fevent)
          /\ nevents' = nevents - 1
          /\ events' = events
          /\ taken' = events[fevent].n
          /\ IF events[fevent].to = NULL
             THEN /\ stack' = <<Broadcast(NULL, events[fevent].n), Run("poll")>>
                              \o callers
                  /\ due' = From(head)
                  /\ heard' = {}
                  /\ restarted' = FALSE
                  /\ UNCHANGED <<state, current>>
             ELSE /\ call_process(events[fevent].to, "msg", "keep",
                                  <<Run("poll")>> \o callers)
                  /\ UNCHANGED broadcast
  /\ UNCHANGED <<list, polling, boot, bounds, posted>>

\* The broadcast loop picks a process and first runs do_poll if asked to.
PickedUnlessPolled(p) ==                  \* fault: either polls or delivers
  IF poll_requested THEN Broadcast(p, top.n) ELSE Deliver(p, top.n)
Picked(p) == Deliver(p, top.n)

BroadcastNext ==
  /\ top.fn = "do_event"
  /\ LET p == After(top.q) IN
     IF p = NULL
     THEN /\ stack' = callers
          /\ UNCHANGED poll_requested
     ELSE IF poll_requested
     THEN do_poll(<<Picked(p)>> \o callers)
     ELSE /\ stack' = <<Picked(p)>> \o callers
          /\ UNCHANGED poll_requested
  /\ UNCHANGED <<list, state, current, needspoll, wants, ring, boot,
                 bounds, count, broadcast>>

\* ... and then gives it the event.
BroadcastDeliver ==
  /\ top.fn = "deliver"
  /\ call_process(top.q, "msg", "keep", <<Broadcast(top.q, top.n)>> \o callers)
  /\ due' = due \ {top.q}
  /\ heard' = IF Callable(top.q) THEN heard \cup {top.q} ELSE heard
  /\ UNCHANGED <<list, polling, ring, boot, bounds, count, restarted>>

-----------------------------------------------------------------------------
(* exit_process                                                             *)

\* exit_process up to its loop: p, which is on the list, stops running.  rest
\* is the stack below, old what process_current is when all is over.
exit_process(p, from, old, rest) ==
  /\ state' = [state EXCEPT ![p] = "NONE"]
  /\ stack' = <<Exiting(p, NULL, from, old)>> \o rest
  /\ wants' = wants \ {p}
  /\ due' = due \ {p}

\* One turn of its loop, which sends EXITED to the other processes; when it is
\* over, the EXIT event, unless the process ended by itself.
TellOthers ==
  /\ top.fn = "exit_process"
  /\ LET q == After(top.q)
         visited == <<[top EXCEPT !.q = q]>> \o callers
     IN
     \/ /\ q # NULL /\ q # top.p
        /\ call_process(q, "EXITED", "keep", visited)
     \/ /\ q # NULL /\ q = top.p
        /\ stack' = visited
        /\ UNCHANGED <<state, current>>
     \/ /\ q = NULL /\ top.p # top.from
        /\ current' = top.p
        /\ stack' = <<Last(top.p), Unlinking(top.p, top.old)>> \o callers
        /\ UNCHANGED state
     \/ /\ q = NULL /\ top.p = top.from
        /\ stack' = <<Unlinking(top.p, top.old)>> \o callers
        /\ UNCHANGED <<state, current>>
  /\ UNCHANGED <<list, polling, ring, boot, bounds, count, broadcast>>

\* Its last lines.
Leave ==
  /\ top.fn = "unlink"
  /\ Unlink(top.p)
  /\ current' = top.old
  /\ stack' = callers
  /\ UNCHANGED <<state, polling, ring, boot, bounds, count, broadcast>>

-----------------------------------------------------------------------------
(* What a thread does: kernel calls, and at last its return to the kernel.  *)

Call == InThread /\ calls < MaxCalls /\ calls' = calls + 1 /\ polls' = polls

\* Calls that return at once: process_post with a full ring (PROCESS_ERR_FULL),
\* process_start of a process on the list, process_exit of one that is not.
CallRefused ==
  /\ Call
  /\ \/ nevents = NumEvents
     \/ \E p \in Proc : ~Startable(p) \/ ~OnList(p)
  /\ UNCHANGED <<list, running, polling, ring, boot, count, broadcast>>

\* process_post; to = NULL is PROCESS_BROADCAST.
Post(to) ==
  /\ Call
  /\ nevents < NumEvents
  /\ events' = [events EXCEPT ![Slot] = [to |-> to, n |-> posted + 1]]
  /\ nevents' = nevents + 1
  /\ posted' = posted + 1
  /\ UNCHANGED <<list, running, polling, fevent, boot, taken, broadcast>>

PostSynch(p) ==
  /\ Call
  /\ call_process(p, "msg", current, stack)
  /\ UNCHANGED <<list, polling, ring, boot, count, broadcast>>

PollFromThread(p) ==
  /\ Call
  /\ process_poll(p)
  /\ UNCHANGED <<list, running, ring, boot, count, broadcast>>

Start(p) ==
  /\ Call
  /\ Startable(p)
  /\ start(p, stack)
  /\ restarted' = (restarted \/ \E i \in DOMAIN stack : stack[i].fn = "do_poll")
  /\ UNCHANGED <<polling, ring, boot, count, due, heard>>

\* process_exit of a running process (process.h asks for that; of one that is
\* already being exited it would cut the first exit_process short).
Exit(p) ==
  /\ Call
  /\ OnList(p)
  /\ state[p] \in IF ExitCalled THEN {"RUNNING", "CALLED"} ELSE {"RUNNING"}
  /\ exit_process(p, current, current, stack)
  /\ UNCHANGED <<list, current, needspoll, poll_requested, ring, boot,
                 count, heard, restarted>>

\* The thread waits for its next event: the end of call_process.
NothingRestored == current                \* fault: caller is not restored
Restored == IF top.old = "keep" THEN current ELSE top.old

Yield ==
  /\ top.fn = "thread"
  /\ state' = [state EXCEPT ![top.p] = "RUNNING"]
  /\ current' = Restored
  /\ stack' = callers
  /\ UNCHANGED <<list, polling, ring, boot, bounds, count, broadcast>>

\* The thread ends: call_process calls exit_process.
End ==
  /\ top.fn = "thread"
  /\ IF OnList(top.p) /\ state[top.p] # "NONE"
     THEN /\ exit_process(top.p, top.p, Restored, callers)
          /\ UNCHANGED <<list, current>>
     ELSE /\ IF OnList(top.p) THEN Unlink(top.p) ELSE UNCHANGED list
          /\ current' = Restored
          /\ stack' = callers
          /\ UNCHANGED <<state, wants, due>>
  /\ UNCHANGED <<needspoll, poll_requested, ring, boot, bounds, count,
                 heard, restarted>>

\* The thread returns from its EXIT event: back in exit_process.
ReturnLast ==
  /\ top.fn = "last"
  /\ stack' = callers
  /\ UNCHANGED <<list, state, current, polling, ring, boot,
                 bounds, count, broadcast>>

\* An interrupt handler, between any two steps.
Interrupt(p) ==
  /\ polls < MaxPolls
  /\ polls' = polls + 1
  /\ process_poll(p)
  /\ UNCHANGED <<list, running, ring, boot, calls, count, broadcast>>

-----------------------------------------------------------------------------
Kernel == \/ AutostartNext \/ RunPolls \/ PollNext
          \/ RunEvent \/ BroadcastNext \/ BroadcastDeliver
          \/ TellOthers \/ Leave

Calls == \/ CallRefused
         \/ \E to \in Pointer : Post(to)
         \/ \E p \in Proc : PostSynch(p) \/ PollFromThread(p) \/ Start(p) \/ Exit(p)

Next == Kernel \/ Calls \/ Yield \/ End \/ ReturnLast \/ \E p \in Proc : Interrupt(p)

\* The main loop never stops and every thread returns.
Fairness == WF_vars(Kernel \/ Yield \/ ReturnLast)

Spec == Init /\ [][Next]_vars /\ Fairness

-----------------------------------------------------------------------------
(* Properties *)

Activation ==
  [fn : {"process_run"}, at : {"poll", "event"}]
  \cup [fn : {"do_poll"}, q : Pointer]
  \cup [fn : {"do_event", "deliver"}, q : Pointer, n : Nat]
  \cup [fn : {"thread"}, p : Proc, ev : Event, old : Pointer \cup {"keep"}]
  \cup [fn : {"exit_process"}, p : Proc, q : Pointer, from : Pointer, old : Pointer]
  \cup [fn : {"unlink"}, p : Proc, old : Pointer]
  \cup [fn : {"last"}, p : Proc]

\* Type correctness: every pointer is NULL or a process, every queued event
\* has a receiver and the stack holds activation records.
TypeOK ==
  /\ head \in Pointer
  /\ next \in [Proc -> Pointer]
  /\ state \in [Proc -> {"NONE", "RUNNING", "CALLED"}]
  /\ needspoll \subseteq Proc
  /\ poll_requested \in BOOLEAN
  /\ current \in Pointer
  /\ events \in [0..NumEvents - 1 -> [to : Pointer, n : Nat]]
  /\ fevent \in 0..NumEvents - 1
  /\ nevents \in 0..NumEvents
  /\ stack \in Seq(Activation)
  /\ boot \in Seq(Proc)
  /\ calls \in Nat /\ polls \in Nat
  /\ posted \in Nat /\ taken \in Nat
  /\ wants \subseteq Proc /\ due \subseteq Proc /\ heard \subseteq Proc
  /\ restarted \in BOOLEAN

ActivationsOf(p, fns) ==
  {i \in DOMAIN stack : stack[i].fn \in fns /\ stack[i].p = p}

\* The process list is a list: no process is reached from its own successor,
\* so every walk along it ends, also one interrupted by starts and exits.
ListEnds == \A p \in Proc : p \notin From(next[p])

\* A process runs exactly while it is on the list, but for the moments
\* exit_process needs to take it off: process_is_running tells the truth and no
\* process is left that takes events but can be neither polled nor exited.
RunningIsListed ==
  \A p \in Proc :
    state[p] # "NONE" <=> OnList(p) /\ ActivationsOf(p, {"exit_process", "unlink"}) = {}

\* call_process never enters a thread that is already on the stack: a process
\* is marked CALLED exactly while one activation of its thread is.
NoReentry ==
  \A p \in Proc :
    IF state[p] = "CALLED"
    THEN Cardinality(ActivationsOf(p, {"thread"})) = 1
    ELSE ActivationsOf(p, {"thread"}) = {}

\* PROCESS_CURRENT() names the process whose thread is executing, whatever
\* kernel calls the thread has made: etimer_set and process_exit rely on it.
CurrentIsExecuting == InThread => current = top.p

\* No poll is lost, whenever the interrupt comes: the process is marked, and
\* either another search of the list is requested or the one under way will
\* still reach it.
PollIsPending ==
  \A p \in wants :
    /\ p \in needspoll
    /\ \/ poll_requested
       \/ \E i \in DOMAIN stack :
            stack[i].fn = "do_poll" /\ p \in From(After(stack[i].q))

\* When a broadcast is over, every process that was on the list when it began,
\* and has not exited, has been given the event.
BroadcastReachesAll ==
  top.fn = "do_event" /\ After(top.q) = NULL => due = {}

\* A broadcast gives no process the event twice, unless a process is started
\* from a poll handler while it is under way.
BroadcastOnce ==
  [][BroadcastDeliver /\ Callable(top.q) /\ ~restarted => top.q \notin heard]_vars

\* The ring of process_post and do_event is a bounded queue: events are taken
\* in the order they were posted, none lost, and a post fails only when it is full.
Queued == [i \in 1..nevents |-> events[(fevent + i - 1) % NumEvents]]
Fifo == INSTANCE BoundedFifo WITH
  Item <- [to : Pointer, n : 0..MaxCalls], Size <- NumEvents, queue <- Queued
EventsAreFifo == Fifo!Spec

\* A polled process is called with POLL, or exits.
PollIsServed == \A p \in Proc : p \in wants ~> p \notin wants

\* Every event that process_post accepts is taken from the ring.
EventIsTaken == \A n \in 1..MaxCalls : posted = n ~> taken >= n
=============================================================================
