------------------------ MODULE ProcessKernelProofs ------------------------
(***************************************************************************)
(* What is proved about the process kernel when process_exit is not called  *)
(* for a process whose thread is on the stack: the states of the processes, *)
(* the list and the stack agree, no poll is lost, and a broadcast reaches   *)
(* everybody once.                                                          *)
(***************************************************************************)
EXTENDS ProcessProofs

(***************************************************************************)
(* Who is running: the functions on the stack, the states and the list      *)
(***************************************************************************)
Listed == From(head)

LEMMA ListedIsWalk ==
  /\ Listed = Walk(next, head)
  /\ Listed' = Walk(next', head')
  /\ UNCHANGED list => Listed' = Listed /\ \A p : From(p)' = From(p)
<1>1. Listed = Walk(next, head) /\ Listed' = Walk(next', head')
  BY DEF Listed, From, Walk, Met, IsMet, Steps
<1>2. ASSUME UNCHANGED list
      PROVE  Listed' = Listed /\ \A p : From(p)' = From(p)
  BY <1>1, <1>2, FromIsWalk DEF list
<1>. QED  BY <1>1, <1>2

LEMMA ListedInserts ==
  ASSUME ListType, NEW r \in Proc, Inserts(r)
  PROVE  Listed' = {r} \cup Listed /\ r \notin Listed
<1>1. IsInserted(next, head, r, next') /\ head' = r
  BY DEF Inserts
<1>2. Walk(next', r) = {r} \cup Walk(next, head)
  BY <1>1, Insert DEF ListType
<1>. QED  BY <1>1, <1>2, ListedIsWalk DEF IsInserted

LEMMA ListedRemoves ==
  ASSUME ListType, ListEnds, NEW r \in Proc, Removes(r)
  PROVE  Listed' = Listed \ {r} /\ next'[r] = next[r]
<1>1. IsRemoved(next, head, r, next', head') /\ Ends(next)
  BY EndsIsListEnds DEF Removes
<1>2. Walk(next', head') = Walk(next, head) \ {r}
  BY <1>1, Remove DEF ListType
<1>3. next'[r] = next[r]
  BY <1>1 DEF IsRemoved
<1>. QED  BY <1>2, <1>3, ListedIsWalk

LEMMA MarkedFacts ==
  ASSUME NEW st \in [Proc -> {"NONE", "RUNNING", "CALLED"}], NEW p \in Proc,
         NEW m \in {"NONE", "RUNNING", "CALLED"}
  PROVE  /\ Marked(st, p, m) \in [Proc -> {"NONE", "RUNNING", "CALLED"}]
         /\ Marked(st, p, m)[p] = m
         /\ st[p] = m => Marked(st, p, m) = st
         /\ \A n : Marked(Marked(st, p, m), p, n) = Marked(st, p, n)
BY DEF Marked

\* One function that belongs to p gives way to another.
LEMMA OwnedSwap ==
  ASSUME NEW s \in Seq(Activation), s # <<>>, NEW st \in [Proc -> {"NONE", "RUNNING", "CALLED"}],
         NEW L, L \subseteq Proc, Owned(s, st, L), Own(Head(s)),
         NEW f \in Activation, Own(f), NEW p \in Proc, p = Head(s).p, p = f.p,
         NEW mark \in {"NONE", "CALLED"}, mark = Mark(f)
  PROVE  Owned(Push(Tail(s), f), Marked(st, p, mark), L)
<1>1. PICK u : u = Marked(st, p, "RUNNING")
  OBVIOUS
<1>2. Owned(Tail(s), u, L)
  BY <1>1, OwnedPopOwn
<1>3. u \in [Proc -> {"NONE", "RUNNING", "CALLED"}] /\ u[p] = "RUNNING"
      /\ Marked(u, p, mark) = Marked(st, p, mark)
  BY <1>1, MarkedFacts
<1>4. Tail(s) \in Seq(Activation)
  BY PopFacts
<1>5. Owned(Push(Tail(s), f), Marked(u, p, mark), L)
  BY <1>2, <1>3, <1>4, OwnedPushOwn
<1>. QED  BY <1>3, <1>5

LEMMA OwnedCall ==
  ASSUME RunType, NEW p \in Proc, NEW ev \in Event, NEW old \in Pointer \cup {"keep"},
         NEW rest \in Seq(Activation), NEW L, L \subseteq Proc, Owned(rest, state, L),
         call_process(p, ev, old, rest)
  PROVE  Owned(stack', state', L)
<1>1. CASE Callable(p)
  <2>1. PICK f : f = Thread(p, ev, old)
    OBVIOUS
  <2>2. f \in Activation /\ Own(f) /\ f.p = p /\ Mark(f) = "CALLED"
    BY <2>1, Makes DEF Own, Thread, Mark
  <2>3. /\ state' = Marked(state, p, "CALLED") /\ stack' = Push(rest, f)
        /\ state[p] = "RUNNING"
    BY <1>1, <2>1 DEF call_process, Push, Marked, Callable
  <2>4. Owned(Push(rest, f), Marked(state, p, "CALLED"), L)
    BY <2>2, <2>3, OwnedPushOwn DEF RunType
  <2>. QED  BY <2>3, <2>4
<1>2. CASE ~Callable(p)
  BY <1>2 DEF call_process
<1>. QED  BY <1>1, <1>2

\* What the steps keep: SearchOnList is about the function on top.
Full == Basic /\ Owned(stack, state, Listed) /\ SearchOnList /\ ListEnds

LEMMA FullFacts ==
  ASSUME Full
  PROVE  /\ Basic /\ RunType /\ ListType /\ ListEnds
         /\ stack \in Seq(Activation) /\ stack # <<>>
         /\ top \in Activation /\ callers \in Seq(Activation) /\ top = Head(stack)
         /\ callers = Tail(stack)
         /\ Listed \subseteq Proc
         /\ Owned(stack, state, Listed)
         /\ state \in [Proc -> {"NONE", "RUNNING", "CALLED"}]
         /\ head \in Listed \cup {NULL}
         /\ \A p \in Listed : next[p] \in Listed \cup {NULL}
         /\ ~Own(top) => Owned(callers, state, Listed)
<1>1. Basic /\ RunType /\ ListType /\ ListEnds
  BY DEF Full, Basic
<1>2. /\ head \in Listed \cup {NULL} /\ \A p \in Listed : next[p] \in Listed \cup {NULL}
  BY <1>1, FromType DEF Listed, ListType, Pointer
<1>3. stack \in Seq(Activation) /\ stack # <<>> /\ Listed \subseteq Proc
  BY <1>1, BasicTop DEF Listed
<1>4. ~Own(top) => Owned(callers, state, Listed)
  BY <1>3, OwnedPop DEF Full, top, callers
<1>. QED  BY <1>1, <1>2, <1>3, <1>4, BasicTop DEF Full, RunType, top, callers

\* In the kernel's own loops no process is being called or exited.
LEMMA Idle ==
  ASSUME Full, top.fn \in Kernels
  PROVE  \A p \in Listed : state[p] = "RUNNING"
<1>1. \A i \in 1..Len(stack) : ~Own(stack[i])
  BY NestedKernel DEF Full, Basic, StackGood, Nested, top
<1>. QED  BY <1>1 DEF Full, Owned

\* The top of the stack has changed and the list has not.
LEMMA TopSearch ==
  ASSUME Full, UNCHANGED list, NEW f, Head(stack') = f,
         f.fn = "do_poll" => f.q = NULL \/ f.q \in Listed
  PROVE  SearchOnList'
<1>1. Listed' = Listed /\ From(head)' = Listed'
  BY ListedIsWalk DEF Listed
<1>2. SearchOnList' <=>
        (f.fn = "do_poll" =>
           (IF f.q = NULL THEN head' ELSE next'[f.q]) \in Listed' \cup {NULL})
  BY <1>1 DEF SearchOnList, top, After
<1>. QED  BY <1>1, <1>2, FullFacts DEF list

\* What every action establishes.
OwnedGood == Owned(stack', state', Listed') /\ SearchOnList'

LEMMA StartOwned ==
  ASSUME Full, NEW r \in Proc, Startable(r), start(r, stack)
  PROVE  OwnedGood
<1>1. Inserts(r)
  BY StartInserts
<1>2. Listed' = {r} \cup Listed /\ r \notin Listed
  BY <1>1, FullFacts, ListedInserts
<1>3. PICK u : u = Marked(state, r, "RUNNING")
  OBVIOUS
<1>4. Owned(stack, u, Listed')
  BY <1>2, <1>3, FullFacts, OwnedEnter
<1>5. PICK f : f = Thread(r, "INIT", current)
  OBVIOUS
<1>6. f \in Activation /\ f.fn = "thread" /\ Own(f) /\ f.p = r /\ Mark(f) = "CALLED"
  BY <1>5, FullFacts, Makes DEF Thread, Own, Mark, Event, RunType
<1>7. stack' = Push(stack, f) /\ state' = Marked(state, r, "CALLED")
  BY <1>5 DEF start, Push, Marked
<1>8. u \in [Proc -> {"NONE", "RUNNING", "CALLED"}] /\ u[r] = "RUNNING"
      /\ Marked(u, r, "CALLED") = state' /\ Listed' \subseteq Proc
  BY <1>2, <1>3, <1>7, FullFacts, MarkedFacts
<1>9. Owned(Push(stack, f), Marked(u, r, "CALLED"), Listed')
  BY <1>4, <1>6, <1>8, FullFacts, OwnedPushOwn
<1>10. Head(stack') = f
  BY <1>6, <1>7, FullFacts, PushFacts
<1>11. SearchOnList'
  BY <1>6, <1>10 DEF SearchOnList, top
<1>. QED  BY <1>7, <1>8, <1>9, <1>11 DEF OwnedGood

LEMMA RunPollsOwned ==
  ASSUME Full, RunPolls
  PROVE  OwnedGood
<1>1. top.fn = "process_run" /\ UNCHANGED list /\ state' = state
  BY DEF RunPolls, Run
<1>2. PICK s : s = Push(callers, Run("event"))
  OBVIOUS
<1>3. Owned(callers, state, Listed) /\ callers \in Seq(Activation)
  BY <1>1, FullFacts DEF Own
<1>4. Owned(s, state, Listed) /\ s \in Seq(Activation) /\ Head(s) = Run("event")
  <2>1. Run("event") \in Activation /\ ~Own(Run("event")) /\ Run("event").fn = "process_run"
    BY Makes DEF Own, Run
  <2>. QED  BY <1>2, <1>3, <2>1, OwnedPush, PushFacts
<1>5. Poll(NULL) \in Activation /\ ~Own(Poll(NULL)) /\ Poll(NULL).q = NULL
  BY Makes DEF Own, Poll, Pointer
<1>6. Owned(Push(s, Poll(NULL)), state, Listed) /\ Head(Push(s, Poll(NULL))) = Poll(NULL)
  BY <1>4, <1>5, OwnedPush, PushFacts
<1>7. stack' = s \/ stack' = Push(s, Poll(NULL))
  BY <1>2 DEF RunPolls, do_poll, Push
<1>8. Owned(stack', state', Listed')
  BY <1>1, <1>4, <1>6, <1>7, ListedIsWalk
<1>9. PICK f : Head(stack') = f /\ (f.fn = "do_poll" => f.q = NULL)
  BY <1>4, <1>5, <1>6, <1>7 DEF Run
<1>. QED  BY <1>1, <1>8, <1>9, TopSearch DEF OwnedGood

LEMMA PollNextOwned ==
  ASSUME Full, PollNext
  PROVE  OwnedGood
<1>. DEFINE p == After(top.q)
<1>1. top.fn = "do_poll" /\ UNCHANGED list /\ p \in Listed \cup {NULL}
  BY DEF PollNext, Full, SearchOnList, Listed
<1>2. Owned(callers, state, Listed) /\ callers \in Seq(Activation) /\ Listed' = Listed
  BY <1>1, FullFacts, ListedIsWalk DEF Own
<1>3. CASE p = NULL /\ stack' = callers /\ state' = state
  <2>1. Head(callers).fn # "do_poll"
    BY <1>1, FullFacts, BasicTop DEF Fits
  <2>. QED  BY <1>1, <1>2, <1>3, <2>1, TopSearch DEF OwnedGood
<1>s. PICK s : s = Push(callers, Poll(p))
  OBVIOUS
<1>4. ASSUME p # NULL
      PROVE  /\ p \in Listed /\ p \in Proc /\ Poll(p) \in Activation
             /\ Owned(s, state, Listed) /\ s \in Seq(Activation) /\ Head(s) = Poll(p)
             /\ Poll(p).q = p
  <2>1. p \in Listed /\ p \in Proc
    BY <1>1, <1>4, FullFacts
  <2>2. Poll(p) \in Activation /\ ~Own(Poll(p)) /\ Poll(p).q = p
    BY <2>1, Makes DEF Own, Poll, Pointer
  <2>. QED  BY <1>2, <1>s, <2>1, <2>2, OwnedPush, PushFacts
<1>5. CASE p # NULL /\ stack' = s /\ state' = state
  BY <1>1, <1>2, <1>4, <1>5, TopSearch DEF OwnedGood
<1>6. CASE /\ p # NULL /\ state' = [state EXCEPT ![p] = "CALLED"]
           /\ stack' = <<Thread(p, "POLL", "keep"), Poll(p)>> \o callers
  <2>1. PICK f : f = Thread(p, "POLL", "keep")
    OBVIOUS
  <2>2. f \in Activation /\ Own(f) /\ f.p = p /\ Mark(f) = "CALLED" /\ f.fn = "thread"
    BY <1>4, <1>6, <2>1, Makes DEF Own, Thread, Mark, Event
  <2>3. stack' = Push(s, f) /\ state' = Marked(state, p, "CALLED")
    BY <1>2, <1>4, <1>6, <1>s, <2>1, <2>2, PushTwo DEF Marked
  <2>4. state[p] = "RUNNING"
    BY <1>1, <1>4, <1>6, Idle DEF Kernels
  <2>5. Owned(Push(s, f), Marked(state, p, "CALLED"), Listed)
    BY <1>4, <1>6, <2>2, <2>4, FullFacts, OwnedPushOwn
  <2>6. Head(stack') = f
    BY <1>4, <1>6, <2>2, <2>3, PushFacts
  <2>. QED  BY <1>1, <1>2, <2>2, <2>3, <2>5, <2>6, TopSearch DEF OwnedGood
<1>7. \/ p = NULL /\ stack' = callers /\ state' = state
      \/ p # NULL /\ stack' = s /\ state' = state
      \/ /\ p # NULL /\ state' = [state EXCEPT ![p] = "CALLED"]
         /\ stack' = <<Thread(p, "POLL", "keep"), Poll(p)>> \o callers
  BY <1>s DEF PollNext, Push
<1>. QED  BY <1>3, <1>5, <1>6, <1>7

\* call_process where the function below is not do_poll.
LEMMA CallOwned ==
  ASSUME Full, UNCHANGED list, NEW p \in Proc, NEW ev \in Event,
         NEW old \in Pointer \cup {"keep"}, NEW rest \in Seq(Activation), rest # <<>>,
         Owned(rest, state, Listed), Head(rest).fn # "do_poll",
         call_process(p, ev, old, rest)
  PROVE  OwnedGood
<1>1. Owned(stack', state', Listed')
  BY FullFacts, OwnedCall, ListedIsWalk
<1>2. Head(stack').fn # "do_poll"
  <2>1. CASE stack' = rest
    BY <2>1
  <2>2. CASE stack' = Push(rest, Thread(p, ev, old))
    <3>1. PICK f : f = Thread(p, ev, old)
      OBVIOUS
    <3>2. f \in Activation /\ f.fn = "thread"
      BY <3>1, Makes DEF Thread
    <3>3. Head(stack') = f
      BY <2>2, <3>1, <3>2, PushFacts
    <3>. QED  BY <3>2, <3>3
  <2>. QED  BY <2>1, <2>2 DEF call_process, Push
<1>. QED  BY <1>1, <1>2, TopSearch DEF OwnedGood

LEMMA RunEventOwned ==
  ASSUME Full, RingInv, RunEvent
  PROVE  OwnedGood
<1>1. top.fn = "process_run" /\ UNCHANGED list
  BY DEF RunEvent, Run
<1>2. PICK s : s = Push(callers, Run("poll"))
  OBVIOUS
<1>3. Owned(callers, state, Listed) /\ callers \in Seq(Activation) /\ Listed' = Listed
  BY <1>1, FullFacts, ListedIsWalk DEF Own
<1>4. /\ Owned(s, state, Listed) /\ s \in Seq(Activation) /\ s # <<>>
      /\ Head(s) = Run("poll") /\ Head(s).fn # "do_poll"
  <2>1. Run("poll") \in Activation /\ ~Own(Run("poll")) /\ Run("poll").fn = "process_run"
    BY Makes DEF Own, Run
  <2>. QED  BY <1>2, <1>3, <2>1, OwnedPush, PushFacts
<1>5. CASE stack' = s /\ state' = state
  BY <1>1, <1>3, <1>4, <1>5, TopSearch DEF OwnedGood
<1>e. events[fevent].to \in Pointer /\ events[fevent].n \in Nat
  <2>1. events[fevent] \in Items
    BY DEF RingInv
  <2>. QED  BY <2>1, ProcessAssumption DEF Items
<1>6. CASE /\ stack' = <<Broadcast(NULL, events[fevent].n), Run("poll")>> \o callers
           /\ state' = state
  <2>1. PICK f : f = Broadcast(NULL, events[fevent].n)
    OBVIOUS
  <2>2. f \in Activation /\ f.fn = "do_event" /\ ~Own(f)
    BY <1>e, <2>1, Makes DEF Broadcast, Pointer, Own
  <2>3. stack' = Push(s, f)
    BY <1>2, <1>3, <1>6, <2>1, <2>2, PushTwo, Makes
  <2>4. Owned(Push(s, f), state, Listed) /\ Head(Push(s, f)) = f
    BY <1>4, <2>2, OwnedPush, PushFacts
  <2>. QED  BY <1>1, <1>3, <1>6, <2>2, <2>3, <2>4, TopSearch DEF OwnedGood
<1>7. CASE events[fevent].to # NULL /\ call_process(events[fevent].to, "msg", "keep", s)
  <2>1. PICK p : p = events[fevent].to
    OBVIOUS
  <2>2. p \in Proc /\ call_process(p, "msg", "keep", s)
    BY <1>7, <1>e, <2>1 DEF Pointer
  <2>. QED  BY <1>1, <1>4, <2>2, CallOwned DEF Event
<1>8. \/ stack' = s /\ state' = state
      \/ /\ stack' = <<Broadcast(NULL, events[fevent].n), Run("poll")>> \o callers
         /\ state' = state
      \/ events[fevent].to # NULL /\ call_process(events[fevent].to, "msg", "keep", s)
  BY <1>2 DEF RunEvent, Push
<1>. QED  BY <1>5, <1>6, <1>7, <1>8

LEMMA BroadcastNextOwned ==
  ASSUME Full, BroadcastNext
  PROVE  OwnedGood
<1>1. /\ top.fn = "do_event" /\ After(top.q) \in Pointer /\ top.n \in Nat
      /\ UNCHANGED list /\ state' = state
  BY FullFacts, Kinds DEF BroadcastNext, ListType, After, Pointer
<1>2. Owned(callers, state, Listed) /\ callers \in Seq(Activation) /\ Listed' = Listed
      /\ Head(callers).fn = "process_run"
  BY <1>1, FullFacts, BasicTop, ListedIsWalk DEF Own, Fits
<1>4. PICK f : f = Deliver(After(top.q), top.n)
  OBVIOUS
<1>5. f \in Activation /\ f.fn = "deliver" /\ ~Own(f)
  BY <1>1, <1>4, Makes DEF Deliver, Own
<1>s. PICK s : s = Push(callers, f)
  OBVIOUS
<1>6. Owned(s, state, Listed) /\ s \in Seq(Activation) /\ Head(s) = f
  BY <1>2, <1>5, <1>s, OwnedPush, PushFacts
<1>7. Poll(NULL) \in Activation /\ ~Own(Poll(NULL)) /\ Poll(NULL).q = NULL
  BY Makes DEF Own, Poll, Pointer
<1>8. Owned(Push(s, Poll(NULL)), state, Listed) /\ Head(Push(s, Poll(NULL))) = Poll(NULL)
  BY <1>6, <1>7, OwnedPush, PushFacts
<1>9. stack' = callers \/ stack' = s \/ stack' = Push(s, Poll(NULL))
  BY <1>4, <1>s DEF BroadcastNext, do_poll, Push, Picked
<1>10. Owned(stack', state', Listed')
  BY <1>1, <1>2, <1>6, <1>8, <1>9
<1>11. PICK g : Head(stack') = g /\ (g.fn = "do_poll" => g.q = NULL)
  BY <1>2, <1>5, <1>6, <1>7, <1>8, <1>9
<1>. QED  BY <1>1, <1>10, <1>11, TopSearch DEF OwnedGood

LEMMA BroadcastDeliverOwned ==
  ASSUME Full, BroadcastDeliver
  PROVE  OwnedGood
<1>1. top.fn = "deliver" /\ top.q \in Proc /\ top.n \in Nat /\ UNCHANGED list
  BY FullFacts, BasicTop, Kinds DEF BroadcastDeliver, Pointer, Fits
<1>2. Owned(callers, state, Listed) /\ callers \in Seq(Activation)
  BY <1>1, FullFacts DEF Own
<1>3. PICK f, s : f = Broadcast(top.q, top.n) /\ s = Push(callers, f)
  OBVIOUS
<1>4. f \in Activation /\ f.fn = "do_event" /\ ~Own(f)
  BY <1>1, <1>3, Makes DEF Broadcast, Own, Pointer
<1>5. Owned(s, state, Listed) /\ s \in Seq(Activation) /\ s # <<>> /\ Head(s) = f
  BY <1>2, <1>3, <1>4, OwnedPush, PushFacts
<1>6. call_process(top.q, "msg", "keep", s)
  BY <1>3 DEF BroadcastDeliver, Push
<1>. QED  BY <1>1, <1>4, <1>5, <1>6, CallOwned DEF Event

LEMMA TellOthersOwned ==
  ASSUME Full, TellOthers
  PROVE  OwnedGood
<1>. DEFINE q == After(top.q)
<1>1. /\ top.fn = "exit_process" /\ top.p \in Proc /\ q \in Pointer /\ top.old \in Pointer
      /\ top.from \in Pointer /\ callers \in Seq(Activation) /\ top \in Activation
      /\ UNCHANGED list
  BY FullFacts, Kinds DEF TellOthers, ListType, After, Pointer
<1>f. PICK f : f = Exiting(top.p, q, top.from, top.old)
  OBVIOUS
<1>g. PICK g : g = Unlinking(top.p, top.old)
  OBVIOUS
<1>2. f \in Activation /\ Own(f) /\ f.p = top.p /\ f.fn = "exit_process" /\ Mark(f) = "NONE"
  BY <1>1, <1>f, Makes DEF Exiting, Own, Mark
<1>3. g \in Activation /\ Own(g) /\ g.p = top.p /\ g.fn = "unlink" /\ Mark(g) = "NONE"
  BY <1>1, <1>g, Makes DEF Unlinking, Own, Mark
<1>s. PICK s : s = Push(callers, f)
  OBVIOUS
<1>t. PICK t : t = Push(callers, g)
  OBVIOUS
<1>4. Own(top) /\ state[top.p] = "NONE"
  <2>1. 1 \in 1..Len(stack) /\ top = stack[1]
    BY FullFacts, PopFacts
  <2>. QED  BY <1>1, <2>1, FullFacts DEF Owned, Own, Mark
<1>5. Marked(state, top.p, "NONE") = state
  BY <1>1, <1>4, FullFacts, MarkedFacts
<1>6. Owned(s, state, Listed) /\ s \in Seq(Activation) /\ s # <<>> /\ Head(s) = f
  <2>1. Owned(s, Marked(state, top.p, "NONE"), Listed)
    BY <1>1, <1>2, <1>4, <1>s, FullFacts, OwnedSwap
  <2>. QED  BY <1>1, <1>2, <1>5, <1>s, <2>1, PushFacts
<1>7. Owned(t, state, Listed) /\ t \in Seq(Activation) /\ t # <<>> /\ Head(t) = g
  <2>1. Owned(t, Marked(state, top.p, "NONE"), Listed)
    BY <1>1, <1>3, <1>4, <1>t, FullFacts, OwnedSwap
  <2>. QED  BY <1>1, <1>3, <1>5, <1>t, <2>1, PushFacts
<1>8. CASE q # NULL /\ call_process(q, "EXITED", "keep", s)
  <2>1. q \in Proc
    BY <1>1, <1>8 DEF Pointer
  <2>. QED  BY <1>1, <1>2, <1>6, <1>8, <2>1, CallOwned DEF Event
<1>9. CASE stack' = s /\ state' = state
  BY <1>1, <1>2, <1>6, <1>9, TopSearch, ListedIsWalk DEF OwnedGood
<1>10. CASE stack' = t /\ state' = state
  BY <1>1, <1>3, <1>7, <1>10, TopSearch, ListedIsWalk DEF OwnedGood
<1>11. CASE /\ state' = state
            /\ stack' = <<Last(top.p), Unlinking(top.p, top.old)>> \o callers
  <2>1. PICK l : l = Last(top.p)
    OBVIOUS
  <2>2. l \in Activation /\ l.fn = "last" /\ ~Own(l)
    BY <1>1, <2>1, Makes DEF Last, Own
  <2>3. stack' = Push(t, l)
    BY <1>1, <1>3, <1>11, <1>g, <1>t, <2>1, <2>2, PushTwo
  <2>4. Owned(Push(t, l), state, Listed) /\ Head(Push(t, l)) = l
    BY <1>7, <2>2, OwnedPush, PushFacts
  <2>. QED  BY <1>1, <1>11, <2>2, <2>3, <2>4, TopSearch, ListedIsWalk DEF OwnedGood
<1>12. \/ q # NULL /\ call_process(q, "EXITED", "keep", s)
       \/ stack' = s /\ state' = state
       \/ stack' = t /\ state' = state
       \/ /\ state' = state
          /\ stack' = <<Last(top.p), Unlinking(top.p, top.old)>> \o callers
  <2>. PICK v : v = <<[top EXCEPT !.q = q]>> \o callers
    OBVIOUS
  <2>1. v = s
    <3>1. [top EXCEPT !.q = q] = f
      BY <1>1, <1>f, Visits
    <3>. QED  BY <3>1, <1>s DEF Push
  <2>2. \/ q # NULL /\ call_process(q, "EXITED", "keep", v)
        \/ stack' = v /\ state' = state
        \/ stack' = t /\ state' = state
        \/ /\ state' = state
           /\ stack' = <<Last(top.p), Unlinking(top.p, top.old)>> \o callers
    BY <1>g, <1>t DEF TellOthers, Push
  <2>. QED  BY <2>1, <2>2
<1>. QED  BY <1>8, <1>9, <1>10, <1>11, <1>12

\* The function of a process that is on top of the stack.
LEMMA OwnTop ==
  ASSUME Full, Own(top)
  PROVE  top.p \in Listed /\ top.p \in Proc /\ state[top.p] = Mark(top)
<1>1. 1 \in 1..Len(stack) /\ top = stack[1]
  BY FullFacts, PopFacts
<1>. QED  BY <1>1, FullFacts DEF Owned

LEMMA LeaveOwned ==
  ASSUME Full, Leave
  PROVE  OwnedGood
<1>1. /\ top.fn = "unlink" /\ Own(top) /\ stack' = callers /\ state' = state /\ Unlink(top.p)
      /\ Fits(Head(callers), top)
  BY FullFacts, BasicTop DEF Leave, Own
<1>2. PICK p : p = top.p
  OBVIOUS
<1>3. p \in Listed /\ p \in Proc /\ state[p] = "NONE"
  BY <1>1, <1>2, OwnTop DEF Mark
<1>4. Listed' = Listed \ {p} /\ next'[p] = next[p]
  BY <1>1, <1>2, <1>3, FullFacts, UnlinkRemoves, ListedRemoves
<1>5. PICK u : u = Marked(state, p, "RUNNING")
  OBVIOUS
<1>6. u \in [Proc -> {"NONE", "RUNNING", "CALLED"}] /\ u[p] = "RUNNING"
      /\ Marked(u, p, "NONE") = state
  BY <1>3, <1>5, FullFacts, MarkedFacts
<1>7. Owned(callers, u, Listed)
  BY <1>1, <1>2, <1>5, FullFacts, OwnedPopOwn
<1>8. Owned(callers, Marked(u, p, "NONE"), Listed \ {p})
  BY <1>3, <1>6, <1>7, FullFacts, OwnedLeave
<1>9. SearchOnList'
  <2>1. PICK f : f = Head(stack')
    OBVIOUS
  <2>2. SearchOnList' <=>
          (f.fn = "do_poll" =>
             (IF f.q = NULL THEN head' ELSE next'[f.q]) \in Listed' \cup {NULL})
    BY <2>1 DEF SearchOnList, top, After, Listed
  <2>3. f.fn = "do_poll" => f.q = p
    BY <1>1, <1>2, <2>1 DEF Fits
  <2>4. p # NULL /\ next[p] \in Listed \cup {NULL}
    BY <1>3, FullFacts, SizeType
  <2>5. next[p] # p
    <3>1. p \notin From(next[p]) /\ next[p] \in Pointer
      BY <1>3, FullFacts DEF ListEnds, ListType
    <3>2. next[p] \in Proc => next[p] \in From(next[p])
      BY FullFacts, FromType
    <3>. QED  BY <1>3, <3>1, <3>2
  <2>. QED  BY <1>4, <2>2, <2>3, <2>4, <2>5
<1>. QED  BY <1>1, <1>4, <1>6, <1>8, <1>9 DEF OwnedGood

LEMMA YieldOwned ==
  ASSUME Full, Yield
  PROVE  OwnedGood
<1>1. /\ top.fn = "thread" /\ Own(top) /\ stack' = callers /\ UNCHANGED list
      /\ state' = Marked(state, top.p, "RUNNING") /\ Fits(Head(callers), top)
  BY FullFacts, BasicTop DEF Yield, Own, Marked
<1>2. top.p \in Listed
  BY <1>1, OwnTop
<1>3. Owned(callers, state', Listed')
  BY <1>1, FullFacts, OwnedPopOwn, ListedIsWalk
<1>4. PICK f : f = Head(stack')
  OBVIOUS
<1>5. f.fn = "do_poll" => f.q \in Listed
  BY <1>1, <1>2, <1>4 DEF Fits
<1>. QED  BY <1>1, <1>3, <1>4, <1>5, TopSearch DEF OwnedGood

LEMMA EndOwned ==
  ASSUME Full, End
  PROVE  OwnedGood /\ UNCHANGED list /\ exit_process(top.p, top.p, Restored, callers)
<1>1. /\ top.fn = "thread" /\ Own(top) /\ Restored \in Pointer
  BY FullFacts, RestoredFits DEF End, Own
<1>2. top.p \in Listed /\ top.p \in Proc /\ state[top.p] = "CALLED"
  BY <1>1, OwnTop DEF Mark
<1>3. exit_process(top.p, top.p, Restored, callers) /\ UNCHANGED list
  BY <1>2 DEF End, OnList, Listed
<1>4. PICK f : f = Exiting(top.p, NULL, top.p, Restored)
  OBVIOUS
<1>5. f \in Activation /\ Own(f) /\ f.p = top.p /\ f.fn = "exit_process" /\ Mark(f) = "NONE"
  BY <1>1, <1>2, <1>4, Makes DEF Exiting, Own, Mark, Pointer
<1>6. stack' = Push(callers, f) /\ state' = Marked(state, top.p, "NONE")
  BY <1>3, <1>4 DEF exit_process, Push, Marked
<1>7. Owned(Push(callers, f), Marked(state, top.p, "NONE"), Listed)
  BY <1>1, <1>2, <1>5, FullFacts, OwnedSwap
<1>8. Head(stack') = f
  BY <1>5, <1>6, FullFacts, PushFacts
<1>. QED  BY <1>3, <1>5, <1>6, <1>7, <1>8, TopSearch, ListedIsWalk DEF OwnedGood

LEMMA ReturnLastOwned ==
  ASSUME Full, ReturnLast
  PROVE  OwnedGood
<1>1. /\ top.fn = "last" /\ stack' = callers /\ state' = state /\ UNCHANGED list
      /\ Head(callers).fn = "unlink"
  BY FullFacts, BasicTop DEF ReturnLast, Fits
<1>2. Owned(callers, state, Listed)
  BY <1>1, FullFacts DEF Own
<1>. QED  BY <1>1, <1>2, TopSearch, ListedIsWalk DEF OwnedGood

LEMMA PostSynchOwned ==
  ASSUME Full, NEW p \in Proc, PostSynch(p)
  PROVE  OwnedGood
<1>1. /\ Head(stack).fn \in {"thread", "last"} /\ call_process(p, "msg", current, stack)
      /\ UNCHANGED list
  BY DEF PostSynch, Call, InThread, top
<1>. QED  BY <1>1, FullFacts, CallOwned DEF RunType, Event

LEMMA ExitOwned ==
  ASSUME Full, ~ExitCalled, NEW p \in Proc, Exit(p)
  PROVE  OwnedGood
<1>1. /\ exit_process(p, current, current, stack) /\ state[p] = "RUNNING"
      /\ UNCHANGED list /\ current \in Pointer
  BY FullFacts DEF Exit, RunType
<1>2. PICK f : f = Exiting(p, NULL, current, current)
  OBVIOUS
<1>3. f \in Activation /\ Own(f) /\ f.p = p /\ f.fn = "exit_process" /\ Mark(f) = "NONE"
  BY <1>1, <1>2, Makes DEF Exiting, Own, Mark, Pointer
<1>4. stack' = Push(stack, f) /\ state' = Marked(state, p, "NONE")
  BY <1>1, <1>2 DEF exit_process, Push, Marked
<1>5. Owned(Push(stack, f), Marked(state, p, "NONE"), Listed)
  BY <1>1, <1>3, FullFacts, OwnedPushOwn
<1>6. Head(stack') = f
  BY <1>3, <1>4, FullFacts, PushFacts
<1>. QED  BY <1>1, <1>3, <1>4, <1>5, <1>6, TopSearch, ListedIsWalk DEF OwnedGood

LEMMA OwnedStep ==
  ASSUME Full, ~ExitCalled, RingInv, boot \in Seq(Proc), [Next]_vars
  PROVE  OwnedGood
<1>0. ASSUME UNCHANGED <<list, running>>
      PROVE  OwnedGood
  <2>1. Listed' = Listed /\ From(head)' = Listed'
    BY <1>0, ListedIsWalk DEF Listed
  <2>2. SearchOnList'
    BY <1>0, <2>1 DEF Full, SearchOnList, top, After, list, running, Listed
  <2>. QED  BY <1>0, <2>1, <2>2 DEF Full, OwnedGood, running
<1>1. CASE AutostartNext
  <2>1. Head(boot) \in Proc
    BY <1>1 DEF AutostartNext
  <2>2. \/ Startable(Head(boot)) /\ start(Head(boot), stack)
        \/ UNCHANGED <<list, running>>
    BY <1>1 DEF AutostartNext
  <2>. QED  BY <1>0, <2>1, <2>2, StartOwned
<1>2. ASSUME NEW p \in Proc, Start(p)
      PROVE  OwnedGood
  BY <1>2, StartOwned DEF Start
<1>3. CASE RunPolls
  BY <1>3, RunPollsOwned
<1>4. CASE PollNext
  BY <1>4, PollNextOwned
<1>5. CASE RunEvent
  BY <1>5, RunEventOwned
<1>6. CASE BroadcastNext
  BY <1>6, BroadcastNextOwned
<1>7. CASE BroadcastDeliver
  BY <1>7, BroadcastDeliverOwned
<1>8. CASE TellOthers
  BY <1>8, TellOthersOwned
<1>9. CASE Leave
  BY <1>9, LeaveOwned
<1>10. CASE Yield
  BY <1>10, YieldOwned
<1>11. CASE End
  BY <1>11, EndOwned
<1>12. CASE ReturnLast
  BY <1>12, ReturnLastOwned
<1>13. ASSUME NEW p \in Proc, PostSynch(p)
       PROVE  OwnedGood
  BY <1>13, PostSynchOwned
<1>14. ASSUME NEW p \in Proc, Exit(p)
       PROVE  OwnedGood
  BY <1>14, ExitOwned
<1>15. ASSUME \/ CallRefused \/ UNCHANGED vars \/ \E to \in Pointer : Post(to)
              \/ \E p \in Proc : PollFromThread(p) \/ Interrupt(p)
       PROVE  UNCHANGED <<list, running>>
  BY <1>15 DEF CallRefused, Post, PollFromThread, Interrupt, vars
<1>. QED
  BY <1>0, <1>1, <1>2, <1>3, <1>4, <1>5, <1>6, <1>7, <1>8, <1>9, <1>10, <1>11, <1>12,
     <1>13, <1>14, <1>15 DEF Next, Kernel, Calls

(***************************************************************************)
(* What is ahead of a loop over the list                                    *)
(***************************************************************************)
Ahead(q) == From(After(q))

LEMMA AheadIsWalk ==
  /\ \A q : Ahead(q) = Walk(next, IF q = NULL THEN head ELSE next[q])
  /\ \A q : Ahead(q)' = Walk(next', IF q = NULL THEN head' ELSE next'[q])
  /\ \A q : From(After(q)) = Ahead(q)
BY FromIsWalk DEF Ahead, After, From, Walk, Met, IsMet, Steps

\* A process that stays on the list stays ahead of a loop that has it ahead, also
\* when the process the loop has reached leaves the list or is started again.
LEMMA AheadStays ==
  ASSUME ListType, ListEnds,
         UNCHANGED list \/ \E r \in Proc : Inserts(r) \/ Removes(r),
         NEW p \in Listed, p \in Listed', NEW q \in Pointer
  PROVE  /\ p \in Ahead(q) => p \in Ahead(q)'
         /\ p \in From(q) => p \in From(q)'
<1>0. /\ head \in Pointer /\ next \in [Proc -> Pointer] /\ Ends(next)
      /\ Listed = Walk(next, head) /\ Listed' = Walk(next', head')
      /\ From(q) = Walk(next, q) /\ From(q)' = Walk(next', q)
  BY EndsIsListEnds, ListedIsWalk, FromIsWalk DEF ListType
<1>1. CASE UNCHANGED list
  BY <1>0, <1>1, AheadIsWalk DEF list
<1>2. ASSUME NEW r \in Proc, Inserts(r)
      PROVE  /\ p \in Ahead(q) => p \in Ahead(q)'
             /\ p \in From(q) => p \in From(q)'
  <2>1. IsInserted(next, head, r, next') /\ head' = r
    BY <1>2 DEF Inserts
  <2>2. ASSUME NEW x \in Pointer, p \in Walk(next, x)
        PROVE  p \in Walk(next', x)
    <3>1. r \notin Walk(next, x) => Walk(next', x) = Walk(next, x)
      BY <1>0, <2>1, InsertElsewhere
    <3>2. r \in Walk(next, x) => Walk(next, head) \subseteq Walk(next', x)
      BY <1>0, <2>1, Insert
    <3>. QED  BY <1>0, <2>2, <3>1, <3>2
  <2>3. next'[r] = head /\ \A x \in Proc : x # r => next'[x] = next[x]
    BY <1>0, <2>1 DEF IsInserted
  <2>4. p \in Walk(next', head) /\ p \in Walk(next', head')
    BY <1>0, <2>1, Insert
  <2>5. CASE q = NULL
    BY <1>0, <2>2, <2>4, <2>5, AheadIsWalk
  <2>6. CASE q = r
    BY <1>0, <2>2, <2>3, <2>4, <2>6, AheadIsWalk, SizeType
  <2>7. CASE q # NULL /\ q # r
    <3>1. q \in Proc /\ next[q] \in Pointer /\ next'[q] = next[q]
      BY <1>0, <2>3, <2>7 DEF Pointer
    <3>. QED  BY <1>0, <2>2, <2>7, <3>1, AheadIsWalk
  <2>. QED  BY <2>5, <2>6, <2>7
<1>3. ASSUME NEW r \in Proc, Removes(r)
      PROVE  /\ p \in Ahead(q) => p \in Ahead(q)'
             /\ p \in From(q) => p \in From(q)'
  <2>1. IsRemoved(next, head, r, next', head')
    BY <1>3 DEF Removes
  <2>2. \A x \in Pointer : Walk(next, x) \ {r} \subseteq Walk(next', x)
    BY <1>0, <2>1, Remove
  <2>3. p # r
    BY <1>3, ListedRemoves
  <2>4. CASE q = NULL
    BY <1>0, <2>2, <2>3, <2>4, AheadIsWalk
  <2>5. CASE q # NULL
    <3>1. q \in Proc /\ next[q] \in Pointer /\ next[r] \in Pointer
      BY <1>0, <2>5 DEF Pointer
    <3>2. next'[q] = next[q] \/ (next[q] = r /\ next'[q] = next[r])
      BY <1>0, <2>1, <3>1 DEF IsRemoved
    <3>3. Walk(next, r) = {r} \cup Walk(next, next[r])
      BY <1>0, WalkUnfold
    <3>. QED  BY <1>0, <2>2, <2>3, <2>5, <3>1, <3>2, <3>3, AheadIsWalk
  <2>. QED  BY <2>4, <2>5
<1>. QED  BY <1>1, <1>2, <1>3

(***************************************************************************)
(* The loops over the list that are under way                               *)
(***************************************************************************)
Loop(f) == f.fn \in {"do_poll", "do_event", "deliver"}

Loops(s) == {f \in {s[i] : i \in 1..Len(s)} : Loop(f)}

LEMMA LoopsPush ==
  ASSUME NEW s \in Seq(Activation), NEW f \in Activation
  PROVE  Loops(Push(s, f)) = IF Loop(f) THEN {f} \cup Loops(s) ELSE Loops(s)
<1>1. PICK t, m : t = Push(s, f) /\ m = Len(s)
  OBVIOUS
<1>2. Len(t) = m + 1 /\ m \in Nat /\ t[1] = f /\ \A i \in 1..m : t[i + 1] = s[i]
  BY <1>1, PushFacts
<1>3. \A i \in 1..m : i + 1 \in 1..Len(t)
  BY <1>2
<1>4. \A i \in 1..Len(t) : i = 1 \/ (i - 1 \in 1..m /\ (i - 1) + 1 = i)
  BY <1>2
<1>5. 1 \in 1..Len(t)
  BY <1>2
<1>6. {t[i] : i \in 1..Len(t)} = {f} \cup {s[i] : i \in 1..m}
  <2>1. ASSUME NEW i \in 1..Len(t) PROVE t[i] \in {f} \cup {s[j] : j \in 1..m}
    <3>1. CASE i = 1
      BY <1>2, <3>1
    <3>2. CASE i # 1
      <4>1. i - 1 \in 1..m /\ t[i] = s[i - 1]
        BY <1>2, <1>4, <3>2
      <4>. QED  BY <4>1
    <3>. QED  BY <3>1, <3>2
  <2>2. f \in {t[i] : i \in 1..Len(t)}
    BY <1>2, <1>5
  <2>3. ASSUME NEW j \in 1..m PROVE s[j] \in {t[i] : i \in 1..Len(t)}
    <3>1. j + 1 \in 1..Len(t) /\ t[j + 1] = s[j]
      BY <1>2, <1>3
    <3>. QED  BY <3>1
  <2>. QED  BY <2>1, <2>2, <2>3
<1>. QED  BY <1>1, <1>6 DEF Loops

LEMMA LoopsPop ==
  ASSUME NEW s \in Seq(Activation), s # <<>>
  PROVE  Loops(s) = IF Loop(Head(s)) THEN {Head(s)} \cup Loops(Tail(s)) ELSE Loops(Tail(s))
<1>1. PICK t, m : t = Tail(s) /\ m = Len(s)
  OBVIOUS
<1>2. Len(t) = m - 1 /\ m \in Nat \ {0} /\ Head(s) = s[1] /\ \A i \in 1..m - 1 : t[i] = s[i + 1]
  BY <1>1, PopFacts
<1>3. \A i \in 1..m - 1 : i + 1 \in 1..m
  BY <1>2
<1>4. \A i \in 1..m : i = 1 \/ (i - 1 \in 1..m - 1 /\ (i - 1) + 1 = i)
  BY <1>2
<1>5. 1 \in 1..m
  BY <1>2
<1>6. {s[i] : i \in 1..m} = {s[1]} \cup {t[i] : i \in 1..m - 1}
  <2>1. ASSUME NEW i \in 1..m PROVE s[i] \in {s[1]} \cup {t[j] : j \in 1..m - 1}
    <3>1. CASE i = 1
      BY <3>1
    <3>2. CASE i # 1
      <4>1. i - 1 \in 1..m - 1 /\ s[i] = t[i - 1]
        BY <1>2, <1>4, <3>2
      <4>. QED  BY <4>1
    <3>. QED  BY <3>1, <3>2
  <2>2. s[1] \in {s[i] : i \in 1..m}
    BY <1>5
  <2>3. ASSUME NEW j \in 1..m - 1 PROVE t[j] \in {s[i] : i \in 1..m}
    <3>1. j + 1 \in 1..m /\ s[j + 1] = t[j]
      BY <1>2, <1>3
    <3>. QED  BY <3>1
  <2>. QED  BY <2>1, <2>2, <2>3
<1>. QED  BY <1>1, <1>2, <1>6 DEF Loops

LEMMA LoopsTop ==
  ASSUME Basic
  PROVE  Loops(stack) = IF Loop(top) THEN {top} \cup Loops(callers) ELSE Loops(callers)
BY BasicTop, LoopsPop DEF top, callers

\* call_process starts no loop.
LEMMA LoopsCall ==
  ASSUME NEW p \in Proc, NEW ev \in Event, NEW old \in Pointer \cup {"keep"},
         NEW rest \in Seq(Activation), call_process(p, ev, old, rest)
  PROVE  Loops(stack') = Loops(rest)
<1>1. PICK f : f = Thread(p, ev, old)
  OBVIOUS
<1>2. f \in Activation /\ ~Loop(f)
  BY <1>1, Makes DEF Thread, Loop
<1>3. stack' = rest \/ stack' = Push(rest, f)
  BY <1>1 DEF call_process, Push
<1>. QED  BY <1>2, <1>3, LoopsPush

LEMMA LoopsStart ==
  ASSUME Basic, NEW p \in Proc, start(p, stack)
  PROVE  Loops(stack') = Loops(stack)
<1>1. PICK f : f = Thread(p, "INIT", current)
  OBVIOUS
<1>2. f \in Activation /\ ~Loop(f)
  BY <1>1, Makes DEF Thread, Loop, Event, Basic, RunType
<1>3. stack' = Push(stack, f)
  BY <1>1 DEF start, Push
<1>. QED  BY <1>2, <1>3, LoopsPush, BasicTop

LEMMA LoopsExit ==
  ASSUME NEW p \in Proc, NEW from \in Pointer, NEW old \in Pointer, NEW rest \in Seq(Activation),
         exit_process(p, from, old, rest)
  PROVE  Loops(stack') = Loops(rest)
<1>1. PICK f : f = Exiting(p, NULL, from, old)
  OBVIOUS
<1>2. f \in Activation /\ ~Loop(f)
  BY <1>1, Makes DEF Exiting, Loop, Pointer
<1>3. stack' = Push(rest, f)
  BY <1>1 DEF exit_process, Push
<1>. QED  BY <1>2, <1>3, LoopsPush

LEMMA LoopsTellOthers ==
  ASSUME Basic, TellOthers
  PROVE  Loops(stack') = Loops(stack)
<1>. DEFINE q == After(top.q)
<1>1. /\ top.fn = "exit_process" /\ top.p \in Proc /\ q \in Pointer /\ top.old \in Pointer
      /\ top.from \in Pointer /\ callers \in Seq(Activation) /\ top \in Activation
  BY BasicTop, Kinds DEF TellOthers, ListType, After, Pointer, Basic
<1>f. PICK f : f = Exiting(top.p, q, top.from, top.old)
  OBVIOUS
<1>g. PICK g : g = Unlinking(top.p, top.old)
  OBVIOUS
<1>l. PICK l : l = Last(top.p)
  OBVIOUS
<1>2. f \in Activation /\ ~Loop(f)
  BY <1>1, <1>f, Makes DEF Exiting, Loop
<1>3. g \in Activation /\ ~Loop(g)
  BY <1>1, <1>g, Makes DEF Unlinking, Loop
<1>4. l \in Activation /\ ~Loop(l)
  BY <1>1, <1>l, Makes DEF Last, Loop
<1>5. Loops(stack) = Loops(callers)
  BY <1>1, LoopsTop DEF Loop
<1>6. /\ Push(callers, f) \in Seq(Activation) /\ Loops(Push(callers, f)) = Loops(callers)
      /\ Push(callers, g) \in Seq(Activation) /\ Loops(Push(callers, g)) = Loops(callers)
  BY <1>1, <1>2, <1>3, LoopsPush, PushFacts
<1>7. Loops(Push(Push(callers, g), l)) = Loops(callers)
  BY <1>4, <1>6, LoopsPush
<1>8. [top EXCEPT !.q = q] = f
  BY <1>1, <1>f, Visits
<1>9. CASE q # NULL /\ call_process(q, "EXITED", "keep", Push(callers, f))
  <2>1. q \in Proc
    BY <1>1, <1>9 DEF Pointer
  <2>. QED  BY <1>5, <1>6, <1>9, <2>1, LoopsCall DEF Event
<1>10. CASE stack' = <<l, g>> \o callers
  BY <1>1, <1>3, <1>4, <1>5, <1>7, <1>10, PushTwo
<1>11. \/ q # NULL /\ call_process(q, "EXITED", "keep", Push(callers, f))
       \/ stack' = Push(callers, f)
       \/ stack' = Push(callers, g)
       \/ stack' = <<l, g>> \o callers
  <2>. PICK h : h = [top EXCEPT !.q = q]
    OBVIOUS
  <2>1. \/ q # NULL /\ call_process(q, "EXITED", "keep", Push(callers, h))
        \/ stack' = Push(callers, h)
        \/ stack' = Push(callers, g)
        \/ stack' = <<l, g>> \o callers
    BY <1>g, <1>l DEF TellOthers, Push
  <2>. QED  BY <1>8, <2>1
<1>. QED  BY <1>5, <1>6, <1>9, <1>10, <1>11

\* No other action begins, advances or ends a loop.
LEMMA LoopsKept ==
  ASSUME Basic, boot \in Seq(Proc), [Next]_vars,
         ~RunPolls, ~PollNext, ~RunEvent, ~BroadcastNext, ~BroadcastDeliver
  PROVE  Loops(stack') = Loops(stack)
<1>0. ASSUME stack' = callers, top.fn \in {"unlink", "thread", "last"}
      PROVE  Loops(stack') = Loops(stack)
  BY <1>0, LoopsTop DEF Loop
<1>1. CASE AutostartNext
  <2>1. Head(boot) \in Proc /\ (start(Head(boot), stack) \/ UNCHANGED running)
    BY <1>1 DEF AutostartNext
  <2>2. UNCHANGED running => stack' = stack
    BY DEF running
  <2>. QED  BY <2>1, <2>2, LoopsStart
<1>2. ASSUME NEW p \in Proc, Start(p)
      PROVE  Loops(stack') = Loops(stack)
  BY <1>2, LoopsStart DEF Start
<1>3. CASE TellOthers
  BY <1>3, LoopsTellOthers
<1>4. CASE Leave \/ Yield \/ ReturnLast
  BY <1>0, <1>4 DEF Leave, Yield, ReturnLast
<1>5. CASE End
  <2>1. /\ top.fn = "thread" /\ top.p \in Proc /\ Restored \in Pointer
        /\ callers \in Seq(Activation)
    BY <1>5, BasicTop, RestoredFits DEF End
  <2>2. stack' = callers \/ exit_process(top.p, top.p, Restored, callers)
    BY <1>5 DEF End
  <2>3. Loops(stack) = Loops(callers)
    BY <2>1, LoopsTop DEF Loop
  <2>. QED  BY <2>1, <2>2, <2>3, LoopsExit DEF Pointer
<1>6. ASSUME NEW p \in Proc, PostSynch(p)
      PROVE  Loops(stack') = Loops(stack)
  <2>1. call_process(p, "msg", current, stack) /\ current \in Pointer
    BY <1>6 DEF PostSynch, Basic, RunType
  <2>. QED  BY <2>1, LoopsCall, BasicTop DEF Event
<1>7. ASSUME NEW p \in Proc, Exit(p)
      PROVE  Loops(stack') = Loops(stack)
  <2>1. exit_process(p, current, current, stack) /\ current \in Pointer
    BY <1>7 DEF Exit, Basic, RunType
  <2>. QED  BY <2>1, LoopsExit, BasicTop
<1>8. ASSUME \/ CallRefused \/ UNCHANGED vars \/ \E to \in Pointer : Post(to)
             \/ \E p \in Proc : PollFromThread(p) \/ Interrupt(p)
      PROVE  stack' = stack
  BY <1>8 DEF CallRefused, Post, PollFromThread, Interrupt, vars, running
<1>. QED  BY <1>1, <1>2, <1>3, <1>4, <1>5, <1>6, <1>7, <1>8 DEF Next, Kernel, Calls

-----------------------------------------------------------------------------
(* What the loops of the kernel do.                                         *)
LEMMA LoopsRunPolls ==
  ASSUME Basic, RunPolls
  PROVE  \/ /\ Loops(stack') = Loops(stack)
            /\ poll_requested' = poll_requested
         \/ /\ Loops(stack') = {Poll(NULL)} \cup Loops(stack)
            /\ poll_requested' = FALSE
<1>1. top.fn = "process_run" /\ callers \in Seq(Activation) /\ Loops(stack) = Loops(callers)
  BY LoopsTop, BasicTop DEF RunPolls, Run, Loop
<1>2. PICK s : s = Push(callers, Run("event"))
  OBVIOUS
<1>3. s \in Seq(Activation) /\ Loops(s) = Loops(callers)
  <2>1. Run("event") \in Activation /\ ~Loop(Run("event"))
    BY Makes DEF Run, Loop
  <2>. QED  BY <1>1, <1>2, <2>1, LoopsPush, PushFacts
<1>4. Loops(Push(s, Poll(NULL))) = {Poll(NULL)} \cup Loops(s)
  <2>1. Poll(NULL) \in Activation /\ Loop(Poll(NULL))
    BY Makes DEF Poll, Loop, Pointer
  <2>. QED  BY <1>3, <2>1, LoopsPush
<1>5. \/ stack' = s /\ poll_requested' = poll_requested
      \/ stack' = Push(s, Poll(NULL)) /\ poll_requested' = FALSE
  BY <1>2 DEF RunPolls, do_poll, Push
<1>. QED  BY <1>1, <1>3, <1>4, <1>5

LEMMA LoopsPollNext ==
  ASSUME Basic, PollNext
  PROVE  /\ Loops(stack) = {top} \cup Loops(callers)
         /\ After(top.q) \in Pointer
         /\ \/ After(top.q) = NULL /\ Loops(stack') = Loops(callers)
            \/ /\ After(top.q) # NULL
               /\ Loops(stack') = {Poll(After(top.q))} \cup Loops(callers)
<1>. DEFINE p == After(top.q)
<1>1. /\ top.fn = "do_poll" /\ p \in Pointer /\ callers \in Seq(Activation)
      /\ Loops(stack) = {top} \cup Loops(callers)
  BY BasicTop, Kinds, LoopsTop DEF PollNext, Basic, ListType, After, Pointer, Loop
<1>2. Poll(p) \in Activation /\ Loop(Poll(p))
  BY <1>1, Makes DEF Poll, Loop
<1>s. PICK s : s = Push(callers, Poll(p))
  OBVIOUS
<1>3. s \in Seq(Activation) /\ Loops(s) = {Poll(p)} \cup Loops(callers)
  BY <1>1, <1>2, <1>s, LoopsPush, PushFacts
<1>4. CASE p # NULL /\ stack' = <<Thread(p, "POLL", "keep"), Poll(p)>> \o callers
  <2>1. PICK f : f = Thread(p, "POLL", "keep")
    OBVIOUS
  <2>2. f \in Activation /\ ~Loop(f)
    BY <1>1, <1>4, <2>1, Makes DEF Loop, Thread, Event, Pointer
  <2>3. stack' = Push(s, f)
    BY <1>1, <1>2, <1>4, <1>s, <2>1, <2>2, PushTwo
  <2>. QED  BY <1>1, <1>3, <1>4, <2>2, <2>3, LoopsPush
<1>5. \/ p = NULL /\ stack' = callers
      \/ p # NULL /\ stack' = s
      \/ p # NULL /\ stack' = <<Thread(p, "POLL", "keep"), Poll(p)>> \o callers
  BY <1>s DEF PollNext, Push
<1>. QED  BY <1>1, <1>3, <1>4, <1>5

LEMMA LoopsRunEvent ==
  ASSUME Basic, RingInv, RunEvent
  PROVE  \/ Loops(stack') = Loops(stack) /\ due' = due
         \/ /\ \E n \in Nat : Loops(stack') = {Broadcast(NULL, n)} \cup Loops(stack)
            /\ due' = Listed /\ heard' = {} /\ UNCHANGED <<list, state>>
<1>1. top.fn = "process_run" /\ callers \in Seq(Activation) /\ Loops(stack) = Loops(callers)
  BY LoopsTop, BasicTop DEF RunEvent, Run, Loop
<1>2. PICK s : s = Push(callers, Run("poll"))
  OBVIOUS
<1>3. s \in Seq(Activation) /\ Loops(s) = Loops(callers) /\ Run("poll") \in Activation
  <2>1. Run("poll") \in Activation /\ ~Loop(Run("poll"))
    BY Makes DEF Run, Loop
  <2>. QED  BY <1>1, <1>2, <2>1, LoopsPush, PushFacts
<1>e. events[fevent].to \in Pointer /\ events[fevent].n \in Nat
  <2>1. events[fevent] \in Items
    BY DEF RingInv
  <2>. QED  BY <2>1, ProcessAssumption DEF Items
<1>4. PICK f, n : n = events[fevent].n /\ f = Broadcast(NULL, n)
  OBVIOUS
<1>5. n \in Nat /\ f \in Activation /\ Loop(f)
  BY <1>e, <1>4, Makes DEF Broadcast, Loop, Pointer
<1>6. Loops(<<f, Run("poll")>> \o callers) = {f} \cup Loops(callers)
  <2>1. <<f, Run("poll")>> \o callers = Push(s, f)
    BY <1>1, <1>2, <1>3, <1>5, PushTwo
  <2>. QED  BY <1>3, <1>5, <2>1, LoopsPush
<1>7. CASE /\ events[fevent].to # NULL /\ call_process(events[fevent].to, "msg", "keep", s)
           /\ due' = due
  <2>1. PICK p : p = events[fevent].to
    OBVIOUS
  <2>2. p \in Proc /\ call_process(p, "msg", "keep", s)
    BY <1>7, <1>e, <2>1 DEF Pointer
  <2>3. Loops(stack') = Loops(s)
    BY <1>3, <2>2, LoopsCall DEF Event
  <2>. QED  BY <1>1, <1>3, <1>7, <2>3
<1>8. \/ stack' = s /\ due' = due
      \/ /\ stack' = <<f, Run("poll")>> \o callers
         /\ due' = Listed /\ heard' = {} /\ UNCHANGED <<list, state>>
      \/ /\ events[fevent].to # NULL /\ call_process(events[fevent].to, "msg", "keep", s)
         /\ due' = due
  BY <1>2, <1>4 DEF RunEvent, Push, Listed, broadcast
<1>. QED  BY <1>1, <1>3, <1>4, <1>5, <1>6, <1>7, <1>8

LEMMA LoopsBroadcastNext ==
  ASSUME Basic, BroadcastNext
  PROVE  /\ Loops(stack) = {top} \cup Loops(callers)
         /\ \/ Loops(stack') = Loops(callers) /\ poll_requested' = poll_requested
            \/ /\ Loops(stack') = {Deliver(After(top.q), top.n)} \cup Loops(callers)
               /\ poll_requested' = poll_requested
            \/ /\ Loops(stack') = {Poll(NULL), Deliver(After(top.q), top.n)} \cup Loops(callers)
               /\ poll_requested' = FALSE
<1>1. /\ top.fn = "do_event" /\ After(top.q) \in Pointer /\ top.n \in Nat
      /\ callers \in Seq(Activation) /\ Loops(stack) = {top} \cup Loops(callers)
  BY BasicTop, Kinds, LoopsTop DEF BroadcastNext, Basic, ListType, After, Pointer, Loop
<1>2. PICK f : f = Deliver(After(top.q), top.n)
  OBVIOUS
<1>3. f \in Activation /\ Loop(f)
  BY <1>1, <1>2, Makes DEF Deliver, Loop
<1>s. PICK s : s = Push(callers, f)
  OBVIOUS
<1>4. s \in Seq(Activation) /\ Loops(s) = {f} \cup Loops(callers)
  BY <1>1, <1>3, <1>s, LoopsPush, PushFacts
<1>5. Loops(Push(s, Poll(NULL))) = {Poll(NULL)} \cup Loops(s)
  <2>1. Poll(NULL) \in Activation /\ Loop(Poll(NULL))
    BY Makes DEF Poll, Loop, Pointer
  <2>. QED  BY <1>4, <2>1, LoopsPush
<1>6. \/ stack' = callers /\ poll_requested' = poll_requested
      \/ stack' = s /\ poll_requested' = poll_requested
      \/ stack' = Push(s, Poll(NULL)) /\ poll_requested' = FALSE
  BY <1>2, <1>s DEF BroadcastNext, do_poll, Push, Picked
<1>. QED  BY <1>1, <1>2, <1>4, <1>5, <1>6

LEMMA LoopsBroadcastDeliver ==
  ASSUME Basic, BroadcastDeliver
  PROVE  /\ Loops(stack) = {top} \cup Loops(callers)
         /\ Loops(stack') = {Broadcast(top.q, top.n)} \cup Loops(callers)
         /\ top.q \in Proc /\ top.n \in Nat
<1>1. /\ top.fn = "deliver" /\ top.q \in Proc /\ top.n \in Nat
      /\ callers \in Seq(Activation) /\ Loops(stack) = {top} \cup Loops(callers)
  BY BasicTop, Kinds, LoopsTop DEF BroadcastDeliver, Pointer, Fits, Loop
<1>2. PICK f, s : f = Broadcast(top.q, top.n) /\ s = Push(callers, f)
  OBVIOUS
<1>3. f \in Activation /\ Loop(f)
  BY <1>1, <1>2, Makes DEF Broadcast, Loop, Pointer
<1>4. s \in Seq(Activation) /\ Loops(s) = {f} \cup Loops(callers)
  BY <1>1, <1>2, <1>3, LoopsPush, PushFacts
<1>5. call_process(top.q, "msg", "keep", s)
  BY <1>2 DEF BroadcastDeliver, Push
<1>6. Loops(stack') = Loops(s)
  BY <1>1, <1>4, <1>5, LoopsCall DEF Event
<1>. QED  BY <1>1, <1>2, <1>4, <1>6

\* The inductive invariant of the kernel when no process is exited while its
\* thread is on the stack.
KernelInv ==
  /\ BasicInv /\ OwnedInv /\ SearchOnList
  /\ WaitersRun /\ PollIsPending /\ DueAhead

\* PollIsPending and DueAhead speak of the loops only.
Awaited(p) == \E f \in Loops(stack) : f.fn = "do_poll" /\ p \in Ahead(f.q)

Reached(f) ==
  /\ f.fn = "do_event" => due \subseteq Ahead(f.q)
  /\ f.fn = "deliver" => due \subseteq From(f.q)

LEMMA InLoops ==
  /\ stack \in Seq(Activation) =>
       /\ PollIsPending <=> \A p \in wants : p \in needspoll /\ (poll_requested \/ Awaited(p))
       /\ DueAhead <=> \A f \in Loops(stack) : Reached(f)
  /\ stack' \in Seq(Activation) =>
       /\ PollIsPending' <=>
            \A p \in wants' : p \in needspoll' /\ (poll_requested' \/ Awaited(p)')
       /\ DueAhead' <=> \A f \in Loops(stack') : Reached(f)'
<1>1. stack \in Seq(Activation) => DOMAIN stack = 1..Len(stack)
  OBVIOUS
<1>2. stack' \in Seq(Activation) => DOMAIN stack' = 1..Len(stack')
  OBVIOUS
<1>3. ASSUME stack \in Seq(Activation)
      PROVE  PollIsPending <=> \A p \in wants : p \in needspoll /\ (poll_requested \/ Awaited(p))
  <2>1. \A p : Awaited(p) <=> \E i \in DOMAIN stack :
                                stack[i].fn = "do_poll" /\ p \in From(After(stack[i].q))
    BY <1>1, <1>3 DEF Awaited, Loops, Loop, Ahead
  <2>. QED  BY <2>1 DEF PollIsPending
<1>4. ASSUME stack' \in Seq(Activation)
      PROVE  PollIsPending' <=>
               \A p \in wants' : p \in needspoll' /\ (poll_requested' \/ Awaited(p)')
  <2>1. \A p : Awaited(p)' <=> \E i \in DOMAIN stack' :
                                 stack'[i].fn = "do_poll" /\ p \in From(After(stack[i].q))'
    BY <1>2, <1>4 DEF Awaited, Loops, Loop, Ahead
  <2>. QED  BY <2>1 DEF PollIsPending
<1>5. DueAhead <=> \A f \in Loops(stack) : Reached(f)
  BY DEF DueAhead, Loops, Loop, Reached, Ahead
<1>6. DueAhead' <=> \A f \in Loops(stack') : Reached(f)'
  BY DEF DueAhead, Loops, Loop, Reached, Ahead
<1>. QED  BY <1>3, <1>4, <1>5, <1>6

LEMMA KernelIsFull ==
  ASSUME KernelInv
  PROVE  /\ Full /\ RingInv /\ boot \in Seq(Proc)
         /\ \A p \in wants \cup due : p \in Listed /\ p \in Proc
         /\ \A p \in wants : p \in needspoll /\ (poll_requested \/ Awaited(p))
         /\ \A f \in Loops(stack) : Reached(f) /\ f.q \in Pointer
<1>1. Full /\ RingInv /\ boot \in Seq(Proc)
  BY BasicInvIsBasic DEF KernelInv, Full, OwnedInv, Listed, BasicInv, RestType
<1>2. \A p \in wants \cup due : p \in Listed /\ p \in Proc
  BY <1>1, FullFacts DEF KernelInv, WaitersRun, Owned, BasicInv, PollType, RestType
<1>3. \A f \in Loops(stack) : f.q \in Pointer
  BY <1>1, FullFacts, Kinds DEF Loops, Loop
<1>4. /\ \A p \in wants : p \in needspoll /\ (poll_requested \/ Awaited(p))
      /\ \A f \in Loops(stack) : Reached(f)
  BY <1>1, FullFacts, InLoops DEF KernelInv
<1>. QED  BY <1>1, <1>2, <1>3, <1>4

-----------------------------------------------------------------------------
\* A process that exits is no longer waited for.
LEMMA StateStep ==
  ASSUME Full, [Next]_vars
  PROVE  \A p \in Proc : state'[p] = "NONE" => state[p] = "NONE" \/ (p \notin wants' /\ p \notin due')
<1>. SUFFICES ASSUME NEW p \in Proc, state'[p] = "NONE", state[p] # "NONE"
              PROVE  p \notin wants' /\ p \notin due'
  OBVIOUS
<1>0. state \in [Proc -> {"NONE", "RUNNING", "CALLED"}] /\ state' # state
  BY FullFacts
<1>1. \A q \in Proc : \A from, old, rest :
        exit_process(q, from, old, rest) => p \notin wants' /\ p \notin due'
  BY <1>0 DEF exit_process
<1>2. \A q, ev, old, rest : ~call_process(q, ev, old, rest)
  BY <1>0 DEF call_process
<1>3. \A q, rest : ~start(q, rest)
  BY <1>0 DEF start
<1>4. CASE End \/ \E q \in Proc : Exit(q)
  <2>1. End => top.p \in Proc
    BY FullFacts, Kinds DEF End
  <2>. QED  BY <1>0, <1>1, <1>4, <2>1 DEF End, Exit
<1>5. ~AutostartNext /\ ~RunEvent /\ ~BroadcastDeliver /\ ~TellOthers
  BY <1>0, <1>2, <1>3 DEF AutostartNext, RunEvent, BroadcastDeliver, TellOthers, running
<1>6. \A q \in Proc : ~PostSynch(q) /\ ~Start(q) /\ ~PollFromThread(q) /\ ~Interrupt(q)
  BY <1>0, <1>2, <1>3 DEF PostSynch, Start, PollFromThread, Interrupt, running
<1>7. ~RunPolls /\ ~BroadcastNext /\ ~Leave /\ ~CallRefused /\ ~ReturnLast /\ ~UNCHANGED vars
      /\ \A to \in Pointer : ~Post(to)
  BY <1>0 DEF RunPolls, BroadcastNext, Leave, CallRefused, ReturnLast, vars, running, Post
<1>8. ~Yield
  BY <1>0 DEF Yield
<1>9. ~PollNext
  BY <1>0 DEF PollNext
<1>. QED  BY <1>4, <1>5, <1>6, <1>7, <1>8, <1>9 DEF Next, Kernel, Calls

\* A poll is accepted from running processes, and requests a search.
LEMMA WantsStep ==
  ASSUME Full, [Next]_vars, NEW p \in wants'
  PROVE  \/ /\ p \in wants
            /\ p \in needspoll => p \in needspoll'
            /\ \/ poll_requested' = poll_requested \/ poll_requested' = TRUE
               \/ RunPolls \/ BroadcastNext
         \/ /\ state[p] # "NONE" /\ UNCHANGED <<list, running>>
            /\ p \in needspoll' /\ poll_requested' = TRUE
<1>1. ASSUME NEW q \in Proc, process_poll(q), UNCHANGED <<list, running>>
      PROVE  \/ /\ p \in wants
                /\ p \in needspoll => p \in needspoll'
                /\ poll_requested' = poll_requested \/ poll_requested' = TRUE
             \/ /\ state[p] # "NONE" /\ UNCHANGED <<list, running>>
                /\ p \in needspoll' /\ poll_requested' = TRUE
  BY <1>1 DEF process_poll, polling
<1>2. ASSUME NEW q \in Proc, PollFromThread(q) \/ Interrupt(q)
      PROVE  process_poll(q) /\ UNCHANGED <<list, running>>
  BY <1>2 DEF PollFromThread, Interrupt
<1>3. CASE RunPolls \/ BroadcastNext
  BY <1>3 DEF RunPolls, BroadcastNext
<1>4. CASE PollNext
  BY <1>4 DEF PollNext, AfterSearch, polling
<1>5. CASE End \/ \E q \in Proc : Exit(q)
  BY <1>5 DEF End, Exit, exit_process
<1>6. ASSUME \/ AutostartNext \/ RunEvent \/ BroadcastDeliver \/ TellOthers \/ Leave
             \/ CallRefused \/ Yield \/ ReturnLast \/ UNCHANGED vars
             \/ \E to \in Pointer : Post(to)
             \/ \E q \in Proc : PostSynch(q) \/ Start(q)
      PROVE  UNCHANGED polling
  BY <1>6 DEF AutostartNext, RunEvent, BroadcastDeliver, TellOthers, Leave, CallRefused,
     Yield, ReturnLast, vars, Post, PostSynch, Start, polling
<1>7. UNCHANGED polling =>
        /\ p \in wants
        /\ p \in needspoll => p \in needspoll'
        /\ poll_requested' = poll_requested
  BY DEF polling
<1>. QED  BY <1>1, <1>2, <1>3, <1>4, <1>5, <1>6, <1>7 DEF Next, Kernel, Calls

\* A broadcast begins with the processes on the list; nobody is added later.
LEMMA DueStep ==
  ASSUME [Next]_vars, ~RunEvent
  PROVE  due' \subseteq due
BY DEF Next, Kernel, Calls, AutostartNext, RunPolls, PollNext, BroadcastNext,
   BroadcastDeliver, TellOthers, Leave, CallRefused, Post, PostSynch, PollFromThread,
   Start, Exit, exit_process, Yield, End, ReturnLast, Interrupt, vars, broadcast

LEMMA WaitersStep ==
  ASSUME KernelInv, [Next]_vars
  PROVE  WaitersRun'
<1>0. Full /\ RingInv /\ WaitersRun /\ \A p \in wants \cup due : p \in Proc
  BY KernelIsFull DEF KernelInv
<1>1. ASSUME NEW p \in wants'
      PROVE  state'[p] # "NONE"
  <2>1. CASE p \in wants
    BY <1>0, <2>1, StateStep DEF WaitersRun
  <2>2. CASE state[p] # "NONE" /\ UNCHANGED <<list, running>>
    BY <2>2 DEF running
  <2>. QED  BY <1>0, <2>1, <2>2, WantsStep
<1>2. ASSUME NEW p \in due', p \in due
      PROVE  state'[p] # "NONE"
  BY <1>0, <1>2, StateStep DEF WaitersRun
<1>3. ASSUME NEW p \in due', p \notin due
      PROVE  state'[p] # "NONE"
  <2>1. RunEvent
    BY <1>3, DueStep
  <2>2. due' = Listed /\ state' = state
    BY <1>0, <1>3, <2>1, LoopsRunEvent DEF Full
  <2>3. \A q \in Listed : state[q] = "RUNNING"
    BY <1>0, <2>1, Idle DEF RunEvent, Run, Kernels
  <2>. QED  BY <2>2, <2>3
<1>. QED  BY <1>1, <1>2, <1>3 DEF WaitersRun

-----------------------------------------------------------------------------
LEMMA ListSteps ==
  ASSUME Full, boot \in Seq(Proc), [Next]_vars
  PROVE  /\ UNCHANGED list \/ \E r \in Proc : Inserts(r) \/ Removes(r)
         /\ \A p \in Listed : p \in Listed' => \A q \in Pointer :
              /\ p \in Ahead(q) => p \in Ahead(q)'
              /\ p \in From(q) => p \in From(q)'
<1>1. UNCHANGED list \/ \E r \in Proc : Inserts(r) \/ Removes(r)
  BY FullFacts, ListChanges
<1>. QED  BY <1>1, FullFacts, AheadStays

\* What a process waits for is still under way.
LEMMA AwaitedStep ==
  ASSUME KernelInv, [Next]_vars, NEW p \in wants, p \in wants', p \in Listed', Awaited(p)
  PROVE  Awaited(p)' \/ (poll_requested' = TRUE)
<1>0. /\ Full /\ Basic /\ RingInv /\ boot \in Seq(Proc)
      /\ \A f \in Loops(stack) : f.q \in Pointer
      /\ p \in Listed /\ p \in needspoll
  BY KernelIsFull DEF Full
<1>1. PICK f \in Loops(stack) : f.fn = "do_poll" /\ p \in Ahead(f.q)
  BY DEF Awaited
<1>2. p \in Ahead(f.q)'
  BY <1>0, <1>1, ListSteps
<1>3. ASSUME f \in Loops(stack') PROVE Awaited(p)'
  BY <1>1, <1>2, <1>3 DEF Awaited
<1>4. CASE PollNext
  <2>1. /\ Loops(stack) = {top} \cup Loops(callers)
        /\ Loops(callers) \subseteq Loops(stack')
    BY <1>0, <1>4, LoopsPollNext
  <2>2. CASE f = top
    <3>1. PICK v : v = After(top.q)
      OBVIOUS
    <3>2. v \in Pointer /\ p \in From(v)
      BY <1>0, <1>1, <1>4, <2>2, <3>1, LoopsPollNext DEF Ahead
    <3>3. v # NULL
      BY <1>0, <3>2, FullFacts, FromType
    <3>4. p # v
      BY <1>0, <1>4, <3>1, <3>3 DEF PollNext
    <3>5. p \in From(next[v]) /\ v \in Proc
      BY <1>0, <3>2, <3>3, <3>4, FullFacts, FromType DEF Pointer
    <3>6. p \in Ahead(v)
      BY <3>3, <3>5 DEF Ahead, After
    <3>7. p \in Ahead(v)'
      BY <1>0, <3>2, <3>6, ListSteps
    <3>8. Poll(v) \in Loops(stack') /\ Poll(v).fn = "do_poll" /\ Poll(v).q = v
      BY <1>0, <1>4, <3>1, <3>3, LoopsPollNext DEF Poll
    <3>. QED  BY <3>7, <3>8 DEF Awaited
  <2>. QED  BY <1>3, <2>1, <2>2
<1>5. CASE RunPolls
  BY <1>0, <1>3, <1>5, LoopsRunPolls
<1>6. CASE RunEvent
  BY <1>0, <1>3, <1>6, LoopsRunEvent
<1>7. CASE BroadcastNext
  BY <1>0, <1>1, <1>3, <1>7, LoopsBroadcastNext DEF BroadcastNext
<1>8. CASE BroadcastDeliver
  BY <1>0, <1>1, <1>3, <1>8, LoopsBroadcastDeliver DEF BroadcastDeliver
<1>9. CASE ~RunPolls /\ ~PollNext /\ ~RunEvent /\ ~BroadcastNext /\ ~BroadcastDeliver
  BY <1>0, <1>3, <1>9, LoopsKept
<1>. QED  BY <1>4, <1>5, <1>6, <1>7, <1>8, <1>9

\* A search that begins has every process on the list ahead of it.
LEMMA SearchBegins ==
  ASSUME KernelInv, [Next]_vars, NEW p \in Listed', poll_requested = TRUE,
         RunPolls \/ BroadcastNext
  PROVE  Awaited(p)' \/ poll_requested' = TRUE
<1>0. Basic
  BY KernelIsFull DEF Full
<1>1. poll_requested' = poll_requested \/ Poll(NULL) \in Loops(stack')
  BY <1>0, LoopsRunPolls, LoopsBroadcastNext
<1>2. p \in Ahead(NULL)'
  BY AheadIsWalk, ListedIsWalk
<1>3. Poll(NULL).fn = "do_poll" /\ Poll(NULL).q = NULL
  BY DEF Poll
<1>. QED  BY <1>1, <1>2, <1>3 DEF Awaited

LEMMA PendingStep ==
  ASSUME KernelInv, [Next]_vars, stack' \in Seq(Activation),
         \A p \in wants' \cup due' : p \in Listed'
  PROVE  PollIsPending'
<1>0. /\ Full /\ poll_requested \in BOOLEAN
      /\ \A p \in wants : p \in needspoll /\ (poll_requested \/ Awaited(p))
  BY KernelIsFull DEF KernelInv, BasicInv, PollType
<1>1. ASSUME NEW p \in wants'
      PROVE  p \in needspoll' /\ (poll_requested' \/ Awaited(p)')
  <2>1. CASE p \in needspoll' /\ poll_requested' = TRUE
    BY <2>1
  <2>2. CASE /\ p \in wants
             /\ p \in needspoll => p \in needspoll'
             /\ \/ poll_requested' = poll_requested \/ poll_requested' = TRUE
                \/ RunPolls \/ BroadcastNext
    <3>1. p \in needspoll' /\ p \in Listed'
      BY <1>0, <2>2
    <3>2. CASE Awaited(p)
      BY <2>2, <3>1, <3>2, AwaitedStep
    <3>3. CASE poll_requested = TRUE
      BY <2>2, <3>1, <3>3, SearchBegins
    <3>. QED  BY <1>0, <2>2, <3>2, <3>3
  <2>. QED  BY <1>0, <2>1, <2>2, WantsStep
<1>. QED  BY <1>1, InLoops

LEMMA ReachedStep ==
  ASSUME KernelInv, [Next]_vars, stack' \in Seq(Activation),
         \A p \in wants' \cup due' : p \in Listed'
  PROVE  DueAhead'
<1>0. /\ Full /\ Basic /\ RingInv /\ boot \in Seq(Proc) /\ ListType
      /\ \A p \in due : p \in Listed
      /\ \A f \in Loops(stack) : Reached(f) /\ f.q \in Pointer
  BY KernelIsFull DEF Full, Basic
<1>1. ASSUME NEW f \in Loops(stack), due' \subseteq due
      PROVE  Reached(f)'
  <2>1. \A p \in due' : /\ p \in Ahead(f.q) => p \in Ahead(f.q)'
                        /\ p \in From(f.q) => p \in From(f.q)'
    BY <1>0, <1>1, ListSteps
  <2>2. Reached(f)
    BY <1>0
  <2>. QED  BY <1>1, <2>1, <2>2 DEF Reached
<1>2. ASSUME NEW f \in Loops(stack') PROVE Reached(f)'
  <2>1. CASE RunPolls
    <3>1. f \in Loops(stack) \/ f = Poll(NULL)
      BY <1>0, <2>1, LoopsRunPolls
    <3>2. due' \subseteq due
      BY <2>1 DEF RunPolls, broadcast
    <3>. QED  BY <1>1, <3>1, <3>2 DEF Reached, Poll
  <2>2. CASE PollNext
    <3>1. f \in Loops(stack) \/ \E q : f = Poll(q)
      BY <1>0, <2>2, LoopsPollNext
    <3>2. due' \subseteq due
      BY <2>2 DEF PollNext, broadcast
    <3>. QED  BY <1>1, <3>1, <3>2 DEF Reached, Poll
  <2>3. CASE RunEvent
    <3>1. top.fn = "process_run"
      BY <2>3 DEF RunEvent, Run
    <3>2. Loops(stack) = {}
      <4>1. Len(stack) = 1 /\ top = stack[1]
        BY <1>0, <3>1, FullFacts, NestedKernel, PopFacts DEF Basic, StackGood, Nested, Kernels
      <4>. QED  BY <3>1, <4>1 DEF Loops, Loop
    <3>3. PICK n \in Nat : f = Broadcast(NULL, n)
      BY <1>0, <2>3, <3>2, LoopsRunEvent
    <3>4. due' = Listed /\ UNCHANGED list
      BY <1>0, <2>3, <3>2, LoopsRunEvent
    <3>5. due' \subseteq Ahead(NULL)'
      BY <3>4, AheadIsWalk, ListedIsWalk
    <3>. QED  BY <3>3, <3>5 DEF Reached, Broadcast
  <2>4. CASE BroadcastNext
    <3>1. due' = due /\ UNCHANGED list /\ top.fn = "do_event"
      BY <2>4 DEF BroadcastNext, broadcast
    <3>2. PICK v : v = After(top.q)
      OBVIOUS
    <3>3. \/ f \in Loops(stack) \/ f = Poll(NULL) \/ f = Deliver(v, top.n)
      BY <1>0, <2>4, <3>2, LoopsBroadcastNext
    <3>4. due' \subseteq From(v)'
      <4>1. due \subseteq Ahead(top.q)
        BY <1>0, <2>4, <3>1, LoopsBroadcastNext DEF Reached
      <4>. QED  BY <3>1, <3>2, <4>1, ListedIsWalk DEF Ahead
    <3>. QED  BY <1>1, <3>1, <3>3, <3>4 DEF Reached, Poll, Deliver
  <2>5. CASE BroadcastDeliver
    <3>1. due' = due \ {top.q} /\ UNCHANGED list /\ top.fn = "deliver"
      BY <2>5 DEF BroadcastDeliver
    <3>2. PICK v : v = top.q
      OBVIOUS
    <3>3. v \in Proc /\ (f \in Loops(stack) \/ f = Broadcast(v, top.n))
      BY <1>0, <2>5, <3>2, LoopsBroadcastDeliver
    <3>4. due' \subseteq Ahead(v)'
      <4>1. due \subseteq From(v)
        BY <1>0, <2>5, <3>1, <3>2, LoopsBroadcastDeliver DEF Reached
      <4>2. From(v) = {v} \cup From(next[v]) /\ v # NULL
        BY <1>0, <3>3, FromType, SizeType
      <4>3. due' \subseteq Ahead(v)
        BY <3>1, <3>2, <4>1, <4>2 DEF Ahead, After
      <4>. QED  BY <3>1, <4>3, AheadIsWalk DEF list
    <3>5. due' \subseteq due
      BY <3>1
    <3>. QED  BY <1>1, <3>3, <3>4, <3>5 DEF Reached, Broadcast
  <2>6. CASE ~RunPolls /\ ~PollNext /\ ~RunEvent /\ ~BroadcastNext /\ ~BroadcastDeliver
    <3>1. Loops(stack') = Loops(stack) /\ due' \subseteq due
      BY <1>0, <2>6, LoopsKept, DueStep
    <3>. QED  BY <1>1, <3>1
  <2>. QED  BY <2>1, <2>2, <2>3, <2>4, <2>5, <2>6
<1>. QED  BY <1>2, InLoops

-----------------------------------------------------------------------------
LEMMA KernelInit == Init => KernelInv
<1>. SUFFICES ASSUME Init PROVE KernelInv
  OBVIOUS
<1>1. BasicInv
  BY BasicInit
<1>2. ListType /\ Listed = {}
  BY <1>1, FromType DEF BasicInv, Init, Listed
<1>3. stack = <<Run("poll")>> /\ Len(stack) = 1 /\ stack[1] = Run("poll") /\ top = Run("poll")
  BY DEF Init, top
<1>4. OwnedInv
  <2>1. Owned(stack, state, {})
    BY <1>3 DEF Owned, Init, Own, Run
  <2>. QED  BY <1>2, <2>1 DEF OwnedInv, Listed
<1>5. SearchOnList /\ WaitersRun /\ PollIsPending
  BY <1>3 DEF SearchOnList, WaitersRun, PollIsPending, Init, Run
<1>6. DueAhead
  BY <1>3 DEF DueAhead, Run
<1>. QED  BY <1>1, <1>4, <1>5, <1>6 DEF KernelInv

LEMMA KernelStep ==
  ASSUME ~ExitCalled
  PROVE  KernelInv /\ [Next]_vars => KernelInv'
<1>. SUFFICES ASSUME KernelInv, [Next]_vars PROVE KernelInv'
  OBVIOUS
<1>1. BasicInv' /\ stack' \in Seq(Activation)
  <2>1. BasicInv'
    BY BasicStep DEF KernelInv
  <2>. QED  BY <2>1 DEF BasicInv, RunType
<1>2. Owned(stack', state', Listed') /\ SearchOnList'
  BY KernelIsFull, OwnedStep DEF OwnedGood
<1>3. WaitersRun'
  BY WaitersStep
<1>4. \A p \in wants' \cup due' : p \in Listed'
  <2>1. wants' \subseteq Proc /\ due' \subseteq Proc
    BY <1>1 DEF BasicInv, PollType, RestType
  <2>. QED  BY <1>2, <1>3, <2>1 DEF WaitersRun, Owned
<1>5. PollIsPending'
  BY <1>1, <1>4, PendingStep
<1>6. DueAhead'
  BY <1>1, <1>4, ReachedStep
<1>. QED  BY <1>1, <1>2, <1>3, <1>5, <1>6 DEF KernelInv, OwnedInv, Listed

LEMMA KernelAlways ==
  ASSUME ~ExitCalled
  PROVE  Spec => []KernelInv
BY KernelInit, KernelStep, PTL DEF Spec


-----------------------------------------------------------------------------
LEMMA OwnIsListed == KernelInv => RunningIsListed
<1>. SUFFICES ASSUME KernelInv, NEW p \in Proc
              PROVE  state[p] # "NONE" <=>
                       p \in Listed /\ ActivationsOf(p, {"exit_process", "unlink"}) = {}
  BY DEF RunningIsListed, OnList, Listed
<1>0. /\ Owned(stack, state, Listed) /\ stack \in Seq(Activation)
      /\ state \in [Proc -> {"NONE", "RUNNING", "CALLED"}] /\ DOMAIN stack = 1..Len(stack)
  BY KernelIsFull, FullFacts
<1>1. ASSUME state[p] # "NONE"
      PROVE  p \in Listed /\ ActivationsOf(p, {"exit_process", "unlink"}) = {}
  <2>1. \A i \in 1..Len(stack) :
          stack[i].fn \in {"exit_process", "unlink"} => stack[i].p # p
    BY <1>0, <1>1 DEF Owned, Own, Mark
  <2>. QED  BY <1>0, <1>1, <2>1 DEF Owned, ActivationsOf
<1>2. ASSUME p \in Listed, state[p] = "NONE"
      PROVE  ActivationsOf(p, {"exit_process", "unlink"}) # {}
  <2>1. PICK i \in 1..Len(stack) : Own(stack[i]) /\ stack[i].p = p
    BY <1>0, <1>2 DEF Owned
  <2>2. stack[i].fn \in {"exit_process", "unlink"}
    BY <1>0, <1>2, <2>1 DEF Owned, Own, Mark
  <2>. QED  BY <1>0, <2>1, <2>2 DEF ActivationsOf
<1>. QED  BY <1>1, <1>2

LEMMA OwnIsCalled == KernelInv => NoReentry
<1>. SUFFICES ASSUME KernelInv, NEW p \in Proc
              PROVE  IF state[p] = "CALLED"
                     THEN Cardinality(ActivationsOf(p, {"thread"})) = 1
                     ELSE ActivationsOf(p, {"thread"}) = {}
  BY DEF NoReentry
<1>0. /\ Owned(stack, state, Listed) /\ stack \in Seq(Activation)
      /\ DOMAIN stack = 1..Len(stack)
  BY KernelIsFull, FullFacts
<1>1. ASSUME state[p] # "CALLED"
      PROVE  ActivationsOf(p, {"thread"}) = {}
  BY <1>0, <1>1 DEF Owned, Own, Mark, ActivationsOf
<1>2. ASSUME state[p] = "CALLED"
      PROVE  Cardinality(ActivationsOf(p, {"thread"})) = 1
  <2>1. PICK i \in 1..Len(stack) : Own(stack[i]) /\ stack[i].p = p
    BY <1>0, <1>2 DEF Owned
  <2>2. stack[i].fn = "thread"
    BY <1>0, <1>2, <2>1 DEF Owned, Mark
  <2>3. \A j \in 1..Len(stack) : stack[j].fn = "thread" /\ stack[j].p = p => j = i
    BY <1>0, <2>1, <2>2 DEF Owned, Own
  <2>4. ActivationsOf(p, {"thread"}) = {i}
    BY <1>0, <2>1, <2>2, <2>3 DEF ActivationsOf
  <2>. QED  BY <2>4, FS_Singleton
<1>. QED  BY <1>1, <1>2

LEMMA NobodyIsDue == KernelInv => BroadcastReachesAll
<1>. SUFFICES ASSUME KernelInv, top.fn = "do_event", After(top.q) = NULL
              PROVE  due = {}
  BY DEF BroadcastReachesAll
<1>1. Basic /\ ListType
  BY KernelIsFull DEF Full, Basic
<1>2. top \in Loops(stack)
  BY <1>1, LoopsTop DEF Loop
<1>3. due \subseteq Ahead(top.q)
  BY <1>2, KernelIsFull DEF Reached
<1>. QED  BY <1>1, <1>3, FromType DEF Ahead

\* RunningIsListed, when no process is exited while it is being called: the state
\* of a process and its place on the list agree but for the moments exit_process
\* needs, however starts, exits, events and polls are nested.
THEOREM RunningTellsTheTruth ==
  ASSUME ~ExitCalled
  PROVE  Spec => []RunningIsListed
BY KernelAlways, OwnIsListed, PTL

\* NoReentry: call_process never enters a thread that is already on the stack.
THEOREM ThreadsAreNotReentered ==
  ASSUME ~ExitCalled
  PROVE  Spec => []NoReentry
BY KernelAlways, OwnIsCalled, PTL

\* PollIsPending: no poll that process_poll accepts is lost, whenever the interrupt
\* comes and whatever happens to the list while do_poll searches it.
THEOREM PollsAreNotLost ==
  ASSUME ~ExitCalled
  PROVE  Spec => []PollIsPending
<1>1. KernelInv => PollIsPending
  BY DEF KernelInv
<1>. QED  BY <1>1, KernelAlways, PTL

\* BroadcastReachesAll: a broadcast misses no process that stays on the list.
THEOREM BroadcastsReachAll ==
  ASSUME ~ExitCalled
  PROVE  Spec => []BroadcastReachesAll
BY KernelAlways, NobodyIsDue, PTL

(***************************************************************************)
(* No process hears a broadcast twice                                       *)
(***************************************************************************)

\* The loop f has no process ahead that has been given the event.
Unheard(f) ==
  /\ f.fn = "do_event" => heard \cap Ahead(f.q) = {}
  /\ f.fn = "deliver" => heard \cap From(f.q) = {}

OnceInv == KernelInv /\ HeardBehind

LEMMA HeardInLoops ==
  /\ HeardBehind <=> (~restarted => \A f \in Loops(stack) : Unheard(f))
  /\ HeardBehind' <=> (~restarted' => \A f \in Loops(stack') : Unheard(f)')
<1>1. HeardBehind <=> (~restarted => \A f \in Loops(stack) : Unheard(f))
  BY DEF HeardBehind, Loops, Loop, Unheard, Ahead
<1>2. HeardBehind' <=> (~restarted' => \A f \in Loops(stack') : Unheard(f)')
  BY DEF HeardBehind, Loops, Loop, Unheard, Ahead
<1>. QED  BY <1>1, <1>2

\* Under process_run there is no loop.
LEMMA NoLoops ==
  ASSUME NEW s \in Seq(Activation), WellNested(s), Head(s).fn = "process_run"
  PROVE  Loops(s) = {}
<1>1. Len(s) = 1 /\ Head(s) = s[1]
  BY NestedKernel, PopFacts DEF Kernels, WellNested
<1>. QED  BY <1>1 DEF Loops, Loop

\* When a process is started and no search is under way, a loop is at a process
\* that is on the list: it is that process's thread or exit that runs.
LEMMA LoopIsListed ==
  ASSUME Full, InThread, \A i \in DOMAIN stack : stack[i].fn # "do_poll",
         NEW f \in Loops(stack)
  PROVE  f.fn = "do_event" /\ f.q \in Listed
<1>0. /\ stack \in Seq(Activation) /\ DOMAIN stack = 1..Len(stack) /\ Len(stack) \in Nat
      /\ top = stack[1] /\ WellNested(stack) /\ Owned(stack, state, Listed)
  BY FullFacts, BasicTop, PopFacts DEF Nested
<1>1. PICK i \in 1..Len(stack) : f = stack[i] /\ Loop(f)
  BY DEF Loops
<1>2. i # 1
  BY <1>0, <1>1 DEF InThread, Loop
<1>3. i - 1 \in 1..Len(stack) - 1 /\ (i - 1) + 1 = i /\ i - 1 \in 1..Len(stack)
  BY <1>0, <1>2
<1>4. PICK g : g = stack[i - 1]
  OBVIOUS
<1>5. Fits(f, g) /\ g.fn # "do_poll" /\ f.fn # "do_poll"
  BY <1>0, <1>1, <1>3, <1>4 DEF WellNested
<1>6. f.fn = "do_event" /\ Own(g) /\ g.p = f.q
  BY <1>1, <1>5 DEF Fits, Loop
<1>. QED  BY <1>0, <1>3, <1>4, <1>6 DEF Owned

\* A started process is put in front of the list, behind every loop over it.
LEMMA StartBehind ==
  ASSUME Full, NEW r \in Proc, Inserts(r), NEW q \in Listed
  PROVE  Ahead(q)' = Ahead(q)
<1>0. /\ head \in Pointer /\ next \in [Proc -> Pointer] /\ Listed = Walk(next, head)
      /\ IsInserted(next, head, r, next')
  BY FullFacts, ListedIsWalk DEF ListType, Inserts
<1>1. q \in Proc /\ q # NULL /\ q # r /\ r \notin Listed
  BY <1>0, FullFacts, SizeType DEF IsInserted
<1>2. next[q] \in Pointer /\ (next[q] = NULL \/ next[q] \in Listed)
  BY <1>0, <1>1, WalkFacts
<1>3. Walk(next, next[q]) \subseteq Listed
  BY <1>0, <1>2, WalkTransitive, WalkFromNull
<1>4. Walk(next', next[q]) = Walk(next, next[q])
  BY <1>0, <1>1, <1>2, <1>3, InsertElsewhere
<1>5. next'[q] = next[q]
  BY <1>0, <1>1 DEF IsInserted
<1>. QED  BY <1>1, <1>4, <1>5, AheadIsWalk

\* When a process leaves the list, no loop has more ahead than before.
LEMMA RemoveAhead ==
  ASSUME Full, NEW r \in Proc, Removes(r), NEW q \in Pointer
  PROVE  Ahead(q)' \subseteq Ahead(q) /\ From(q)' \subseteq From(q)
<1>0. /\ head \in Pointer /\ next \in [Proc -> Pointer] /\ Ends(next)
      /\ Listed = Walk(next, head) /\ Listed' = Walk(next', head')
      /\ IsRemoved(next, head, r, next', head')
  BY FullFacts, EndsIsListEnds, ListedIsWalk DEF ListType, Removes
<1>1. \A x \in Pointer : Walk(next', x) \subseteq Walk(next, x)
  BY <1>0, Remove
<1>2. CASE q = NULL
  <2>1. Ahead(q)' = Listed' /\ Ahead(q) = Listed /\ From(q)' = Walk(next', q)
    BY <1>0, <1>2, AheadIsWalk, FromIsWalk
  <2>2. Listed' \subseteq Listed
    BY FullFacts, ListedRemoves
  <2>. QED  BY <1>1, <2>1, <2>2, FromIsWalk
<1>3. CASE q # NULL
  <2>1. q \in Proc /\ next[q] \in Pointer /\ next[r] \in Pointer
    BY <1>0, <1>3 DEF Pointer
  <2>2. next'[q] = next[q] \/ (next[q] = r /\ next'[q] = next[r])
    BY <1>0, <2>1 DEF IsRemoved
  <2>3. Walk(next, r) = {r} \cup Walk(next, next[r])
    BY <1>0, WalkUnfold
  <2>. QED  BY <1>1, <1>3, <2>1, <2>2, <2>3, AheadIsWalk, FromIsWalk
<1>. QED  BY <1>2, <1>3

\* A broadcast begins with nobody given the event; then only BroadcastDeliver
\* adds to those.
LEMMA HeardStep ==
  ASSUME [Next]_vars, ~RunEvent
  PROVE  /\ ~restarted' => ~restarted
         /\ ~BroadcastDeliver => heard' = heard
<1>1. ~restarted' => ~restarted
  BY DEF Next, Kernel, Calls, AutostartNext, RunPolls, PollNext, BroadcastNext,
     BroadcastDeliver, TellOthers, Leave, CallRefused, Post, PostSynch, PollFromThread,
     Start, Exit, Yield, End, ReturnLast, Interrupt, vars, broadcast
<1>2. ~BroadcastDeliver => heard' = heard
  BY DEF Next, Kernel, Calls, AutostartNext, RunPolls, PollNext, BroadcastNext,
     TellOthers, Leave, CallRefused, Post, PostSynch, PollFromThread,
     Start, Exit, Yield, End, ReturnLast, Interrupt, vars, broadcast
<1>. QED  BY <1>1, <1>2

\* A loop that goes on has nobody ahead that has been given the event.
LEMMA UnheardStays ==
  ASSUME OnceInv, [Next]_vars, ~RunEvent, ~BroadcastDeliver, ~restarted',
         NEW f \in Loops(stack)
  PROVE  Unheard(f)'
<1>0. /\ Full /\ Basic /\ boot \in Seq(Proc) /\ f.q \in Pointer
      /\ Unheard(f) /\ heard' = heard
  BY KernelIsFull, HeardInLoops, HeardStep DEF OnceInv, Full
<1>1. CASE UNCHANGED list
  <2>1. Ahead(f.q)' = Ahead(f.q) /\ From(f.q)' = From(f.q)
    BY <1>1, AheadIsWalk, FromIsWalk DEF list
  <2>. QED  BY <1>0, <2>1 DEF Unheard
<1>2. ASSUME NEW r \in Proc, Removes(r)
      PROVE  Unheard(f)'
  <2>1. Ahead(f.q)' \subseteq Ahead(f.q) /\ From(f.q)' \subseteq From(f.q)
    BY <1>0, <1>2, RemoveAhead
  <2>. QED  BY <1>0, <2>1 DEF Unheard
<1>3. ASSUME NEW r \in Proc, Start(r)
      PROVE  Unheard(f)'
  <2>1. \A i \in DOMAIN stack : stack[i].fn # "do_poll"
    BY <1>3 DEF Start
  <2>2. InThread /\ Inserts(r)
    BY <1>3, StartInserts DEF Start, Call
  <2>3. f.fn = "do_event" /\ f.q \in Listed
    BY <1>0, <2>1, <2>2, LoopIsListed
  <2>4. Ahead(f.q)' = Ahead(f.q)
    BY <1>0, <2>2, <2>3, StartBehind
  <2>. QED  BY <1>0, <2>3, <2>4 DEF Unheard
<1>4. CASE AutostartNext
  <2>1. Loops(stack) = {}
    BY <1>0, <1>4, BasicTop, NoLoops DEF AutostartNext, top, Nested
  <2>. QED  BY <2>1
<1>5. CASE Leave
  BY <1>0, <1>2, <1>5, FullFacts, TopType, Kinds, UnlinkRemoves DEF Leave
<1>6. CASE End
  <2>1. top.p \in Proc /\ (UNCHANGED list \/ Unlink(top.p))
    BY <1>0, <1>6, FullFacts, TopType, Kinds DEF End
  <2>. QED  BY <1>1, <1>2, <2>1, UnlinkRemoves
<1>7. CASE RunPolls \/ PollNext \/ BroadcastNext \/ TellOthers
  BY <1>1, <1>7 DEF RunPolls, PollNext, BroadcastNext, TellOthers, list
<1>8. CASE CallRefused \/ Yield \/ ReturnLast
  BY <1>1, <1>8 DEF CallRefused, Yield, ReturnLast, list
<1>9. CASE \E to \in Pointer : Post(to)
  BY <1>1, <1>9 DEF Post, list
<1>10. ASSUME NEW p \in Proc, PostSynch(p) \/ PollFromThread(p) \/ Exit(p) \/ Interrupt(p)
       PROVE  Unheard(f)'
  BY <1>1, <1>10 DEF PostSynch, PollFromThread, Exit, Interrupt, list
<1>11. CASE UNCHANGED vars
  BY <1>1, <1>11 DEF vars, list
<1>. QED
  BY <1>3, <1>4, <1>5, <1>6, <1>7, <1>8, <1>9, <1>10, <1>11 DEF Next, Kernel, Calls

LEMMA HeardBehindStep ==
  ASSUME OnceInv, [Next]_vars
  PROVE  HeardBehind'
<1>0. Full /\ Basic /\ RingInv /\ boot \in Seq(Proc) /\ ListType /\ ListEnds
  BY KernelIsFull, FullFacts DEF OnceInv, Full, Basic
<1>1. SUFFICES ASSUME ~restarted', NEW f \in Loops(stack') PROVE Unheard(f)'
  BY HeardInLoops
<1>2. CASE RunEvent
  <2>1. Loops(stack) = {}
    BY <1>0, <1>2, BasicTop, NoLoops DEF RunEvent, Run, top, Nested
  <2>2. heard' = {}
    BY <1>0, <1>1, <1>2, <2>1, LoopsRunEvent
  <2>. QED  BY <2>2 DEF Unheard
<1>3. CASE BroadcastDeliver
  <2>1. PICK v : v = top.q
    OBVIOUS
  <2>2. v \in Proc /\ (f \in Loops(callers) \/ f = Broadcast(v, top.n)) /\ top \in Loops(stack)
    BY <1>0, <1>1, <1>3, <2>1, LoopsBroadcastDeliver
  <2>3. Loops(callers) = {}
    BY <1>0, <1>3, BasicTop, NoLoops DEF BroadcastDeliver, Fits, Nested
  <2>4. heard \cap From(v) = {}
    BY <1>1, <1>3, <2>1, <2>2, HeardInLoops DEF OnceInv, Unheard, BroadcastDeliver
  <2>5. From(v) = {v} \cup From(next[v]) /\ v \notin From(next[v]) /\ v # NULL
    BY <1>0, <2>2, FromType, SizeType DEF ListEnds
  <2>6. heard' \subseteq heard \cup {v} /\ UNCHANGED list
    BY <1>3, <2>1 DEF BroadcastDeliver
  <2>7. heard' \cap Ahead(v) = {}
    BY <2>4, <2>5, <2>6 DEF Ahead, After
  <2>8. Ahead(v)' = Ahead(v)
    BY <2>6, AheadIsWalk DEF list
  <2>. QED  BY <2>2, <2>3, <2>7, <2>8 DEF Unheard, Broadcast
<1>4. CASE ~RunEvent /\ ~BroadcastDeliver
  <2>1. ~restarted /\ heard' = heard
    BY <1>1, <1>4, HeardStep
  <2>2. CASE f \in Loops(stack)
    BY <1>1, <1>4, <2>2, UnheardStays
  <2>3. CASE \E q : f = Poll(q)
    BY <2>3 DEF Unheard, Poll
  <2>4. CASE BroadcastNext /\ f = Deliver(After(top.q), top.n)
    <3>1. top.fn = "do_event" /\ UNCHANGED list
      BY <2>4 DEF BroadcastNext
    <3>2. heard \cap Ahead(top.q) = {}
      BY <1>0, <2>1, <2>4, <3>1, LoopsBroadcastNext, HeardInLoops DEF OnceInv, Unheard
    <3>3. PICK v : v = After(top.q)
      OBVIOUS
    <3>4. From(v)' = From(v) /\ heard \cap From(v) = {}
      BY <3>1, <3>2, <3>3, FromIsWalk DEF Ahead, list
    <3>. QED  BY <2>1, <2>4, <3>3, <3>4 DEF Unheard, Deliver
  <2>5. \/ f \in Loops(stack) \/ \E q : f = Poll(q)
        \/ BroadcastNext /\ f = Deliver(After(top.q), top.n)
    BY <1>0, <1>1, <1>4, LoopsRunPolls, LoopsPollNext, LoopsBroadcastNext, LoopsKept
  <2>. QED  BY <2>2, <2>3, <2>4, <2>5
<1>. QED  BY <1>2, <1>3, <1>4

LEMMA OnceAlways ==
  ASSUME ~ExitCalled
  PROVE  Spec => []OnceInv
<1>1. Init => OnceInv
  <2>1. Init => HeardBehind
    BY DEF Init, HeardBehind, Run
  <2>. QED  BY <2>1, KernelInit DEF OnceInv
<1>2. OnceInv /\ [Next]_vars => OnceInv'
  BY KernelStep, HeardBehindStep DEF OnceInv
<1>. QED  BY <1>1, <1>2, PTL DEF Spec

\* BroadcastOnce: a broadcast gives no process the event twice, unless a process is
\* started from a poll handler while it is under way.
THEOREM BroadcastsAreHeardOnce ==
  ASSUME ~ExitCalled
  PROVE  Spec => BroadcastOnce
<1>1. OnceInv /\ [Next]_vars =>
        [BroadcastDeliver /\ Callable(top.q) /\ ~restarted => top.q \notin heard]_vars
  <2>. SUFFICES ASSUME OnceInv, BroadcastDeliver, ~restarted
                PROVE  top.q \notin heard
    OBVIOUS
  <2>1. Basic /\ ListType
    BY KernelIsFull DEF OnceInv, Full, Basic
  <2>2. top.fn = "deliver" /\ top.q \in Proc /\ top \in Loops(stack)
    BY <2>1, LoopsBroadcastDeliver DEF BroadcastDeliver
  <2>3. heard \cap From(top.q) = {}
    BY <2>2, HeardInLoops DEF OnceInv, Unheard
  <2>4. top.q \in From(top.q)
    BY <2>1, <2>2, FromType
  <2>. QED  BY <2>3, <2>4
<1>. QED  BY <1>1, OnceAlways, PTL DEF Spec, BroadcastOnce
=============================================================================
