--------------------------- MODULE ProcessProofs ---------------------------
(***************************************************************************)
(* What is proved about the process kernel for every value of the           *)
(* constants: its event ring is a bounded first-in first-out queue, its     *)
(* variables keep their types, the process list stays a list, and the stack *)
(* is a chain of calls in which process_current is the process that runs.   *)
(***************************************************************************)
EXTENDS Process, LeastNumber, FiniteSetTheorems, SequenceTheorems, TLAPS

Items == [to : Pointer, n : 0..MaxCalls]

\* The inductive invariant: the ring's indices stay in range, and the ghost
\* number of an event is one of a call that was made.
RingInv ==
  /\ events \in [0..NumEvents - 1 -> Items]
  /\ fevent \in 0..NumEvents - 1
  /\ nevents \in 0..NumEvents
  /\ posted \in Nat
  /\ calls \in Nat
  /\ posted <= calls
  /\ calls <= MaxCalls

\* Remainder of a sum of two positions, without the modulo.
LEMMA Wrap ==
  \A N \in Nat \ {0} : \A x \in Nat :
    x < N + N => x % N = IF x < N THEN x ELSE x - N
  OBVIOUS

LEMMA Narrow ==
  ASSUME NEW x \in 0..255
  PROVE  x % 256 = x
  OBVIOUS

LEMMA InitRing == Init => RingInv
  BY ProcessAssumption DEF Init, RingInv, Pointer, Items

-----------------------------------------------------------------------------
(* Only process_post and do_event touch the ring.                           *)

\* Every other step leaves the ring alone.
LEMMA OtherSteps ==
  ASSUME RingInv, Next,
         ~RunEvent, \A to \in Pointer : ~Post(to)
  PROVE  UNCHANGED ring /\ posted' = posted /\ calls' \in Nat /\ calls <= calls'
                        /\ calls' <= MaxCalls
  <1>c. /\ calls \in Nat /\ calls <= MaxCalls
        /\ Call => calls' \in Nat /\ calls <= calls' /\ calls' <= MaxCalls
        /\ UNCHANGED bounds => calls' = calls
    BY ProcessAssumption DEF RingInv, Call, bounds
  <1>1. CASE Kernel
    BY <1>1, <1>c DEF Kernel, AutostartNext, RunPolls, PollNext, BroadcastNext,
       BroadcastDeliver, TellOthers, Leave, ring, count, bounds
  <1>2. CASE CallRefused
    BY <1>2, <1>c DEF CallRefused, ring, count
  <1>3. ASSUME NEW p \in Proc, PostSynch(p) \/ PollFromThread(p) \/ Start(p) \/ Exit(p)
        PROVE  UNCHANGED ring /\ posted' = posted /\ Call
    BY <1>3 DEF PostSynch, PollFromThread, Start, Exit, ring, count
  <1>4. CASE Yield \/ End \/ ReturnLast
    BY <1>4, <1>c DEF Yield, End, ReturnLast, ring, count, bounds
  <1>5. ASSUME NEW p \in Proc, Interrupt(p)
        PROVE  UNCHANGED ring /\ posted' = posted /\ calls' = calls
    BY <1>5 DEF Interrupt, ring, count
  <1> QED
    BY <1>1, <1>2, <1>3, <1>4, <1>5, <1>c DEF Next, Calls

\* What do_event does to the ring.
LEMMA TakeSlots ==
  ASSUME RunEvent
  PROVE  \/ UNCHANGED ring
         \/ /\ nevents > 0
            /\ fevent' = (fevent + 1) % NumEvents
            /\ nevents' = nevents - 1
            /\ events' = events
  BY DEF RunEvent, EventWaiting, NextSlot, ring

LEMMA RingStep == RingInv /\ [Next]_vars => RingInv'
  <1> SUFFICES ASSUME RingInv, [Next]_vars PROVE RingInv'
    OBVIOUS
  <1>n. NumEvents \in 1..128 /\ NumEvents \in Nat \ {0} /\ MaxCalls \in Nat
    BY ProcessAssumption
  <1>1. CASE RunEvent
    <2>1. posted' = posted /\ calls' = calls
      BY <1>1 DEF RunEvent, bounds
    <2>2. (fevent + 1) % NumEvents \in 0..NumEvents - 1
      BY <1>n DEF RingInv
    <2> QED
      BY <1>1, <2>1, <2>2, <1>n, TakeSlots DEF RingInv, ring
  <1>2. ASSUME NEW to \in Pointer, Post(to) PROVE RingInv'
    <2>1. [to |-> to, n |-> posted + 1] \in Items
      BY <1>2, <1>n DEF RingInv, Post, Call, Items
    <2>2. events' \in [0..NumEvents - 1 -> Items]
      BY <1>2, <2>1 DEF RingInv, Post
    <2>3. posted' = posted + 1 /\ calls' = calls + 1 /\ calls < MaxCalls
          /\ nevents' = nevents + 1 /\ nevents < NumEvents /\ fevent' = fevent
      BY <1>2 DEF Post, Call
    <2> QED
      BY <2>2, <2>3, <1>n DEF RingInv
  <1>3. CASE Next /\ ~RunEvent /\ \A to \in Pointer : ~Post(to)
    BY <1>3, OtherSteps DEF RingInv, ring
  <1>4. CASE UNCHANGED vars
    BY <1>4 DEF RingInv, vars, ring, count, bounds
  <1> QED
    BY <1>1, <1>2, <1>3, <1>4

-----------------------------------------------------------------------------
(* The queue the ring represents.                                           *)

Contents(e, f, n) == [i \in 1..n |-> e[(f + i - 1) % NumEvents]]

LEMMA ContentsIsSeq ==
  ASSUME NEW e \in [0..NumEvents - 1 -> Items],
         NEW f \in 0..NumEvents - 1, NEW n \in 0..NumEvents
  PROVE  /\ Contents(e, f, n) \in Seq(Items)
         /\ Len(Contents(e, f, n)) = n
         /\ \A i \in 1..n : Contents(e, f, n)[i] = e[(f + i - 1) % NumEvents]
  <1>1. \A i \in 1..n : (f + i - 1) % NumEvents \in 0..NumEvents - 1
    BY ProcessAssumption
  <1>2. Contents(e, f, n) \in [1..n -> Items]
    BY <1>1 DEF Contents
  <1>3. n \in Nat
    BY ProcessAssumption
  <1> PICK c : c = Contents(e, f, n)
    OBVIOUS
  <1>4. c \in Seq(Items) /\ Len(c) = n
    BY <1>2, <1>3
  <1>5. \A i \in 1..n : Contents(e, f, n)[i] = e[(f + i - 1) % NumEvents]
    BY DEF Contents
  <1> QED
    BY <1>4, <1>5

LEMMA QueuedIsSeq ==
  /\ RingInv =>
       /\ Queued \in Seq(Items)
       /\ Len(Queued) = nevents
       /\ \A i \in 1..nevents : Queued[i] = events[(fevent + i - 1) % NumEvents]
  /\ RingInv' =>
       /\ Queued' \in Seq(Items)
       /\ Len(Queued') = nevents'
       /\ \A i \in 1..nevents' :
            Queued'[i] = events'[(fevent' + i - 1) % NumEvents]
  <1>1. Queued = Contents(events, fevent, nevents)
    BY DEF Queued, Contents
  <1>2. Queued' = Contents(events', fevent', nevents')
    BY DEF Queued, Contents
  <1>3. RingInv => /\ events \in [0..NumEvents - 1 -> Items]
                   /\ fevent \in 0..NumEvents - 1 /\ nevents \in 0..NumEvents
    BY DEF RingInv
  <1>4. RingInv' => /\ events' \in [0..NumEvents - 1 -> Items]
                    /\ fevent' \in 0..NumEvents - 1 /\ nevents' \in 0..NumEvents
    BY DEF RingInv
  <1> QED
    BY <1>1, <1>2, <1>3, <1>4, ContentsIsSeq

\* do_event takes the head of the queue.
LEMMA TakeStep ==
  ASSUME RingInv, RingInv', RunEvent
  PROVE  Fifo!Take \/ UNCHANGED Queued
  <1>n. NumEvents \in 1..128 /\ NumEvents \in Nat \ {0}
    BY ProcessAssumption
  <1>m. fevent \in Int /\ nevents \in Int /\ fevent' \in Int
    BY DEF RingInv
  <1>1. CASE UNCHANGED ring
    BY <1>1 DEF Queued, ring
  <1>2. CASE /\ nevents > 0
             /\ fevent' = (fevent + 1) % NumEvents
             /\ nevents' = nevents - 1
             /\ events' = events
    <2>1. Queued # <<>> /\ Len(Tail(Queued)) = Len(Queued')
          /\ Queued' \in Seq(Items) /\ Tail(Queued) \in Seq(Items)
          /\ Len(Queued') = nevents - 1
      BY <1>2, QueuedIsSeq
    <2>2. ASSUME NEW i \in 1..nevents - 1
          PROVE  Queued'[i] = Tail(Queued)[i]
      <3>1. Tail(Queued)[i] = Queued[i + 1] /\ i + 1 \in 1..nevents
        BY <2>1, QueuedIsSeq DEF RingInv
      <3>2. Queued[i + 1] = events[(fevent + (i + 1) - 1) % NumEvents]
        BY <3>1, QueuedIsSeq
      <3>3. Queued'[i] = events[(fevent' + i - 1) % NumEvents]
        BY <1>2, QueuedIsSeq
      <3>4. (fevent' + i - 1) % NumEvents = (fevent + (i + 1) - 1) % NumEvents
        <4>1. fevent + 1 \in Nat /\ fevent + 1 < NumEvents + NumEvents
              /\ fevent + i \in Nat /\ fevent + i < NumEvents + NumEvents
              /\ fevent' + i - 1 \in Nat /\ fevent' + i - 1 < NumEvents + NumEvents
          BY <1>n, <1>2 DEF RingInv
        <4>2. fevent' = (fevent + 1) % NumEvents
          BY <1>2
        <4>3. PICK x \in Nat : x = fevent + 1
          BY <4>1
        <4>4. PICK y \in Nat : y = fevent + i
          BY <4>1
        <4>5. PICK z \in Nat : z = fevent' + i - 1
          BY <4>1
        <4>6. /\ x % NumEvents = IF x < NumEvents THEN x ELSE x - NumEvents
              /\ y % NumEvents = IF y < NumEvents THEN y ELSE y - NumEvents
              /\ z % NumEvents = IF z < NumEvents THEN z ELSE z - NumEvents
          BY <1>n, <4>1, <4>3, <4>4, <4>5, Wrap
        <4>7. fevent + (i + 1) - 1 = y
          BY <4>4, <1>m
        <4>8. fevent' = x % NumEvents
          BY <4>2, <4>3
        <4>9. z % NumEvents = y % NumEvents
          <5>1. PICK xr, yr, zr :
                  xr = x % NumEvents /\ yr = y % NumEvents /\ zr = z % NumEvents
            OBVIOUS
          <5>2. /\ fevent \in 0..NumEvents - 1 /\ i >= 1 /\ i <= NumEvents - 1
                /\ x = fevent + 1 /\ y = fevent + i /\ z = xr + i - 1
            BY <1>n, <1>m, <4>3, <4>4, <4>5, <4>8, <5>1 DEF RingInv
          <5>3. /\ xr = IF x < NumEvents THEN x ELSE x - NumEvents
                /\ yr = IF y < NumEvents THEN y ELSE y - NumEvents
                /\ zr = IF z < NumEvents THEN z ELSE z - NumEvents
            BY <4>6, <5>1
          <5>4. zr = yr
            BY <1>n, <5>2, <5>3
          <5> QED
            BY <5>1, <5>4
        <4> QED
          BY <4>5, <4>7, <4>9
      <3> QED
        BY <3>1, <3>2, <3>3, <3>4
    <2>3. Queued' = Tail(Queued)
      BY <2>1, <2>2, SeqEqual
    <2> QED
      BY <2>1, <2>3 DEF Fifo!Take
  <1> QED
    BY <1>1, <1>2, TakeSlots

\* process_post appends to the queue, which is not full.
LEMMA PutStep ==
  ASSUME RingInv, RingInv', NEW to \in Pointer, Post(to)
  PROVE  \E item \in Items : Fifo!Put(item)
  <1>n. NumEvents \in 1..128 /\ NumEvents \in Nat \ {0} /\ MaxCalls \in Nat
    BY ProcessAssumption
  <1>m. fevent \in Int /\ nevents \in Int
    BY DEF RingInv
  <1> PICK item : item = [to |-> to, n |-> posted + 1]
    OBVIOUS
  <1>0. item \in Items
    BY <1>n DEF RingInv, Post, Call, Items
  <1>1. /\ nevents < NumEvents
        /\ events' = [events EXCEPT ![Slot] = item]
        /\ nevents' = nevents + 1
        /\ fevent' = fevent
    BY DEF Post
  <1>2. Slot = (fevent + nevents) % NumEvents /\ Slot \in 0..NumEvents - 1
    <2>1. fevent + nevents \in 0..255
      BY <1>n DEF RingInv
    <2>2. (fevent + nevents) % 256 = fevent + nevents
      BY <2>1, Narrow
    <2> QED
      BY <1>n, <2>1, <2>2 DEF Slot
  <1>3. /\ Queued' \in Seq(Items) /\ Append(Queued, item) \in Seq(Items)
        /\ Len(Queued') = nevents + 1 /\ Len(Append(Queued, item)) = nevents + 1
        /\ Len(Queued) < NumEvents
    BY <1>0, <1>1, QueuedIsSeq
  <1>4. ASSUME NEW i \in 1..nevents + 1
        PROVE  Queued'[i] = Append(Queued, item)[i]
    <2>1. Queued'[i] = events'[(fevent + i - 1) % NumEvents]
      BY <1>1, QueuedIsSeq
    <2>2. CASE i = nevents + 1
      <3>1. fevent + i - 1 = fevent + nevents
        BY <2>2, <1>n DEF RingInv
      <3>2. Append(Queued, item)[i] = item
        BY <2>2, QueuedIsSeq
      <3> QED
        BY <3>1, <3>2, <2>1, <1>1, <1>2 DEF RingInv
    <2>3. CASE i \in 1..nevents
      <3>1. (fevent + i - 1) % NumEvents # Slot
        <4>1. fevent + i - 1 \in Nat /\ fevent + i - 1 < NumEvents + NumEvents
              /\ fevent + nevents \in Nat /\ fevent + nevents < NumEvents + NumEvents
          BY <1>n, <1>1, <2>3 DEF RingInv
        <4>2. PICK x \in Nat : x = fevent + i - 1
          BY <4>1
        <4>3. PICK y \in Nat : y = fevent + nevents
          BY <4>1
        <4>4. /\ x % NumEvents = IF x < NumEvents THEN x ELSE x - NumEvents
              /\ y % NumEvents = IF y < NumEvents THEN y ELSE y - NumEvents
          BY <1>n, <4>1, <4>2, <4>3, Wrap
        <4>5. x % NumEvents # y % NumEvents
          <5>1. PICK xr, yr : xr = x % NumEvents /\ yr = y % NumEvents
            OBVIOUS
          <5>2. /\ fevent \in 0..NumEvents - 1 /\ nevents \in 0..NumEvents - 1
                /\ i \in 1..nevents /\ x = fevent + i - 1 /\ y = fevent + nevents
            BY <1>n, <1>m, <1>1, <2>3, <4>2, <4>3 DEF RingInv
          <5>3. /\ xr = IF x < NumEvents THEN x ELSE x - NumEvents
                /\ yr = IF y < NumEvents THEN y ELSE y - NumEvents
            BY <4>4, <5>1
          <5>4. xr # yr
            BY <1>n, <5>2, <5>3
          <5> QED
            BY <5>1, <5>4
        <4> QED
          BY <1>2, <4>2, <4>3, <4>5
      <3>2. (fevent + i - 1) % NumEvents \in 0..NumEvents - 1
        BY <1>n, <2>3 DEF RingInv
      <3>3. events'[(fevent + i - 1) % NumEvents] = events[(fevent + i - 1) % NumEvents]
        BY <3>1, <3>2, <1>1 DEF RingInv
      <3>4. Append(Queued, item)[i] = Queued[i]
        BY <2>3, QueuedIsSeq
      <3> QED
        BY <2>1, <2>3, <3>3, <3>4, QueuedIsSeq
    <2>4. i = nevents + 1 \/ i \in 1..nevents
      BY <1>n DEF RingInv
    <2> QED
      BY <2>2, <2>3, <2>4
  <1>5. Queued' = Append(Queued, item)
    BY <1>3, <1>4, SeqEqual
  <1> QED
    BY <1>0, <1>3, <1>5 DEF Fifo!Put

LEMMA FifoStep == RingInv /\ RingInv' /\ [Next]_vars => [Fifo!Next]_Queued
  <1> SUFFICES ASSUME RingInv, RingInv', [Next]_vars PROVE [Fifo!Next]_Queued
    OBVIOUS
  <1>1. CASE RunEvent
    BY <1>1, TakeStep DEF Fifo!Next
  <1>2. ASSUME NEW to \in Pointer, Post(to) PROVE Fifo!Next
    BY <1>2, PutStep DEF Fifo!Next, Items
  <1>3. CASE Next /\ ~RunEvent /\ \A to \in Pointer : ~Post(to)
    BY <1>3, OtherSteps DEF Queued, ring
  <1>4. CASE UNCHANGED vars
    BY <1>4 DEF Queued, vars, ring
  <1> QED
    BY <1>1, <1>2, <1>3, <1>4

\* EventsAreFifo for every size of the ring: do_event takes the events in the
\* order process_post accepted them, none lost and none twice.
THEOREM RingIsFifo == Spec => EventsAreFifo
  <1>1. Init => Fifo!Init
    BY DEF Init, Fifo!Init, Queued
  <1>2. Init => RingInv
    BY InitRing
  <1>3. RingInv /\ [Next]_vars => RingInv'
    BY RingStep
  <1>4. RingInv /\ RingInv' /\ [Next]_vars => [Fifo!Next]_Queued
    BY FifoStep
  <1> QED
    BY <1>1, <1>2, <1>3, <1>4, PTL DEF Spec, EventsAreFifo, Fifo!Spec

(***************************************************************************)
(* Following next pointers                                                  *)
(***************************************************************************)

\* One more step from every process in S, along the pointers nx.
OneMore(nx, S) == S \cup {nx[q] : q \in S \ {NULL}}

Steps == Cardinality(Proc)

\* The function From(p) iterates, for any pointers nx.
IsMet(met, nx, p) ==
  met = [i \in 0..Cardinality(Proc) |->
    IF i = 0 THEN {p} ELSE met[i - 1] \cup {nx[q] : q \in met[i - 1] \ {NULL}}]

Met(nx, p) == CHOOSE met : IsMet(met, nx, p)

Walk(nx, p) == Met(nx, p)[Steps] \ {NULL}

LEMMA SizeType == Steps \in Nat /\ IsFiniteSet(Proc) /\ NULL \notin Proc
  BY ProcessAssumption, FS_CardinalityType DEF Steps

\* Iteration is well defined: there is a function with these equations.
LEMMA MetExists ==
  ASSUME NEW nx, NEW p
  PROVE  \E met : IsMet(met, nx, p)
<1>. DEFINE Eq(f, k) ==
       f = [i \in 0..k |-> IF i = 0 THEN {p} ELSE OneMore(nx, f[i - 1])]
<1>1. PICK S : S = {k \in Nat : \E f : Eq(f, k)}
  OBVIOUS
<1>2. 0 \in S
  <2>1. PICK f : f = [i \in 0..0 |-> {p}]
    OBVIOUS
  <2>2. Eq(f, 0)
    BY <2>1
  <2>. QED  BY <1>1, <2>2
<1>3. ASSUME NEW k \in 0..Steps, k \in S, k < Steps
      PROVE  k + 1 \in S
  <2>1. PICK f : Eq(f, k)
    BY <1>1, <1>3
  <2>2. PICK g : g = [i \in 0..k + 1 |-> IF i = k + 1 THEN OneMore(nx, f[k]) ELSE f[i]]
    OBVIOUS
  <2>3. k \in Nat
    BY SizeType
  <2>4. ASSUME NEW i \in 0..k + 1
        PROVE  g[i] = IF i = 0 THEN {p} ELSE OneMore(nx, g[i - 1])
    <3>1. CASE i = k + 1
      <4>1. g[i] = OneMore(nx, f[k]) /\ i - 1 = k /\ i # 0 /\ k \in 0..k + 1 /\ k # k + 1
        BY <2>2, <2>3, <3>1
      <4>2. g[i - 1] = f[k]
        BY <2>2, <4>1
      <4>. QED  BY <4>1, <4>2
    <3>2. CASE i # k + 1
      <4>1. i \in 0..k /\ (i # 0 => i - 1 \in 0..k /\ i - 1 \in 0..k + 1 /\ i - 1 # k + 1)
        BY <2>3, <3>2
      <4>2. g[i] = f[i] /\ (i # 0 => g[i - 1] = f[i - 1])
        BY <2>2, <3>2, <4>1
      <4>3. f[i] = IF i = 0 THEN {p} ELSE OneMore(nx, f[i - 1])
        BY <2>1, <4>1
      <4>. QED  BY <4>2, <4>3
    <3>. QED  BY <3>1, <3>2
  <2>5. Eq(g, k + 1)
    <3>1. g = [i \in 0..k + 1 |-> g[i]]
      BY <2>2
    <3>. QED  BY <2>4, <3>1
  <2>. QED  BY <1>1, <2>3, <2>5
<1>4. Steps \in S
  BY <1>2, <1>3, SizeType, UpTo
<1>5. PICK f : Eq(f, Steps)
  BY <1>1, <1>4
<1>6. IsMet(f, nx, p)
  BY <1>5 DEF OneMore, IsMet, Steps
<1>. QED  BY <1>6

\* The equations of Met.
LEMMA MetEquations ==
  ASSUME NEW nx, NEW p
  PROVE  /\ Met(nx, p)[0] = {p}
         /\ \A i \in 0..Steps : i < Steps => Met(nx, p)[i + 1] = OneMore(nx, Met(nx, p)[i])
<1>1. PICK f : f = Met(nx, p)
  OBVIOUS
<1>2. f = [i \in 0..Steps |-> IF i = 0 THEN {p} ELSE f[i - 1] \cup {nx[q] : q \in f[i - 1] \ {NULL}}]
  <2>1. IsMet(Met(nx, p), nx, p)
    BY MetExists, Zenon DEF Met
  <2>. QED  BY <1>1, <2>1 DEF IsMet, Steps
<1>3. Steps \in Nat
  BY SizeType
<1>4. f[0] = {p}
  <2>1. 0 \in 0..Steps
    BY <1>3
  <2>. QED  BY <1>2, <2>1
<1>5. ASSUME NEW i \in 0..Steps, i < Steps
      PROVE  f[i + 1] = OneMore(nx, f[i])
  <2>1. i + 1 \in 0..Steps /\ i + 1 # 0 /\ (i + 1) - 1 = i
    BY <1>3, <1>5
  <2>. QED  BY <1>2, <2>1 DEF OneMore
<1>. QED  BY <1>1, <1>4, <1>5

LEMMA FromIsWalk == \A p : From(p) = Walk(next, p) /\ From(p)' = Walk(next', p)
  BY DEF From, Walk, Met, IsMet, Steps

\* S is left by no pointer.
Closed(nx, S) == \A q \in S \ {NULL} : nx[q] \in S

\* A walk stays in every closed set it starts in.
LEMMA WalkMinimal ==
  ASSUME NEW nx, NEW p, NEW S, p \in S, Closed(nx, S)
  PROVE  Walk(nx, p) \subseteq S \ {NULL}
<1>1. PICK f : f = Met(nx, p)
  OBVIOUS
<1>2. PICK T : T = {i \in 0..Steps : f[i] \subseteq S}
  OBVIOUS
<1>3. Steps \in Nat /\ Steps \in 0..Steps /\ 0 \in 0..Steps
  BY SizeType
<1>4. 0 \in T
  BY <1>1, <1>2, <1>3, MetEquations
<1>5. ASSUME NEW i \in 0..Steps, i \in T, i < Steps
      PROVE  i + 1 \in T
  <2>1. f[i + 1] = OneMore(nx, f[i]) /\ f[i] \subseteq S
    BY <1>1, <1>2, <1>5, MetEquations
  <2>2. f[i + 1] \subseteq S
    BY <2>1 DEF OneMore, Closed
  <2>3. i + 1 \in 0..Steps
    BY <1>3, <1>5
  <2>. QED  BY <1>2, <2>2, <2>3
<1>6. Steps \in T
  BY <1>3, <1>4, <1>5, UpTo
<1>. QED  BY <1>1, <1>2, <1>6 DEF Walk

\* A walk ends where its pointers lead: Cardinality(Proc) steps are enough,
\* since each step before the last meets a process not met before.
LEMMA WalkComplete ==
  ASSUME NEW nx \in [Proc -> Pointer], NEW p \in Pointer
  PROVE  /\ p \in Met(nx, p)[Steps]
         /\ Met(nx, p)[Steps] \subseteq Pointer
         /\ Closed(nx, Met(nx, p)[Steps])
<1>1. PICK f : f = Met(nx, p)
  OBVIOUS
<1>n. Steps \in Nat /\ Steps \in 0..Steps /\ 0 \in 0..Steps /\ Steps + 1 > Steps
  BY SizeType
<1>p. IsFiniteSet(Pointer) /\ Cardinality(Pointer) = Steps + 1
  BY SizeType, FS_AddElement DEF Pointer, Steps
<1>. DEFINE Grown(i) == /\ p \in f[i] /\ f[i] \subseteq Pointer
                        /\ Closed(nx, f[i]) \/ Cardinality(f[i]) >= i + 1
<1>2. PICK T : T = {i \in 0..Steps : Grown(i)}
  OBVIOUS
<1>3. 0 \in T
  <2>1. f[0] = {p}
    BY <1>1, MetEquations
  <2>2. PICK G : G = f[0]
    OBVIOUS
  <2>3. Cardinality(G) = 1
    BY <2>1, <2>2, FS_Singleton
  <2>4. p \in G /\ G \subseteq Pointer /\ Cardinality(G) >= 0 + 1
    BY <2>1, <2>2, <2>3
  <2>. QED  BY <1>2, <1>n, <2>2, <2>4
<1>4. ASSUME NEW i \in 0..Steps, i \in T, i < Steps
      PROVE  i + 1 \in T
  <2>0. Grown(i)
    <3>. HIDE DEF Grown
    <3>. QED  BY <1>2, <1>4
  <2>1. f[i + 1] = OneMore(nx, f[i]) /\ p \in f[i] /\ f[i] \subseteq Pointer
        /\ (Closed(nx, f[i]) \/ Cardinality(f[i]) >= i + 1)
    BY <1>1, <2>0, <1>4, MetEquations
  <2>2. p \in f[i + 1] /\ f[i + 1] \subseteq Pointer /\ i + 1 \in 0..Steps
    BY <1>n, <1>4, <2>1 DEF OneMore, Pointer
  <2>3. CASE Closed(nx, f[i])
    <3>1. f[i + 1] = f[i]
      BY <2>1, <2>3 DEF OneMore, Closed
    <3>. QED  BY <1>2, <2>2, <2>3, <3>1
  <2>4. CASE ~Closed(nx, f[i])
    <3>1. PICK q \in f[i] : q # NULL /\ nx[q] \notin f[i]
      BY <2>4 DEF Closed
    <3>2. PICK G, H : G = f[i] /\ H = f[i + 1]
      OBVIOUS
    <3>3. IsFiniteSet(H) /\ G \subseteq H /\ G # H
      <4>1. IsFiniteSet(H)
        BY <1>p, <2>2, <3>2, FS_Subset
      <4>2. nx[q] \in H /\ G \subseteq H
        BY <2>1, <3>1, <3>2 DEF OneMore
      <4>. QED  BY <3>1, <3>2, <4>1, <4>2
    <3>4. Cardinality(G) <= Cardinality(H) /\ Cardinality(H) # Cardinality(G)
      BY <3>3, FS_Subset
    <3>5. Cardinality(G) \in Nat /\ Cardinality(H) \in Nat
      BY <3>3, FS_Subset, FS_CardinalityType
    <3>6. Cardinality(G) >= i + 1
      BY <2>1, <2>4, <3>2
    <3>7. Cardinality(H) >= (i + 1) + 1
      BY <3>4, <3>5, <3>6
    <3>. QED  BY <1>2, <2>2, <3>2, <3>7
  <2>. QED  BY <2>3, <2>4
<1>5. Steps \in T
  BY <1>n, <1>3, <1>4, UpTo
<1>6. p \in f[Steps] /\ f[Steps] \subseteq Pointer
      /\ (Closed(nx, f[Steps]) \/ Cardinality(f[Steps]) >= Steps + 1)
  <2>1. Grown(Steps)
    <3>. HIDE DEF Grown
    <3>. QED  BY <1>2, <1>5
  <2>. QED  BY <2>1
<1>7. Closed(nx, f[Steps])
  <2>1. CASE Cardinality(f[Steps]) >= Steps + 1
    <3>1. PICK G : G = f[Steps]
      OBVIOUS
    <3>2. Cardinality(G) <= Steps + 1 /\ Cardinality(G) \in Nat
      BY <1>p, <1>6, <3>1, FS_Subset, FS_CardinalityType
    <3>3. Cardinality(G) = Cardinality(Pointer)
      BY <1>n, <1>p, <2>1, <3>1, <3>2
    <3>4. G = Pointer
      BY <1>p, <1>6, <3>1, <3>3, FS_Subset
    <3>. QED  BY <3>1, <3>4 DEF Closed, Pointer
  <2>. QED  BY <1>6, <2>1
<1>. QED  BY <1>1, <1>6, <1>7

\* What a walk is, without its construction.
LEMMA WalkFacts ==
  ASSUME NEW nx \in [Proc -> Pointer], NEW p \in Pointer
  PROVE  /\ Walk(nx, p) \subseteq Proc
         /\ p # NULL => p \in Walk(nx, p)
         /\ \A q \in Walk(nx, p) : nx[q] # NULL => nx[q] \in Walk(nx, p)
  BY WalkComplete DEF Walk, Closed, Pointer

LEMMA WalkFromNull ==
  ASSUME NEW nx \in [Proc -> Pointer]
  PROVE  Walk(nx, NULL) = {}
<1>1. PICK S : S = {NULL}
  OBVIOUS
<1>2. Walk(nx, NULL) \subseteq S \ {NULL}
  BY <1>1, WalkMinimal DEF Closed
<1>. QED  BY <1>1, <1>2

\* A walk from a process met on a walk is part of that walk.
LEMMA WalkTransitive ==
  ASSUME NEW nx \in [Proc -> Pointer], NEW p \in Pointer, NEW q \in Walk(nx, p)
  PROVE  Walk(nx, q) \subseteq Walk(nx, p)
<1>1. PICK S : S = Walk(nx, p) \cup {NULL}
  OBVIOUS
<1>2. q \in S /\ Closed(nx, S)
  BY <1>1, WalkFacts DEF Closed
<1>3. Walk(nx, q) \subseteq S \ {NULL}
  BY <1>2, WalkMinimal
<1>. QED  BY <1>1, <1>3

\* A walk from p is p, and then a walk from its successor.
LEMMA WalkUnfold ==
  ASSUME NEW nx \in [Proc -> Pointer], NEW p \in Proc
  PROVE  Walk(nx, p) = {p} \cup Walk(nx, nx[p])
<1>1. nx[p] \in Pointer /\ p \in Pointer /\ p # NULL
  BY SizeType DEF Pointer
<1>2. Walk(nx, nx[p]) \subseteq Walk(nx, p)
  <2>1. CASE nx[p] = NULL
    BY <2>1, WalkFromNull
  <2>2. CASE nx[p] # NULL
    <3>1. nx[p] \in Walk(nx, p)
      BY <1>1, <2>2, WalkFacts
    <3>. QED  BY <1>1, <3>1, WalkTransitive
  <2>. QED  BY <2>1, <2>2
<1>3. PICK S : S = {p, NULL} \cup Walk(nx, nx[p])
  OBVIOUS
<1>4. Closed(nx, S) /\ p \in S
  BY <1>1, <1>3, WalkFacts DEF Closed
<1>5. Walk(nx, p) \subseteq S \ {NULL}
  BY <1>4, WalkMinimal
<1>6. NULL \notin Walk(nx, nx[p]) /\ p \in Walk(nx, p)
  BY <1>1, WalkFacts DEF Walk
<1>. QED  BY <1>1, <1>2, <1>3, <1>5, <1>6

(***************************************************************************)
(* How a walk changes when the list does                                    *)
(***************************************************************************)

\* Pointers that agree along a walk lead to the same walk.
LEMMA WalkAgree ==
  ASSUME NEW nx \in [Proc -> Pointer], NEW ny \in [Proc -> Pointer], NEW p \in Pointer,
         \A q \in Walk(nx, p) : ny[q] = nx[q]
  PROVE  Walk(ny, p) = Walk(nx, p)
<1>1. PICK S : S = Walk(nx, p) \cup {NULL}
  OBVIOUS
<1>2. p \in S /\ Closed(ny, S)
  BY <1>1, WalkFacts DEF Closed
<1>3. Walk(ny, p) \subseteq Walk(nx, p)
  BY <1>1, <1>2, WalkMinimal
<1>4. PICK T : T = Walk(ny, p) \cup {NULL}
  OBVIOUS
<1>5. p \in T /\ Closed(nx, T)
  BY <1>3, <1>4, WalkFacts DEF Closed
<1>6. Walk(nx, p) \subseteq Walk(ny, p)
  <2>1. Walk(nx, p) \subseteq T \ {NULL}
    BY <1>5, WalkMinimal
  <2>. QED  BY <1>4, <2>1
<1>. QED  BY <1>3, <1>6

\* process_start puts r, which is not met from h, in front of h.
IsInserted(nx, h, r, ny) == r \notin Walk(nx, h) /\ ny = [nx EXCEPT ![r] = h]

LEMMA InsertElsewhere ==
  ASSUME NEW nx \in [Proc -> Pointer], NEW ny, NEW h \in Pointer, NEW r \in Proc,
         IsInserted(nx, h, r, ny),
         NEW p \in Pointer, r \notin Walk(nx, p)
  PROVE  Walk(ny, p) = Walk(nx, p)
<1>1. ny \in [Proc -> Pointer] /\ \A q \in Proc : q # r => ny[q] = nx[q]
  BY DEF IsInserted
<1>2. \A q \in Walk(nx, p) : ny[q] = nx[q]
  BY <1>1, WalkFacts
<1>. QED  BY <1>1, <1>2, WalkAgree

LEMMA Insert ==
  ASSUME NEW nx \in [Proc -> Pointer], NEW ny, NEW h \in Pointer, NEW r \in Proc,
         IsInserted(nx, h, r, ny)
  PROVE  /\ ny \in [Proc -> Pointer]
         /\ Walk(ny, h) = Walk(nx, h)
         /\ Walk(ny, r) = {r} \cup Walk(nx, h)
         /\ \A p \in Pointer : Walk(ny, p) \subseteq Walk(nx, p) \cup Walk(nx, h)
         /\ \A p \in Pointer : r \in Walk(nx, p) => Walk(nx, h) \subseteq Walk(ny, p)
<1>1. /\ ny \in [Proc -> Pointer] /\ ny[r] = h /\ \A q \in Proc : q # r => ny[q] = nx[q]
      /\ r \notin Walk(nx, h)
  BY DEF IsInserted
<1>3. Walk(ny, h) = Walk(nx, h)
  BY <1>1, InsertElsewhere
<1>4. Walk(ny, r) = {r} \cup Walk(nx, h)
  BY <1>1, <1>3, WalkUnfold
<1>5. ASSUME NEW p \in Pointer
      PROVE  Walk(ny, p) \subseteq Walk(nx, p) \cup Walk(nx, h)
  <2>1. PICK S : S = Walk(nx, p) \cup Walk(nx, h) \cup {NULL}
    OBVIOUS
  <2>2. p \in S /\ Closed(ny, S)
    BY <1>1, <2>1, WalkFacts DEF Closed
  <2>3. Walk(ny, p) \subseteq S \ {NULL}
    BY <2>2, WalkMinimal
  <2>. QED  BY <2>1, <2>3
<1>6. ASSUME NEW p \in Pointer, r \in Walk(nx, p)
      PROVE  Walk(nx, h) \subseteq Walk(ny, p)
  <2>1. r \in Walk(ny, p)
    <3>1. SUFFICES ASSUME r \notin Walk(ny, p) PROVE FALSE
      OBVIOUS
    <3>2. \A q \in Walk(ny, p) : nx[q] = ny[q]
      BY <1>1, <3>1, WalkFacts
    <3>3. Walk(nx, p) = Walk(ny, p)
      BY <1>1, <3>2, WalkAgree
    <3>. QED  BY <1>6, <3>1, <3>3
  <2>2. Walk(ny, r) \subseteq Walk(ny, p)
    BY <1>1, <2>1, WalkTransitive
  <2>. QED  BY <1>4, <2>2
<1>. QED  BY <1>1, <1>3, <1>4, <1>5, <1>6

\* No process is met again after it.
Ends(nx) == \A p \in Proc : p \notin Walk(nx, nx[p])

LEMMA InsertEnds ==
  ASSUME NEW nx \in [Proc -> Pointer], NEW ny, NEW h \in Pointer, NEW r \in Proc,
         IsInserted(nx, h, r, ny),
         Ends(nx)
  PROVE  Ends(ny)
<1>b. \A p \in Pointer : r \notin Walk(nx, p) => Walk(ny, p) = Walk(nx, p)
  BY InsertElsewhere
<1>a. r \notin Walk(nx, h) /\ Walk(ny, h) = Walk(nx, h)
  BY <1>b DEF IsInserted
<1>c. \A p \in Pointer : Walk(ny, p) \subseteq Walk(nx, p) \cup Walk(nx, h)
  BY Insert
<1>1. SUFFICES ASSUME NEW p \in Proc, p \in Walk(ny, ny[p]) PROVE FALSE
  BY DEF Ends
<1>2. CASE p = r
  BY <1>a, <1>b, <1>c, <1>1, <1>2 DEF IsInserted
<1>3. CASE p # r
  <2>1. /\ ny[p] = nx[p] /\ nx[p] \in Pointer /\ p \notin Walk(nx, nx[p])
        /\ r \notin Walk(nx, h)
    BY <1>3 DEF Ends, IsInserted
  <2>2. r \in Walk(nx, nx[p])
    BY <1>a, <1>b, <1>c, <1>1, <2>1
  <2>3. p \in Walk(nx, h)
    BY <1>a, <1>b, <1>c, <1>1, <2>1, <2>2
  <2>4. Walk(nx, nx[p]) \subseteq Walk(nx, h)
    BY <2>3, WalkTransitive, WalkUnfold
  <2>. QED  BY <2>1, <2>2, <2>4
<1>. QED  BY <1>2, <1>3

\* exit_process takes r off the list that starts at h.
IsRemoved(nx, h, r, ny, k) ==
  /\ k = IF h = r THEN nx[r] ELSE h
  /\ ny = [q \in Proc |-> IF h # r /\ q \in Walk(nx, h) /\ nx[q] = r THEN nx[r] ELSE nx[q]]

LEMMA Remove ==
  ASSUME NEW nx \in [Proc -> Pointer], NEW ny, NEW h \in Pointer, NEW k, NEW r \in Proc,
         IsRemoved(nx, h, r, ny, k)
  PROVE  /\ ny \in [Proc -> Pointer] /\ k \in Pointer
         /\ \A p \in Pointer : Walk(ny, p) \subseteq Walk(nx, p)
         /\ \A p \in Pointer : Walk(nx, p) \ {r} \subseteq Walk(ny, p)
         /\ Ends(nx) => Walk(ny, k) = Walk(nx, h) \ {r}
         /\ Ends(nx) => Ends(ny)
<1>1. /\ ny \in [Proc -> Pointer] /\ k \in Pointer
      /\ \A q \in Proc : ny[q] = nx[q] \/ (nx[q] = r /\ ny[q] = nx[r])
      /\ \A q \in Proc : nx[q] # r => ny[q] = nx[q]
      /\ ny[r] = nx[r]
  BY DEF IsRemoved
<1>n. NULL \notin Proc
  BY SizeType
<1>2. ASSUME NEW p \in Pointer
      PROVE  Walk(ny, p) \subseteq Walk(nx, p)
  <2>1. PICK S : S = Walk(nx, p) \cup {NULL}
    OBVIOUS
  <2>2. p \in S
    BY <2>1, WalkFacts
  <2>3. Closed(ny, S)
    <3>1. SUFFICES ASSUME NEW q \in Walk(nx, p) PROVE ny[q] \in S
      BY <2>1 DEF Closed
    <3>2. q \in Proc /\ nx[q] \in S
      BY <2>1, WalkFacts
    <3>3. CASE nx[q] = r /\ ny[q] = nx[r]
      <4>1. r \in Walk(nx, p)
        BY <1>n, <3>3, WalkFacts
      <4>. QED  BY <2>1, <3>3, <4>1, WalkFacts
    <3>. QED  BY <1>1, <3>2, <3>3
  <2>4. Walk(ny, p) \subseteq S \ {NULL}
    BY <2>2, <2>3, WalkMinimal
  <2>. QED  BY <2>1, <2>4
<1>3. ASSUME NEW p \in Pointer
      PROVE  Walk(nx, p) \ {r} \subseteq Walk(ny, p)
  <2>1. PICK S : S = Walk(ny, p) \cup {NULL} \cup {x \in {r} : r = p \/ \E z \in Walk(ny, p) : nx[z] = r}
    OBVIOUS
  <2>2. p \in S
    BY <1>1, <2>1, WalkFacts
  <2>3. Closed(nx, S)
    <3>1. ASSUME NEW q \in Walk(ny, p) PROVE nx[q] \in S
      <4>1. q \in Proc /\ (ny[q] = NULL \/ ny[q] \in Walk(ny, p))
        BY <1>1, WalkFacts
      <4>2. CASE nx[q] = r
        BY <2>1, <4>2
      <4>3. CASE nx[q] # r
        BY <1>1, <2>1, <4>1, <4>3
      <4>. QED  BY <4>2, <4>3
    <3>2. ASSUME r \in S, r \notin Walk(ny, p)
          PROVE  nx[r] \in S
      <4>1. r # p
        BY <1>1, <1>n, <3>2, WalkFacts
      <4>2. PICK z \in Walk(ny, p) : nx[z] = r
        BY <1>n, <2>1, <3>2, <4>1
      <4>3. z \in Proc /\ (ny[z] = NULL \/ ny[z] \in Walk(ny, p))
        BY <1>1, WalkFacts
      <4>4. ny[z] # r
        BY <1>n, <3>2, <4>3
      <4>5. ny[z] = nx[r]
        BY <1>1, <4>2, <4>3, <4>4
      <4>. QED  BY <2>1, <4>3, <4>5
    <3>3. \A q \in S : q \in Walk(ny, p) \/ q = NULL \/ q = r
      BY <2>1
    <3>. QED  BY <3>1, <3>2, <3>3 DEF Closed
  <2>4. Walk(nx, p) \subseteq S \ {NULL}
    BY <2>2, <2>3, WalkMinimal
  <2>. QED  BY <2>1, <2>4
<1>4. ASSUME Ends(nx) PROVE Walk(ny, k) = Walk(nx, h) \ {r}
  <2>1. CASE h = r
    <3>1. k = nx[r] /\ ny = nx
      BY <2>1 DEF IsRemoved
    <3>2. Walk(nx, h) = {r} \cup Walk(nx, nx[r]) /\ r \notin Walk(nx, nx[r])
      BY <1>4, <2>1, WalkUnfold DEF Ends
    <3>. QED  BY <3>1, <3>2
  <2>2. CASE h # r
    <3>1. k = h /\ \A q \in Walk(nx, h) : nx[q] = r => ny[q] = nx[r]
      BY <2>2, WalkFacts DEF IsRemoved
    <3>2. PICK S : S = (Walk(nx, h) \ {r}) \cup {NULL}
      OBVIOUS
    <3>3. h \in S
      BY <2>2, <3>2, WalkFacts
    <3>4. Closed(ny, S)
      <4>1. SUFFICES ASSUME NEW q \in Walk(nx, h), q # r PROVE ny[q] \in S
        BY <3>2 DEF Closed
      <4>2. q \in Proc /\ (nx[q] = NULL \/ nx[q] \in Walk(nx, h))
        BY WalkFacts
      <4>3. CASE nx[q] # r
        BY <1>1, <3>2, <4>2, <4>3
      <4>4. CASE nx[q] = r
        <5>1. r \in Walk(nx, h) /\ ny[q] = nx[r]
          BY <1>n, <3>1, <4>2, <4>4
        <5>2. nx[r] = NULL \/ nx[r] \in Walk(nx, h)
          BY <5>1, WalkFacts
        <5>3. nx[r] # r
          <6>1. r \notin Walk(nx, nx[r])
            BY <1>4 DEF Ends
          <6>2. nx[r] \in Pointer /\ (nx[r] # NULL => nx[r] \in Walk(nx, nx[r]))
            BY WalkFacts
          <6>. QED  BY <1>n, <6>1, <6>2
        <5>. QED  BY <3>2, <5>1, <5>2, <5>3
      <4>. QED  BY <4>3, <4>4
    <3>5. Walk(ny, h) \subseteq Walk(nx, h) \ {r}
      BY <3>2, <3>3, <3>4, WalkMinimal
    <3>. QED  BY <1>3, <3>1, <3>5
  <2>. QED  BY <2>1, <2>2
<1>5. ASSUME Ends(nx) PROVE Ends(ny)
  <2>1. SUFFICES ASSUME NEW p \in Proc, p \in Walk(ny, ny[p]) PROVE FALSE
    BY DEF Ends
  <2>2. p \notin Walk(nx, nx[p]) /\ nx[p] \in Pointer
    BY <1>5 DEF Ends
  <2>3. CASE ny[p] = nx[p]
    BY <1>2, <2>1, <2>2, <2>3
  <2>4. CASE nx[p] = r /\ ny[p] = nx[r]
    <3>1. Walk(nx, r) = {r} \cup Walk(nx, nx[r])
      BY WalkUnfold
    <3>. QED  BY <1>2, <2>1, <2>2, <2>4, <3>1
  <2>. QED  BY <1>1, <2>3, <2>4
<1>. QED  BY <1>1, <1>2, <1>3, <1>4, <1>5

(***************************************************************************)
(* The inductive invariant                                                  *)
(***************************************************************************)

\* The functions that belong to one process: its thread, and exit_process for it.
Own(f) == f.fn \in {"thread", "exit_process", "unlink"}

\* Which function may call which: g is called from f.  A function called from a
\* thread sets process_current back to that thread's process.
Fits(f, g) ==
  /\ g.fn # "process_run"
  /\ g.fn \in {"do_event", "deliver"} => f.fn = "process_run"
  /\ g.fn = "do_poll" => f.fn \in {"process_run", "deliver"}
  /\ f.fn \in {"do_poll", "do_event"} => Own(g) /\ g.p = f.q
  /\ f.fn = "deliver" => g.fn = "do_poll"
  /\ f.fn \in {"thread", "last"} => Own(g) /\ g.old = f.p
  /\ g.fn = "last" => f.fn = "unlink"
  /\ g.fn = "deliver" => g.q # NULL

\* The stack is a chain of such calls, with process_run at the bottom.
WellNested(s) ==
  /\ s # <<>>
  /\ s[Len(s)].fn = "process_run"
  /\ \A i \in 1..Len(s) - 1 : Fits(s[i + 1], s[i])

\* What p->state is while a function that belongs to p is active.
Mark(f) == IF f.fn = "thread" THEN "CALLED" ELSE "NONE"

\* L is the set of the processes on the list.  A process has at most one such
\* function on the stack, is marked by it and on the list; every other process
\* is RUNNING on the list or NONE off it.
Owned(s, st, L) ==
  /\ \A i \in 1..Len(s) : Own(s[i]) => s[i].p \in L /\ st[s[i].p] = Mark(s[i])
  /\ \A i, j \in 1..Len(s) : Own(s[i]) /\ Own(s[j]) /\ s[i].p = s[j].p => i = j
  /\ \A p \in Proc : st[p] # "NONE" => p \in L
  /\ \A p \in L : st[p] # "RUNNING" => \E i \in 1..Len(s) : Own(s[i]) /\ s[i].p = p

StackInv == WellNested(stack) /\ CurrentIsExecuting

OwnedInv == Owned(stack, state, From(head))

\* do_poll looks at processes that are on the list.
SearchOnList == top.fn = "do_poll" => After(top.q) \in From(head) \cup {NULL}

\* Polls and broadcasts wait for running processes only.
WaitersRun == \A p \in wants \cup due : state[p] # "NONE"

\* A broadcast has the processes it has yet to reach ahead of it.
DueAhead ==
  \A i \in 1..Len(stack) :
    /\ stack[i].fn = "do_event" => due \subseteq From(After(stack[i].q))
    /\ stack[i].fn = "deliver" => due \subseteq From(stack[i].q)

\* ... and, unless a poll handler has started a process, none it has reached.
HeardBehind ==
  ~restarted =>
    \A i \in 1..Len(stack) :
      /\ stack[i].fn = "do_event" => heard \cap From(After(stack[i].q)) = {}
      /\ stack[i].fn = "deliver" => heard \cap From(stack[i].q) = {}
(***************************************************************************)
(* Pushing and popping activations                                          *)
(***************************************************************************)

Push(s, f) == <<f>> \o s

LEMMA PushFacts ==
  ASSUME NEW s \in Seq(Activation), NEW f \in Activation
  PROVE  /\ Push(s, f) \in Seq(Activation) /\ Push(s, f) # <<>>
         /\ Len(Push(s, f)) = Len(s) + 1 /\ Len(s) \in Nat
         /\ Push(s, f)[1] = f
         /\ \A i \in 1..Len(s) : Push(s, f)[i + 1] = s[i]
         /\ Head(Push(s, f)) = f /\ Tail(Push(s, f)) = s
<1>1. PICK t : t = Push(s, f)
  OBVIOUS
<1>2. t \in Seq(Activation) /\ t # <<>> /\ Len(t) = Len(s) + 1 /\ Len(s) \in Nat
      /\ t[1] = f /\ \A i \in 1..Len(s) : t[i + 1] = s[i]
  BY <1>1 DEF Push
<1>3. Head(t) = f
  BY <1>2
<1>4. Tail(t) = s
  <2>1. PICK u : u = Tail(t)
    OBVIOUS
  <2>2. u \in Seq(Activation) /\ Len(u) = Len(s) /\ \A i \in 1..Len(s) : u[i] = t[i + 1]
    BY <1>2, <2>1
  <2>3. u = s
    BY <1>2, <2>2, SeqEqual
  <2>. QED  BY <2>1, <2>3
<1>. QED  BY <1>1, <1>2, <1>3, <1>4

LEMMA PopFacts ==
  ASSUME NEW s \in Seq(Activation), s # <<>>
  PROVE  /\ Tail(s) \in Seq(Activation)
         /\ Len(Tail(s)) = Len(s) - 1 /\ Len(s) \in Nat \ {0}
         /\ \A i \in 1..Len(s) - 1 : Tail(s)[i] = s[i + 1]
         /\ Head(s) = s[1] /\ Head(s) \in Activation
OBVIOUS

LEMMA PushTwo ==
  ASSUME NEW s \in Seq(Activation), NEW f \in Activation, NEW g \in Activation
  PROVE  <<f, g>> \o s = Push(Push(s, g), f)
<1>1. PICK t, u : t = <<f, g>> \o s /\ u = Push(Push(s, g), f)
  OBVIOUS
<1>2. t \in Seq(Activation) /\ Len(t) = Len(s) + 2 /\ t[1] = f /\ t[2] = g
      /\ Len(s) \in Nat /\ \A i \in 1..Len(s) : t[i + 2] = s[i]
  BY <1>1
<1>3. PICK v : v = Push(s, g)
  OBVIOUS
<1>4. u \in Seq(Activation) /\ Len(u) = Len(s) + 2 /\ u[1] = f /\ u[2] = g
      /\ \A i \in 1..Len(s) : u[i + 2] = s[i]
  <2>1. v \in Seq(Activation) /\ Len(v) = Len(s) + 1 /\ v[1] = g
        /\ \A i \in 1..Len(s) : v[i + 1] = s[i]
    BY <1>3, PushFacts
  <2>2. u \in Seq(Activation) /\ Len(u) = Len(v) + 1 /\ u[1] = f
        /\ \A i \in 1..Len(v) : u[i + 1] = v[i]
    BY <1>1, <1>3, <2>1, PushFacts
  <2>3. u[2] = g
    <3>1. 1 \in 1..Len(v)
      BY <1>2, <2>1
    <3>. QED  BY <2>1, <2>2, <3>1
  <2>4. ASSUME NEW i \in 1..Len(s) PROVE u[i + 2] = s[i]
    <3>1. i + 1 \in 1..Len(v) /\ (i + 1) + 1 = i + 2
      BY <1>2, <2>1
    <3>. QED  BY <2>1, <2>2, <3>1
  <2>. QED  BY <1>2, <2>1, <2>2, <2>3, <2>4
<1>5. ASSUME NEW i \in 1..Len(t) PROVE t[i] = u[i]
  <2>1. i = 1 \/ i = 2 \/ (i - 2 \in 1..Len(s) /\ i = (i - 2) + 2)
    BY <1>2
  <2>. QED  BY <1>2, <1>4, <2>1
<1>6. t = u
  BY <1>2, <1>4, <1>5, SeqEqual
<1>. QED  BY <1>1, <1>6
-----------------------------------------------------------------------------
LEMMA NestedPop ==
  ASSUME NEW s \in Seq(Activation), WellNested(s), Head(s).fn # "process_run"
  PROVE  WellNested(Tail(s)) /\ Tail(s) # <<>> /\ Fits(Head(Tail(s)), Head(s))
<1>1. PICK t, m : t = Tail(s) /\ m = Len(s)
  OBVIOUS
<1>2. s # <<>> /\ s[m].fn = "process_run" /\ \A i \in 1..m - 1 : Fits(s[i + 1], s[i])
  BY <1>1 DEF WellNested
<1>3. /\ t \in Seq(Activation) /\ Len(t) = m - 1 /\ m \in Nat \ {0}
      /\ \A i \in 1..m - 1 : t[i] = s[i + 1]
      /\ Head(s) = s[1]
  BY <1>1, <1>2, PopFacts
<1>4. m > 1
  BY <1>2, <1>3
<1>5. t # <<>> /\ Head(t) = t[1] /\ t[1] = s[2]
  <2>1. t # <<>>
    BY <1>3, <1>4
  <2>2. 1 \in 1..m - 1 /\ 1 + 1 = 2
    BY <1>3, <1>4
  <2>. QED  BY <1>3, <2>1, <2>2, PopFacts
<1>6. Fits(s[2], s[1])
  BY <1>2, <1>3, <1>4
<1>7. t[Len(t)].fn = "process_run"
  <2>1. m - 1 \in 1..m - 1 /\ (m - 1) + 1 = m
    BY <1>3, <1>4
  <2>. QED  BY <1>2, <1>3, <2>1
<1>8. ASSUME NEW i \in 1..Len(t) - 1 PROVE Fits(t[i + 1], t[i])
  <2>1. i \in 1..m - 1 /\ i + 1 \in 1..m - 1
    BY <1>3
  <2>. QED  BY <1>2, <1>3, <2>1
<1>9. WellNested(t)
  BY <1>5, <1>7, <1>8 DEF WellNested
<1>. QED  BY <1>1, <1>3, <1>5, <1>6, <1>9

LEMMA NestedPush ==
  ASSUME NEW s \in Seq(Activation), WellNested(s), NEW f \in Activation, Fits(Head(s), f)
  PROVE  WellNested(Push(s, f))
<1>1. PICK t, m : t = Push(s, f) /\ m = Len(s)
  OBVIOUS
<1>2. s # <<>> /\ s[m].fn = "process_run" /\ \A i \in 1..m - 1 : Fits(s[i + 1], s[i])
  BY <1>1 DEF WellNested
<1>3. /\ t \in Seq(Activation) /\ t # <<>> /\ Len(t) = m + 1 /\ m \in Nat \ {0}
      /\ t[1] = f /\ \A i \in 1..m : t[i + 1] = s[i]
      /\ Head(s) = s[1]
  <2>1. m \in Nat \ {0} /\ Head(s) = s[1]
    BY <1>1, <1>2, PopFacts
  <2>. QED  BY <1>1, <2>1, PushFacts
<1>4. t[Len(t)].fn = "process_run"
  BY <1>2, <1>3
<1>5. ASSUME NEW i \in 1..Len(t) - 1 PROVE Fits(t[i + 1], t[i])
  <2>1. CASE i = 1
    <3>1. t[i + 1] = s[1] /\ t[i] = f
      BY <1>3, <2>1
    <3>. QED  BY <1>3, <3>1
  <2>2. CASE i # 1
    <3>1. i - 1 \in 1..m - 1 /\ i - 1 \in 1..m /\ i \in 1..m /\ (i - 1) + 1 = i
      BY <1>3, <2>2
    <3>2. t[i + 1] = s[i] /\ t[i] = s[i - 1]
      BY <1>3, <3>1
    <3>. QED  BY <1>2, <3>1, <3>2
  <2>. QED  BY <2>1, <2>2
<1>6. WellNested(t)
  BY <1>3, <1>4, <1>5 DEF WellNested
<1>. QED  BY <1>1, <1>6

\* Under a function of the kernel's own loops there are only such functions.
Kernels == {"process_run", "do_poll", "do_event", "deliver"}

LEMMA NestedKernel ==
  ASSUME NEW s \in Seq(Activation), WellNested(s), Head(s).fn \in Kernels
  PROVE  /\ \A i \in 1..Len(s) : s[i].fn \in Kernels /\ ~Own(s[i])
         /\ Head(s).fn = "process_run" => Len(s) = 1
         /\ Head(s).fn \in {"do_event", "deliver"} => Len(s) = 2
<1>1. PICK m : m = Len(s)
  OBVIOUS
<1>2. s # <<>> /\ s[m].fn = "process_run" /\ \A i \in 1..m - 1 : Fits(s[i + 1], s[i])
  BY <1>1 DEF WellNested
<1>3. m \in Nat \ {0} /\ Head(s) = s[1]
  BY <1>1, <1>2, PopFacts
<1>4. m > 1 => Fits(s[2], s[1])
  BY <1>2, <1>3
<1>5. m > 2 => Fits(s[3], s[2])
  BY <1>2, <1>3
<1>6. m > 3 => Fits(s[4], s[3])
  BY <1>2, <1>3
<1>7. s[1].fn = "process_run" => m = 1
  BY <1>3, <1>4 DEF Fits
<1>8. s[1].fn \in {"do_event", "deliver"} => m = 2
  BY <1>2, <1>3, <1>4, <1>5 DEF Fits
<1>9. s[1].fn = "do_poll" =>
        \/ m = 2 /\ s[2].fn = "process_run"
        \/ m = 3 /\ s[2].fn = "deliver" /\ s[3].fn = "process_run"
  BY <1>2, <1>3, <1>4, <1>5, <1>6 DEF Fits
<1>10. \A i \in 1..m : s[i].fn \in Kernels
  BY <1>2, <1>3, <1>7, <1>8, <1>9 DEF Kernels
<1>. QED  BY <1>1, <1>3, <1>7, <1>8, <1>10 DEF Kernels, Own

-----------------------------------------------------------------------------
LEMMA OwnedPop ==
  ASSUME NEW s \in Seq(Activation), s # <<>>, NEW st, NEW L, Owned(s, st, L), ~Own(Head(s))
  PROVE  Owned(Tail(s), st, L)
<1>1. PICK t, m : t = Tail(s) /\ m = Len(s)
  OBVIOUS
<1>2. /\ Len(t) = m - 1 /\ m \in Nat \ {0} /\ Head(s) = s[1]
      /\ \A i \in 1..m - 1 : t[i] = s[i + 1] /\ i + 1 \in 1..m
  BY <1>1, PopFacts
<1>3. \A i \in 1..Len(t) : Own(t[i]) => t[i].p \in L /\ st[t[i].p] = Mark(t[i])
  BY <1>1, <1>2 DEF Owned
<1>4. ASSUME NEW i \in 1..Len(t), NEW j \in 1..Len(t), Own(t[i]), Own(t[j]), t[i].p = t[j].p
      PROVE  i = j
  <2>1. i + 1 = j + 1
    BY <1>1, <1>2, <1>4 DEF Owned
  <2>. QED  BY <2>1, <1>2
<1>5. ASSUME NEW p \in L, st[p] # "RUNNING"
      PROVE  \E i \in 1..Len(t) : Own(t[i]) /\ t[i].p = p
  <2>1. PICK i \in 1..m : Own(s[i]) /\ s[i].p = p
    BY <1>1, <1>5 DEF Owned
  <2>2. i # 1
    BY <1>2, <2>1
  <2>3. i - 1 \in 1..m - 1 /\ (i - 1) + 1 = i
    BY <1>2, <2>2
  <2>. QED  BY <1>2, <2>1, <2>3
<1>. QED  BY <1>1, <1>3, <1>4, <1>5 DEF Owned

LEMMA OwnedPush ==
  ASSUME NEW s \in Seq(Activation), NEW st, NEW L, Owned(s, st, L),
         NEW f \in Activation, ~Own(f)
  PROVE  Owned(Push(s, f), st, L)
<1>1. PICK t, m : t = Push(s, f) /\ m = Len(s)
  OBVIOUS
<1>2. /\ Len(t) = m + 1 /\ m \in Nat /\ t[1] = f
      /\ \A i \in 1..m : t[i + 1] = s[i] /\ i + 1 \in 1..Len(t)
  <2>1. /\ Len(t) = m + 1 /\ m \in Nat /\ t[1] = f
        /\ \A i \in 1..m : t[i + 1] = s[i]
    BY <1>1, PushFacts
  <2>. QED  BY <2>1
<1>3. ASSUME NEW i \in 1..Len(t), Own(t[i])
      PROVE  i - 1 \in 1..m /\ t[i] = s[i - 1]
  <2>1. i # 1
    BY <1>2, <1>3
  <2>2. i - 1 \in 1..m /\ (i - 1) + 1 = i
    BY <1>2, <2>1
  <2>. QED  BY <1>2, <2>2
<1>4. \A i \in 1..Len(t) : Own(t[i]) => t[i].p \in L /\ st[t[i].p] = Mark(t[i])
  BY <1>1, <1>3 DEF Owned
<1>5. ASSUME NEW i \in 1..Len(t), NEW j \in 1..Len(t), Own(t[i]), Own(t[j]), t[i].p = t[j].p
      PROVE  i = j
  <2>1. i - 1 \in 1..m /\ t[i] = s[i - 1] /\ j - 1 \in 1..m /\ t[j] = s[j - 1]
    BY <1>3, <1>5
  <2>2. \A x, y \in 1..m : Own(s[x]) /\ Own(s[y]) /\ s[x].p = s[y].p => x = y
    BY <1>1 DEF Owned
  <2>3. i - 1 = j - 1
    BY <1>5, <2>1, <2>2
  <2>. QED  BY <2>3, <1>2
<1>6. ASSUME NEW p \in L, st[p] # "RUNNING"
      PROVE  \E i \in 1..Len(t) : Own(t[i]) /\ t[i].p = p
  <2>1. PICK i \in 1..m : Own(s[i]) /\ s[i].p = p
    BY <1>1, <1>6 DEF Owned
  <2>. QED  BY <1>2, <2>1
<1>. QED  BY <1>1, <1>4, <1>5, <1>6 DEF Owned

\* What a process's state may become without a function of its own on the stack.
Marked(st, p, m) == [st EXCEPT ![p] = m]

\* When the function that belongs to p returns and p goes on, p is RUNNING.
LEMMA OwnedPopOwn ==
  ASSUME NEW s \in Seq(Activation), s # <<>>, NEW st \in [Proc -> {"NONE", "RUNNING", "CALLED"}],
         NEW L, L \subseteq Proc, Owned(s, st, L), Own(Head(s))
  PROVE  Owned(Tail(s), Marked(st, Head(s).p, "RUNNING"), L) /\ Head(s).p \in L
<1>1. PICK t, m, f, u : t = Tail(s) /\ m = Len(s) /\ f = Head(s) /\ u = Marked(st, Head(s).p, "RUNNING")
  OBVIOUS
<1>2. /\ Len(t) = m - 1 /\ m \in Nat \ {0} /\ f = s[1]
      /\ \A i \in 1..m - 1 : t[i] = s[i + 1] /\ i + 1 \in 1..m
  BY <1>1, PopFacts
<1>3. f.p \in L /\ f.p \in Proc
  BY <1>1, <1>2 DEF Owned
<1>4. \A p \in Proc : u[p] = IF p = f.p THEN "RUNNING" ELSE st[p]
  BY <1>1 DEF Marked
<1>5. ASSUME NEW i \in 1..Len(t), Own(t[i])
      PROVE  t[i].p \in L /\ t[i].p # f.p /\ st[t[i].p] = Mark(t[i])
  <2>1. i + 1 # 1 /\ i + 1 \in 1..m /\ 1 \in 1..m /\ t[i] = s[i + 1]
    BY <1>2
  <2>2. s[i + 1].p # s[1].p
    BY <1>1, <1>2, <1>5, <2>1 DEF Owned
  <2>. QED  BY <1>1, <1>2, <1>5, <2>1, <2>2 DEF Owned
<1>6. \A i \in 1..Len(t) : Own(t[i]) => t[i].p \in L /\ u[t[i].p] = Mark(t[i])
  BY <1>4, <1>5
<1>7. ASSUME NEW i \in 1..Len(t), NEW j \in 1..Len(t), Own(t[i]), Own(t[j]), t[i].p = t[j].p
      PROVE  i = j
  <2>1. i + 1 = j + 1
    BY <1>1, <1>2, <1>7 DEF Owned
  <2>. QED  BY <2>1, <1>2
<1>8. ASSUME NEW p \in L, u[p] # "RUNNING"
      PROVE  \E i \in 1..Len(t) : Own(t[i]) /\ t[i].p = p
  <2>1. p # f.p /\ st[p] # "RUNNING"
    BY <1>4, <1>8
  <2>2. PICK i \in 1..m : Own(s[i]) /\ s[i].p = p
    BY <1>1, <2>1 DEF Owned
  <2>3. i # 1
    BY <1>2, <2>1, <2>2
  <2>4. i - 1 \in 1..m - 1 /\ (i - 1) + 1 = i
    BY <1>2, <2>3
  <2>. QED  BY <1>2, <2>2, <2>4
<1>9. \A p \in Proc : u[p] # "NONE" => p \in L
  BY <1>3, <1>4 DEF Owned
<1>. QED  BY <1>1, <1>3, <1>6, <1>7, <1>8, <1>9 DEF Owned

\* A function that belongs to a RUNNING process is called and marks it.
LEMMA OwnedPushOwn ==
  ASSUME NEW s \in Seq(Activation), NEW st \in [Proc -> {"NONE", "RUNNING", "CALLED"}],
         NEW L, L \subseteq Proc, Owned(s, st, L),
         NEW f \in Activation, Own(f), NEW p \in Proc, p = f.p, st[p] = "RUNNING",
         NEW mark, mark = Mark(f)
  PROVE  Owned(Push(s, f), Marked(st, p, mark), L)
<1>1. PICK t, m, u : t = Push(s, f) /\ m = Len(s) /\ u = Marked(st, p, mark)
  OBVIOUS
<1>2. /\ Len(t) = m + 1 /\ m \in Nat /\ t[1] = f
      /\ \A i \in 1..m : t[i + 1] = s[i] /\ i + 1 \in 1..Len(t)
  <2>1. /\ Len(t) = m + 1 /\ m \in Nat /\ t[1] = f
        /\ \A i \in 1..m : t[i + 1] = s[i]
    BY <1>1, PushFacts
  <2>. QED  BY <2>1
<1>3. p \in L
  BY DEF Owned
<1>4. \A q \in Proc : u[q] = IF q = p THEN mark ELSE st[q]
  BY <1>1 DEF Marked
<1>5. \A i \in 1..m : Own(s[i]) => s[i].p \in L /\ s[i].p # p /\ st[s[i].p] = Mark(s[i])
  BY <1>1 DEF Owned, Mark
<1>6. ASSUME NEW i \in 1..Len(t), i # 1
      PROVE  i - 1 \in 1..m /\ t[i] = s[i - 1]
  <2>1. i - 1 \in 1..m /\ (i - 1) + 1 = i
    BY <1>2, <1>6
  <2>. QED  BY <1>2, <2>1
<1>7. ASSUME NEW i \in 1..Len(t), Own(t[i])
      PROVE  t[i].p \in L /\ u[t[i].p] = Mark(t[i])
  <2>1. CASE i = 1
    BY <1>2, <1>3, <1>4, <2>1
  <2>2. CASE i # 1
    BY <1>4, <1>5, <1>6, <1>7, <2>2
  <2>. QED  BY <2>1, <2>2
<1>8. ASSUME NEW i \in 1..Len(t), NEW j \in 1..Len(t), Own(t[i]), Own(t[j]), t[i].p = t[j].p
      PROVE  i = j
  <2>1. CASE i # 1 /\ j # 1
    <3>1. i - 1 \in 1..m /\ t[i] = s[i - 1] /\ j - 1 \in 1..m /\ t[j] = s[j - 1]
      BY <1>6, <2>1
    <3>2. \A x, y \in 1..m : Own(s[x]) /\ Own(s[y]) /\ s[x].p = s[y].p => x = y
      BY <1>1 DEF Owned
    <3>3. i - 1 = j - 1
      BY <1>8, <3>1, <3>2
    <3>. QED  BY <1>2, <3>3
  <2>2. ASSUME NEW x \in 1..Len(t), NEW y \in 1..Len(t), x = 1, y # 1, Own(t[y]), t[x].p = t[y].p
        PROVE  FALSE
    <3>1. t[x].p = p
      BY <1>2, <2>2
    <3>2. y - 1 \in 1..m /\ t[y] = s[y - 1]
      BY <1>6, <2>2
    <3>. QED  BY <1>5, <2>2, <3>1, <3>2
  <2>3. i = 1 <=> j = 1
    BY <1>8, <2>2
  <2>. QED  BY <2>1, <2>3
<1>9. ASSUME NEW q \in L, u[q] # "RUNNING"
      PROVE  \E i \in 1..Len(t) : Own(t[i]) /\ t[i].p = q
  <2>1. CASE q = p
    <3>1. 1 \in 1..Len(t)
      BY <1>2
    <3>. QED  BY <1>2, <2>1, <3>1
  <2>2. CASE q # p
    <3>1. st[q] # "RUNNING"
      BY <1>4, <1>9, <2>2
    <3>2. PICK i \in 1..m : Own(s[i]) /\ s[i].p = q
      BY <1>1, <3>1 DEF Owned
    <3>. QED  BY <1>2, <3>2
  <2>. QED  BY <2>1, <2>2
<1>10. \A q \in Proc : u[q] # "NONE" => q \in L
  BY <1>3, <1>4 DEF Owned
<1>. QED  BY <1>1, <1>7, <1>8, <1>9, <1>10 DEF Owned

\* process_start puts a process on the list, to run.
LEMMA OwnedEnter ==
  ASSUME NEW s \in Seq(Activation), NEW st \in [Proc -> {"NONE", "RUNNING", "CALLED"}],
         NEW L, L \subseteq Proc, Owned(s, st, L), NEW p \in Proc, p \notin L
  PROVE  Owned(s, Marked(st, p, "RUNNING"), {p} \cup L)
<1>1. PICK u, K : u = Marked(st, p, "RUNNING") /\ K = {p} \cup L
  OBVIOUS
<1>2. \A q \in Proc : u[q] = IF q = p THEN "RUNNING" ELSE st[q]
  BY <1>1 DEF Marked
<1>3. \A i \in 1..Len(s) : Own(s[i]) => s[i].p \in K /\ u[s[i].p] = Mark(s[i])
  BY <1>1, <1>2 DEF Owned
<1>4. \A q \in Proc : u[q] # "NONE" => q \in K
  BY <1>1, <1>2 DEF Owned
<1>5. \A q \in K : u[q] # "RUNNING" => \E i \in 1..Len(s) : Own(s[i]) /\ s[i].p = q
  BY <1>1, <1>2 DEF Owned
<1>. QED  BY <1>1, <1>3, <1>4, <1>5 DEF Owned

\* exit_process takes one off it, when none of its functions are active.
LEMMA OwnedLeave ==
  ASSUME NEW s \in Seq(Activation), NEW st \in [Proc -> {"NONE", "RUNNING", "CALLED"}],
         NEW L, L \subseteq Proc, Owned(s, st, L), NEW p \in Proc, st[p] = "RUNNING"
  PROVE  Owned(s, Marked(st, p, "NONE"), L \ {p})
<1>1. PICK u, K : u = Marked(st, p, "NONE") /\ K = L \ {p}
  OBVIOUS
<1>2. \A q \in Proc : u[q] = IF q = p THEN "NONE" ELSE st[q]
  BY <1>1 DEF Marked
<1>3. \A i \in 1..Len(s) : Own(s[i]) => s[i].p \in K /\ u[s[i].p] = Mark(s[i])
  BY <1>1, <1>2 DEF Owned, Mark
<1>4. \A q \in Proc : u[q] # "NONE" => q \in K
  BY <1>1, <1>2 DEF Owned
<1>5. \A q \in K : u[q] # "RUNNING" => \E i \in 1..Len(s) : Own(s[i]) /\ s[i].p = q
  BY <1>1, <1>2 DEF Owned
<1>. QED  BY <1>1, <1>3, <1>4, <1>5 DEF Owned

(***************************************************************************)
(* Type correctness                                                         *)
(***************************************************************************)
LEMMA Kinds ==
  ASSUME NEW f \in Activation
  PROVE  /\ f.fn \in {"process_run", "do_poll", "do_event", "deliver",
                      "thread", "exit_process", "unlink", "last"}
         /\ f.fn \in {"do_poll", "do_event", "deliver", "exit_process"} => f.q \in Pointer
         /\ f.fn \in {"do_event", "deliver"} => f.n \in Nat
         /\ f.fn \in {"thread", "exit_process", "unlink", "last"} => f.p \in Proc
         /\ f.fn = "thread" => f.old \in Pointer \cup {"keep"}
         /\ f.fn \in {"exit_process", "unlink"} => f.old \in Pointer
         /\ f.fn = "exit_process" => f.from \in Pointer
<1>1. CASE f \in [fn : {"process_run"}, at : {"poll", "event"}]
  BY <1>1
<1>2. CASE f \in [fn : {"do_poll"}, q : Pointer]
  BY <1>2
<1>3. CASE f \in [fn : {"do_event", "deliver"}, q : Pointer, n : Nat]
  BY <1>3
<1>4. CASE f \in [fn : {"thread"}, p : Proc, ev : Event, old : Pointer \cup {"keep"}]
  BY <1>4
<1>5. CASE f \in [fn : {"exit_process"}, p : Proc, q : Pointer, from : Pointer, old : Pointer]
  BY <1>5
<1>6. CASE f \in [fn : {"unlink"}, p : Proc, old : Pointer]
  BY <1>6
<1>7. CASE f \in [fn : {"last"}, p : Proc]
  BY <1>7
<1>. QED  BY <1>1, <1>2, <1>3, <1>4, <1>5, <1>6, <1>7 DEF Activation

LEMMA Makes ==
  /\ Run("poll") \in Activation /\ Run("event") \in Activation
  /\ \A q \in Pointer : Poll(q) \in Activation
  /\ \A q \in Pointer, n \in Nat : Broadcast(q, n) \in Activation /\ Deliver(q, n) \in Activation
  /\ \A p \in Proc, ev \in Event, old \in Pointer \cup {"keep"} : Thread(p, ev, old) \in Activation
  /\ \A p \in Proc, q, from, old \in Pointer : Exiting(p, q, from, old) \in Activation
  /\ \A p \in Proc, old \in Pointer : Unlinking(p, old) \in Activation
  /\ \A p \in Proc : Last(p) \in Activation
<1>1. Run("poll") \in Activation /\ Run("event") \in Activation
  BY DEF Run, Activation
<1>2. \A q \in Pointer : Poll(q) \in Activation
  BY DEF Poll, Activation
<1>3. \A q \in Pointer, n \in Nat : Broadcast(q, n) \in Activation /\ Deliver(q, n) \in Activation
  BY DEF Broadcast, Deliver, Activation
<1>4. \A p \in Proc, ev \in Event, old \in Pointer \cup {"keep"} : Thread(p, ev, old) \in Activation
  BY DEF Thread, Activation
<1>5. \A p \in Proc, q, from, old \in Pointer : Exiting(p, q, from, old) \in Activation
  BY DEF Exiting, Activation
<1>6. \A p \in Proc, old \in Pointer : Unlinking(p, old) \in Activation
  BY DEF Unlinking, Activation
<1>7. \A p \in Proc : Last(p) \in Activation
  BY DEF Last, Activation
<1>. QED  BY <1>1, <1>2, <1>3, <1>4, <1>5, <1>6, <1>7

\* Turning to the next process leaves the rest of exit_process's locals alone.
LEMMA Visits ==
  ASSUME NEW f \in Activation, f.fn = "exit_process", NEW q \in Pointer
  PROVE  [f EXCEPT !.q = q] = Exiting(f.p, q, f.from, f.old)
<1>1. f \in [fn : {"exit_process"}, p : Proc, q : Pointer, from : Pointer, old : Pointer]
  BY DEF Activation
<1>2. PICK p \in Proc, r \in Pointer, from \in Pointer, old \in Pointer :
        f = [fn |-> "exit_process", p |-> p, q |-> r, from |-> from, old |-> old]
  BY <1>1
<1>. QED  BY <1>2 DEF Exiting

-----------------------------------------------------------------------------
(* The process list.                                                        *)

ListType == head \in Pointer /\ next \in [Proc -> Pointer]

LEMMA FromType ==
  ASSUME ListType
  PROVE  /\ \A p \in Pointer : From(p) \subseteq Proc
         /\ From(NULL) = {}
         /\ \A p \in Proc : From(p) = {p} \cup From(next[p])
         /\ \A p \in Pointer : \A q \in From(p) : next[q] \in From(p) \cup {NULL}
         /\ \A p \in Proc : p \in From(p)
<1>0. next \in [Proc -> Pointer]
  BY DEF ListType
<1>1. \A p \in Pointer : From(p) \subseteq Proc
  BY <1>0, FromIsWalk, WalkFacts
<1>2. From(NULL) = {}
  BY <1>0, FromIsWalk, WalkFromNull
<1>3. \A p \in Proc : From(p) = {p} \cup From(next[p])
  BY <1>0, FromIsWalk, WalkUnfold
<1>4. \A p \in Pointer : \A q \in From(p) : next[q] \in From(p) \cup {NULL}
  BY <1>0, FromIsWalk, WalkFacts
<1>. QED  BY <1>1, <1>2, <1>3, <1>4

\* Every step leaves the list alone, puts one process in front or takes one off.
Inserts(r) == IsInserted(next, head, r, next') /\ head' = r
Removes(r) == IsRemoved(next, head, r, next', head')

LEMMA UnlinkRemoves ==
  ASSUME NEW r, Unlink(r)
  PROVE  Removes(r)
<1>1. PICK L : L = From(head)
  OBVIOUS
<1>2. L = Walk(next, head)
  BY <1>1, FromIsWalk
<1>3. /\ head' = IF head = r THEN next[r] ELSE head
      /\ next' = [q \in Proc |-> IF head # r /\ q \in L /\ next[q] = r THEN next[r] ELSE next[q]]
  BY <1>1 DEF Unlink
<1>. QED  BY <1>2, <1>3 DEF Removes, IsRemoved

LEMMA StartInserts ==
  ASSUME NEW r, NEW rest, Startable(r), start(r, rest)
  PROVE  Inserts(r)
<1>1. From(head) = Walk(next, head)
  BY FromIsWalk
<1>. QED  BY <1>1 DEF Startable, start, OnList, Inserts, IsInserted

LEMMA TopType ==
  ASSUME stack \in Seq(Activation), stack # <<>>
  PROVE  top \in Activation /\ callers \in Seq(Activation)
BY PopFacts DEF top, callers

\* Only these actions change the list.
LEMMA ListChanges ==
  ASSUME stack \in Seq(Activation), stack # <<>>, boot \in Seq(Proc), [Next]_vars
  PROVE  \/ UNCHANGED list
         \/ \E r \in Proc : Inserts(r) \/ Removes(r)
<1>1. CASE AutostartNext
  <2>1. Head(boot) \in Proc
    BY <1>1 DEF AutostartNext
  <2>2. UNCHANGED list \/ (Startable(Head(boot)) /\ start(Head(boot), stack))
    BY <1>1 DEF AutostartNext
  <2>. QED  BY <2>1, <2>2, StartInserts
<1>2. CASE Leave
  <2>1. top.p \in Proc /\ Unlink(top.p)
    BY <1>2, TopType, Kinds DEF Leave
  <2>. QED  BY <2>1, UnlinkRemoves
<1>3. CASE End
  <2>1. top.p \in Proc /\ (UNCHANGED list \/ Unlink(top.p))
    BY <1>3, TopType, Kinds DEF End
  <2>. QED  BY <2>1, UnlinkRemoves
<1>4. ASSUME NEW p \in Proc, Start(p)
      PROVE  Inserts(p)
  BY <1>4, StartInserts DEF Start
<1>5. CASE RunPolls \/ PollNext \/ RunEvent \/ BroadcastNext \/ BroadcastDeliver \/ TellOthers
  BY <1>5 DEF RunPolls, PollNext, RunEvent, BroadcastNext, BroadcastDeliver, TellOthers, list
<1>6. CASE CallRefused \/ Yield \/ ReturnLast
  BY <1>6 DEF CallRefused, Yield, ReturnLast, list
<1>7. CASE \E to \in Pointer : Post(to)
  BY <1>7 DEF Post, list
<1>8. ASSUME NEW p \in Proc, PostSynch(p) \/ PollFromThread(p) \/ Exit(p) \/ Interrupt(p)
      PROVE  UNCHANGED list
  BY <1>8 DEF PostSynch, PollFromThread, Exit, Interrupt, list
<1>9. CASE UNCHANGED vars
  BY <1>9 DEF vars, list
<1>. QED  BY <1>1, <1>2, <1>3, <1>4, <1>5, <1>6, <1>7, <1>8, <1>9 DEF Next, Kernel, Calls

LEMMA EndsIsListEnds == (ListEnds <=> Ends(next)) /\ (ListEnds' <=> Ends(next'))
BY FromIsWalk DEF ListEnds, Ends

\* The list stays a list.
LEMMA ListStep ==
  ASSUME ListType, ListEnds, stack \in Seq(Activation), stack # <<>>, boot \in Seq(Proc),
         [Next]_vars
  PROVE  ListType' /\ ListEnds'
<1>0. head \in Pointer /\ next \in [Proc -> Pointer] /\ Ends(next)
  BY EndsIsListEnds DEF ListType
<1>1. CASE UNCHANGED list
  BY <1>1, EndsIsListEnds DEF list, ListType
<1>2. ASSUME NEW r \in Proc, Inserts(r)
      PROVE  ListType' /\ ListEnds'
  <2>1. IsInserted(next, head, r, next') /\ head' = r
    BY <1>2 DEF Inserts
  <2>2. next' \in [Proc -> Pointer]
    BY <1>0, <2>1, Insert
  <2>3. Ends(next')
    BY <1>0, <2>1, InsertEnds
  <2>. QED  BY <2>1, <2>2, <2>3, EndsIsListEnds DEF ListType, Pointer
<1>3. ASSUME NEW r \in Proc, Removes(r)
      PROVE  ListType' /\ ListEnds'
  <2>1. IsRemoved(next, head, r, next', head')
    BY <1>3 DEF Removes
  <2>2. next' \in [Proc -> Pointer] /\ head' \in Pointer /\ Ends(next')
    BY <1>0, <2>1, Remove
  <2>. QED  BY <2>2, EndsIsListEnds DEF ListType
<1>. QED  BY <1>1, <1>2, <1>3, ListChanges

(***************************************************************************)
(* The stack                                                                *)
(***************************************************************************)
RunType ==
  /\ state \in [Proc -> {"NONE", "RUNNING", "CALLED"}]
  /\ current \in Pointer
  /\ stack \in Seq(Activation)

\* process_current is right for s.
Executing(s, c) == Head(s).fn \in {"thread", "last"} => c = Head(s).p

Nested(s) == s \in Seq(Activation) /\ WellNested(s)

\* What every action has to establish.
StackGood(s, c) == Nested(s) /\ c \in Pointer /\ Executing(s, c)

LEMMA NestedTop ==
  ASSUME NEW s, Nested(s)
  PROVE  s # <<>> /\ Head(s) \in Activation /\ Tail(s) \in Seq(Activation)
BY PopFacts DEF Nested, WellNested

LEMMA NestedCall ==
  ASSUME NEW s, Nested(s), NEW f \in Activation, Fits(Head(s), f)
  PROVE  Nested(Push(s, f)) /\ Head(Push(s, f)) = f /\ Tail(Push(s, f)) = s
BY NestedPush, PushFacts DEF Nested

LEMMA Returns ==
  ASSUME NEW s, Nested(s), Head(s).fn # "process_run"
  PROVE  Nested(Tail(s)) /\ Fits(Head(Tail(s)), Head(s))
BY NestedPop DEF Nested

LEMMA Bottom ==
  ASSUME NEW s, Nested(s), Head(s).fn = "process_run", NEW f \in Activation,
         f.fn = "process_run"
  PROVE  Nested(Push(Tail(s), f)) /\ Head(Push(Tail(s), f)) = f /\ Tail(s) = <<>>
<1>1. Len(s) = 1 /\ s \in Seq(Activation)
  BY NestedKernel DEF Kernels, Nested
<1>2. Tail(s) = <<>>
  <2>1. PICK u : u = Tail(s)
    OBVIOUS
  <2>2. u \in Seq(Activation) /\ Len(u) = 0
    BY <1>1, <2>1, PopFacts
  <2>3. u = <<>>
    BY <2>2
  <2>. QED  BY <2>1, <2>3
<1>3. PICK t : t = Push(Tail(s), f)
  OBVIOUS
<1>4. t \in Seq(Activation) /\ t # <<>> /\ Len(t) = 1 /\ t[1] = f /\ Head(t) = f
  <2>1. PICK u : u = Tail(s)
    OBVIOUS
  <2>2. u \in Seq(Activation) /\ Len(u) = 0
    BY <1>1, <2>1, PopFacts
  <2>3. t = Push(u, f)
    BY <1>3, <2>1
  <2>4. t \in Seq(Activation) /\ t # <<>> /\ Len(t) = Len(u) + 1 /\ t[1] = f /\ Head(t) = f
    BY <2>2, <2>3, PushFacts
  <2>. QED  BY <2>2, <2>4
<1>5. WellNested(t)
  BY <1>4 DEF WellNested
<1>. QED  BY <1>2, <1>3, <1>4, <1>5 DEF Nested

\* call_process, from the function on top of rest.
LEMMA CallProcess ==
  ASSUME RunType, NEW p \in Proc, NEW ev \in Event, NEW old \in Pointer \cup {"keep"},
         NEW rest, StackGood(rest, current), call_process(p, ev, old, rest),
         Fits(Head(rest), Thread(p, ev, old))
  PROVE  StackGood(stack', current') /\ RunType'
<1>1. CASE Callable(p)
  <2>1. /\ state' = [state EXCEPT ![p] = "CALLED"] /\ current' = p
        /\ stack' = Push(rest, Thread(p, ev, old))
    BY <1>1 DEF call_process, Push
  <2>2. Nested(stack') /\ Head(stack') = Thread(p, ev, old)
    BY <2>1, Makes, NestedCall DEF StackGood
  <2>3. Executing(stack', current')
    BY <2>1, <2>2 DEF Executing, Thread
  <2>. QED  BY <2>1, <2>2, <2>3 DEF StackGood, RunType, Nested, Pointer
<1>2. CASE ~Callable(p)
  BY <1>2 DEF call_process, StackGood, RunType, Nested
<1>. QED  BY <1>1, <1>2

\* process_start, from process_run or a thread.
LEMMA StartStack ==
  ASSUME RunType, StackGood(stack, current), NEW p \in Proc, start(p, stack),
         top.fn \in {"process_run", "thread", "last"}
  PROVE  StackGood(stack', current') /\ RunType'
<1>1. /\ state' = [state EXCEPT ![p] = "CALLED"] /\ current' = p
      /\ stack' = Push(stack, Thread(p, "INIT", current))
  BY DEF start, Push
<1>2. Fits(top, Thread(p, "INIT", current))
  BY DEF Fits, Thread, Own, StackGood, Executing, top
<1>3. Nested(stack') /\ Head(stack') = Thread(p, "INIT", current)
  BY <1>1, <1>2, Makes, NestedCall DEF StackGood, Event, top
<1>4. Executing(stack', current')
  BY <1>1, <1>3 DEF Executing, Thread
<1>. QED  BY <1>1, <1>3, <1>4 DEF StackGood, RunType, Nested, Pointer

Basic == RunType /\ ListType /\ StackGood(stack, current)

LEMMA BasicTop ==
  ASSUME Basic
  PROVE  /\ stack \in Seq(Activation) /\ stack # <<>> /\ Nested(stack)
         /\ top \in Activation /\ callers \in Seq(Activation)
         /\ top.fn # "process_run" => Nested(callers) /\ Fits(Head(callers), top)
         /\ From(head) \subseteq Proc
BY NestedTop, Returns, FromType DEF Basic, StackGood, Nested, top, callers, ListType

LEMMA RunPollsStack ==
  ASSUME Basic, RunPolls
  PROVE  StackGood(stack', current') /\ RunType'
<1>1. top.fn = "process_run"
  BY DEF RunPolls, Run
<1>2. PICK s : s = Push(callers, Run("event"))
  OBVIOUS
<1>3. Nested(s) /\ Head(s) = Run("event")
  BY <1>1, <1>2, BasicTop, Bottom, Makes DEF Run, top, callers
<1>4. stack' = s \/ stack' = Push(s, Poll(NULL))
  BY <1>2 DEF RunPolls, do_poll, Push
<1>5. Nested(Push(s, Poll(NULL))) /\ Head(Push(s, Poll(NULL))) = Poll(NULL)
  BY <1>3, NestedCall, Makes DEF Fits, Run, Poll, Pointer
<1>6. Nested(stack') /\ Head(stack').fn \in {"process_run", "do_poll"}
  BY <1>3, <1>4, <1>5 DEF Run, Poll
<1>7. UNCHANGED <<state, current>>
  BY DEF RunPolls
<1>. QED  BY <1>6, <1>7 DEF StackGood, Executing, RunType, Basic, Nested

LEMMA PollNextStack ==
  ASSUME Basic, PollNext
  PROVE  StackGood(stack', current') /\ RunType'
<1>. DEFINE p == After(top.q)
<1>1. top.fn = "do_poll" /\ p \in Pointer /\ Nested(callers) /\ Fits(Head(callers), top)
      /\ callers \in Seq(Activation) /\ current \in Pointer
  BY BasicTop, Kinds DEF PollNext, Basic, ListType, After, Pointer, RunType
<1>2. Head(callers).fn \notin {"thread", "last", "do_poll"}
  BY <1>1 DEF Fits
<1>3. CASE p = NULL /\ stack' = callers /\ UNCHANGED <<state, current>>
  BY <1>1, <1>2, <1>3 DEF StackGood, Executing, RunType, Basic
<1>s. PICK s : s = Push(callers, Poll(p))
  OBVIOUS
<1>4. Nested(s) /\ Head(s) = Poll(p)
  <2>1. Fits(Head(callers), Poll(p))
    BY <1>1, <1>2 DEF Fits, Poll
  <2>. QED  BY <1>1, <1>s, <2>1, NestedCall, Makes
<1>5. CASE stack' = s /\ UNCHANGED <<state, current>>
  BY <1>1, <1>4, <1>5 DEF StackGood, Executing, RunType, Basic, Nested, Poll
<1>6. CASE /\ p # NULL /\ state' = [state EXCEPT ![p] = "CALLED"] /\ current' = p
           /\ stack' = <<Thread(p, "POLL", "keep"), Poll(p)>> \o callers
  <2>1. p \in Proc
    BY <1>1, <1>6 DEF Pointer
  <2>2. Thread(p, "POLL", "keep") \in Activation /\ Poll(p) \in Activation
    BY <1>1, <2>1, Makes DEF Event
  <2>3. stack' = Push(s, Thread(p, "POLL", "keep"))
    BY <1>1, <1>6, <1>s, <2>2, PushTwo
  <2>4. Fits(Head(s), Thread(p, "POLL", "keep"))
    BY <1>4 DEF Fits, Own, Thread, Poll
  <2>5. Nested(stack') /\ Head(stack') = Thread(p, "POLL", "keep")
    BY <1>4, <2>2, <2>3, <2>4, NestedCall
  <2>. QED  BY <1>1, <1>6, <2>1, <2>5 DEF StackGood, Executing, RunType, Basic, Nested, Thread
<1>. QED  BY <1>3, <1>5, <1>6, <1>s DEF PollNext, Push

LEMMA RunEventStack ==
  ASSUME Basic, RunEvent, RingInv
  PROVE  StackGood(stack', current') /\ RunType'
<1>1. top.fn = "process_run" /\ current \in Pointer
  BY DEF RunEvent, Run, Basic, RunType
<1>2. PICK s : s = Push(callers, Run("poll"))
  OBVIOUS
<1>3. Nested(s) /\ Head(s) = Run("poll") /\ callers \in Seq(Activation)
  BY <1>1, <1>2, BasicTop, Bottom, Makes DEF Run, top, callers
<1>4. StackGood(s, current)
  BY <1>1, <1>3 DEF StackGood, Executing, Run
<1>5. CASE stack' = s /\ UNCHANGED <<state, current>>
  BY <1>4, <1>5 DEF StackGood, RunType, Basic, Nested
<1>e. events[fevent].to \in Pointer /\ events[fevent].n \in Nat
  <2>1. events[fevent] \in Items
    BY DEF RingInv
  <2>. QED  BY <2>1, ProcessAssumption DEF Items
<1>6. CASE /\ stack' = <<Broadcast(NULL, events[fevent].n), Run("poll")>> \o callers
           /\ UNCHANGED <<state, current>>
  <2>1. PICK f : f = Broadcast(NULL, events[fevent].n)
    OBVIOUS
  <2>2. f \in Activation /\ f.fn = "do_event"
    BY <1>e, <2>1, Makes DEF Broadcast, Pointer
  <2>3. stack' = Push(s, f)
    BY <1>2, <1>3, <1>6, <2>1, <2>2, PushTwo, Makes
  <2>4. Nested(stack') /\ Head(stack') = f
    BY <1>3, <2>2, <2>3, NestedCall DEF Fits, Run
  <2>. QED  BY <1>1, <1>6, <2>2, <2>4 DEF StackGood, Executing, RunType, Basic, Nested
<1>7. CASE events[fevent].to # NULL /\ call_process(events[fevent].to, "msg", "keep", s)
  <2>1. PICK p : p = events[fevent].to
    OBVIOUS
  <2>2. p \in Proc /\ call_process(p, "msg", "keep", s)
    BY <1>7, <1>e, <2>1 DEF Pointer
  <2>3. Fits(Head(s), Thread(p, "msg", "keep"))
    BY <1>3 DEF Fits, Run, Thread
  <2>. QED  BY <1>4, <2>2, <2>3, CallProcess DEF Basic, Event
<1>8. \/ stack' = s /\ UNCHANGED <<state, current>>
      \/ /\ stack' = <<Broadcast(NULL, events[fevent].n), Run("poll")>> \o callers
         /\ UNCHANGED <<state, current>>
      \/ events[fevent].to # NULL /\ call_process(events[fevent].to, "msg", "keep", s)
  BY <1>2 DEF RunEvent, Push
<1>. QED  BY <1>5, <1>6, <1>7, <1>8

LEMMA BroadcastNextStack ==
  ASSUME Basic, BroadcastNext
  PROVE  StackGood(stack', current') /\ RunType'
<1>1. /\ top.fn = "do_event" /\ After(top.q) \in Pointer /\ Nested(callers)
      /\ Fits(Head(callers), top) /\ callers \in Seq(Activation) /\ current \in Pointer
      /\ top.n \in Nat
  BY BasicTop, Kinds DEF BroadcastNext, Basic, ListType, After, Pointer, RunType
<1>2. Head(callers).fn = "process_run"
  BY <1>1 DEF Fits
<1>3. UNCHANGED <<state, current>>
  BY DEF BroadcastNext
<1>4. PICK f : f = Deliver(After(top.q), top.n)
  OBVIOUS
<1>5. f \in Activation /\ f.fn = "deliver" /\ f.q = After(top.q)
  BY <1>1, <1>4, Makes DEF Deliver
<1>s. PICK s : s = Push(callers, f)
  OBVIOUS
<1>6. After(top.q) # NULL => Nested(s) /\ Head(s) = f
  BY <1>1, <1>2, <1>5, <1>s, NestedCall DEF Fits
<1>7. After(top.q) # NULL =>
        Nested(Push(s, Poll(NULL))) /\ Head(Push(s, Poll(NULL))) = Poll(NULL)
  BY <1>5, <1>6, NestedCall, Makes DEF Fits, Poll, Pointer
<1>8. \/ stack' = callers
      \/ After(top.q) # NULL /\ (stack' = s \/ stack' = Push(s, Poll(NULL)))
  BY <1>4, <1>s DEF BroadcastNext, do_poll, Push, Picked
<1>9. Nested(stack') /\ Head(stack').fn \in {"process_run", "deliver", "do_poll"}
  BY <1>1, <1>2, <1>5, <1>6, <1>7, <1>8 DEF Poll
<1>. QED  BY <1>3, <1>9 DEF StackGood, Executing, RunType, Basic, Nested

LEMMA BroadcastDeliverStack ==
  ASSUME Basic, BroadcastDeliver
  PROVE  StackGood(stack', current') /\ RunType'
<1>1. /\ top.fn = "deliver" /\ top.q \in Proc /\ Nested(callers)
      /\ Fits(Head(callers), top) /\ callers \in Seq(Activation) /\ current \in Pointer
      /\ top.n \in Nat
  BY BasicTop, Kinds DEF BroadcastDeliver, Basic, Pointer, RunType, Fits
<1>2. Head(callers).fn = "process_run"
  BY <1>1 DEF Fits
<1>3. PICK s : s = Push(callers, Broadcast(top.q, top.n))
  OBVIOUS
<1>4. Nested(s) /\ Head(s) = Broadcast(top.q, top.n)
  <2>1. Fits(Head(callers), Broadcast(top.q, top.n))
    BY <1>2 DEF Fits, Broadcast
  <2>. QED  BY <1>1, <1>3, <2>1, NestedCall, Makes DEF Pointer
<1>5. StackGood(s, current)
  BY <1>1, <1>4 DEF StackGood, Executing, Broadcast
<1>6. call_process(top.q, "msg", "keep", s)
  BY <1>3 DEF BroadcastDeliver, Push
<1>7. Fits(Head(s), Thread(top.q, "msg", "keep"))
  BY <1>4 DEF Fits, Broadcast, Thread, Own
<1>. QED  BY <1>1, <1>5, <1>6, <1>7, CallProcess DEF Basic, Event

\* exit_process goes on with the next process, or with its last lines.
LEMMA ExitingGoesOn ==
  ASSUME Basic, top.fn = "exit_process", NEW f \in Activation,
         f.fn \in {"exit_process", "unlink"}, f.p = top.p, f.old = top.old
  PROVE  StackGood(Push(callers, f), current) /\ Head(Push(callers, f)) = f
<1>1. Nested(callers) /\ Fits(Head(callers), top) /\ current \in Pointer
  BY BasicTop DEF Basic, RunType
<1>2. Fits(Head(callers), f)
  BY <1>1 DEF Fits, Own
<1>3. Nested(Push(callers, f)) /\ Head(Push(callers, f)) = f
  BY <1>1, <1>2, NestedCall
<1>. QED  BY <1>1, <1>3 DEF StackGood, Executing

LEMMA TellOthersStack ==
  ASSUME Basic, TellOthers
  PROVE  StackGood(stack', current') /\ RunType'
<1>. DEFINE q == After(top.q)
<1>1. /\ top.fn = "exit_process" /\ top.p \in Proc /\ q \in Pointer /\ top.old \in Pointer
      /\ top.from \in Pointer /\ callers \in Seq(Activation) /\ current \in Pointer
      /\ top \in Activation
  BY BasicTop, Kinds DEF TellOthers, Basic, ListType, After, Pointer, RunType
<1>f. PICK f : f = Exiting(top.p, q, top.from, top.old)
  OBVIOUS
<1>g. PICK g : g = Unlinking(top.p, top.old)
  OBVIOUS
<1>2. f \in Activation /\ f.fn = "exit_process" /\ f.p = top.p /\ f.old = top.old
  BY <1>1, <1>f, Makes DEF Exiting
<1>3. g \in Activation /\ g.fn = "unlink" /\ g.p = top.p /\ g.old = top.old
  BY <1>1, <1>g, Makes DEF Unlinking
<1>s. PICK s : s = Push(callers, f)
  OBVIOUS
<1>t. PICK t : t = Push(callers, g)
  OBVIOUS
<1>4. StackGood(s, current) /\ Head(s) = f
  BY <1>1, <1>2, <1>s, ExitingGoesOn
<1>5. StackGood(t, current) /\ Head(t) = g
  BY <1>1, <1>3, <1>t, ExitingGoesOn
<1>6. <<[top EXCEPT !.q = q]>> \o callers = s
  <2>1. [top EXCEPT !.q = q] = f
    BY <1>1, <1>f, Visits
  <2>. QED  BY <2>1, <1>s DEF Push
<1>7. CASE q # NULL /\ call_process(q, "EXITED", "keep", s)
  <2>1. q \in Proc
    BY <1>1, <1>7 DEF Pointer
  <2>2. Fits(Head(s), Thread(q, "EXITED", "keep"))
    BY <1>2, <1>4 DEF Fits, Thread
  <2>. QED  BY <1>4, <1>7, <2>1, <2>2, CallProcess DEF Basic, Event
<1>8. CASE stack' = s /\ UNCHANGED <<state, current>>
  BY <1>4, <1>8 DEF StackGood, RunType, Basic, Nested
<1>9. CASE stack' = t /\ UNCHANGED <<state, current>>
  BY <1>5, <1>9 DEF StackGood, RunType, Basic, Nested
<1>10. CASE /\ current' = top.p /\ state' = state
            /\ stack' = <<Last(top.p), Unlinking(top.p, top.old)>> \o callers
  <2>1. Last(top.p) \in Activation
    BY <1>1, Makes
  <2>2. stack' = Push(t, Last(top.p))
    BY <1>1, <1>3, <1>10, <1>g, <1>t, <2>1, PushTwo
  <2>3. Fits(Head(t), Last(top.p))
    BY <1>3, <1>5 DEF Fits, Last
  <2>4. Nested(stack') /\ Head(stack') = Last(top.p)
    BY <1>5, <2>1, <2>2, <2>3, NestedCall DEF StackGood
  <2>. QED  BY <1>1, <1>10, <2>4 DEF StackGood, Executing, RunType, Basic, Nested, Last, Pointer
<1>11. \/ q # NULL /\ call_process(q, "EXITED", "keep", s)
       \/ stack' = s /\ UNCHANGED <<state, current>>
       \/ stack' = t /\ UNCHANGED <<state, current>>
       \/ /\ current' = top.p /\ state' = state
          /\ stack' = <<Last(top.p), Unlinking(top.p, top.old)>> \o callers
  <2>. PICK v : v = <<[top EXCEPT !.q = q]>> \o callers
    OBVIOUS
  <2>1. v = s
    BY <1>6
  <2>2. \/ q # NULL /\ call_process(q, "EXITED", "keep", v)
        \/ stack' = v /\ UNCHANGED <<state, current>>
        \/ stack' = t /\ UNCHANGED <<state, current>>
        \/ /\ current' = top.p /\ state' = state
           /\ stack' = <<Last(top.p), Unlinking(top.p, top.old)>> \o callers
    BY <1>g, <1>t DEF TellOthers, Push
  <2>. QED  BY <2>1, <2>2
<1>. QED  BY <1>7, <1>8, <1>9, <1>10, <1>11

LEMMA LeaveStack ==
  ASSUME Basic, Leave
  PROVE  StackGood(stack', current') /\ RunType'
<1>1. /\ top.fn = "unlink" /\ top.p \in Proc /\ top.old \in Pointer /\ Nested(callers)
      /\ Fits(Head(callers), top)
  BY BasicTop, Kinds DEF Leave
<1>2. stack' = callers /\ current' = top.old /\ state' = state
  BY DEF Leave
<1>3. Executing(callers, top.old)
  BY <1>1 DEF Executing, Fits
<1>. QED  BY <1>1, <1>2, <1>3 DEF StackGood, RunType, Basic, Nested

\* process_current as a thread that is called finds it again.
LEMMA RestoredFits ==
  ASSUME Basic, top.fn = "thread"
  PROVE  /\ Restored \in Pointer /\ top.p \in Proc
         /\ Nested(callers) /\ Fits(Head(callers), top) /\ Executing(callers, Restored)
         /\ Head(callers).fn \in {"thread", "last"} => Restored = top.old
<1>1. /\ top.p \in Proc /\ top.old \in Pointer \cup {"keep"} /\ Nested(callers)
      /\ Fits(Head(callers), top) /\ current \in Pointer /\ Head(callers) \in Activation
  BY BasicTop, NestedTop, Kinds DEF Basic, RunType
<1>2. Restored \in Pointer
  BY <1>1 DEF Restored
<1>3. ASSUME Head(callers).fn \in {"thread", "last"}
      PROVE  Restored = top.old /\ top.old = Head(callers).p
  <2>1. top.old = Head(callers).p /\ Head(callers).p \in Proc
    BY <1>1, <1>3, Kinds DEF Fits
  <2>2. top.old # "keep"
    BY <2>1, ProcessAssumption
  <2>. QED  BY <2>1, <2>2 DEF Restored
<1>. QED  BY <1>1, <1>2, <1>3 DEF Executing

LEMMA YieldStack ==
  ASSUME Basic, Yield
  PROVE  StackGood(stack', current') /\ RunType'
<1>1. /\ top.fn = "thread" /\ stack' = callers /\ current' = Restored
      /\ state' = [state EXCEPT ![top.p] = "RUNNING"]
  BY DEF Yield
<1>. QED  BY <1>1, RestoredFits DEF StackGood, RunType, Basic, Nested

LEMMA EndStack ==
  ASSUME Basic, End
  PROVE  StackGood(stack', current') /\ RunType'
<1>1. top.fn = "thread" /\ current \in Pointer
  BY DEF End, Basic, RunType
<1>2. CASE stack' = callers /\ current' = Restored /\ state' = state
  BY <1>1, <1>2, RestoredFits DEF StackGood, RunType, Basic, Nested
<1>3. CASE exit_process(top.p, top.p, Restored, callers) /\ current' = current
  <2>1. PICK f : f = Exiting(top.p, NULL, top.p, Restored)
    OBVIOUS
  <2>2. f \in Activation /\ f.fn = "exit_process" /\ f.p = top.p /\ f.old = Restored
    BY <1>1, <2>1, RestoredFits, Makes DEF Exiting, Pointer
  <2>3. stack' = Push(callers, f) /\ state' = [state EXCEPT ![top.p] = "NONE"]
    BY <1>3, <2>1 DEF exit_process, Push
  <2>4. Fits(Head(callers), f)
    BY <1>1, <2>2, RestoredFits DEF Fits, Own
  <2>5. Nested(stack') /\ Head(stack') = f
    BY <1>1, <2>2, <2>3, <2>4, RestoredFits, NestedCall
  <2>. QED  BY <1>1, <1>3, <2>2, <2>3, <2>5 DEF StackGood, Executing, RunType, Basic, Nested
<1>. QED  BY <1>2, <1>3 DEF End

LEMMA ReturnLastStack ==
  ASSUME Basic, ReturnLast
  PROVE  StackGood(stack', current') /\ RunType'
<1>1. top.fn = "last" /\ stack' = callers /\ UNCHANGED <<state, current>>
  BY DEF ReturnLast
<1>2. Nested(callers) /\ Head(callers).fn = "unlink"
  BY <1>1, BasicTop DEF Fits
<1>. QED  BY <1>1, <1>2 DEF StackGood, Executing, RunType, Basic, Nested

LEMMA PostSynchStack ==
  ASSUME Basic, NEW p \in Proc, PostSynch(p)
  PROVE  StackGood(stack', current') /\ RunType'
<1>1. /\ top.fn \in {"thread", "last"} /\ call_process(p, "msg", current, stack)
      /\ current \in Pointer /\ current = top.p
  BY DEF PostSynch, Call, InThread, Basic, RunType, StackGood, Executing, top
<1>2. Fits(Head(stack), Thread(p, "msg", current))
  BY <1>1 DEF Fits, Own, Thread, top
<1>. QED  BY <1>1, <1>2, CallProcess DEF Basic, Event

LEMMA ExitStack ==
  ASSUME Basic, NEW p \in Proc, Exit(p)
  PROVE  StackGood(stack', current') /\ RunType'
<1>1. /\ top.fn \in {"thread", "last"} /\ exit_process(p, current, current, stack)
      /\ current \in Pointer /\ current = top.p /\ current' = current
  BY DEF Exit, Call, InThread, Basic, RunType, StackGood, Executing, top
<1>2. PICK f : f = Exiting(p, NULL, current, current)
  OBVIOUS
<1>3. f \in Activation /\ f.fn = "exit_process" /\ f.p = p /\ f.old = current
  BY <1>1, <1>2, Makes DEF Exiting, Pointer
<1>4. stack' = Push(stack, f) /\ state' = [state EXCEPT ![p] = "NONE"]
  BY <1>1, <1>2 DEF exit_process, Push
<1>5. Fits(Head(stack), f)
  BY <1>1, <1>3 DEF Fits, Own, top
<1>6. Nested(stack') /\ Head(stack') = f
  BY <1>3, <1>4, <1>5, BasicTop, NestedCall
<1>. QED  BY <1>1, <1>3, <1>4, <1>6 DEF StackGood, Executing, RunType, Basic, Nested

LEMMA StackStep ==
  ASSUME Basic, RingInv, boot \in Seq(Proc), [Next]_vars
  PROVE  StackGood(stack', current') /\ RunType'
<1>0. ASSUME UNCHANGED running
      PROVE  StackGood(stack', current') /\ RunType'
  BY <1>0 DEF running, Basic, StackGood, RunType
<1>1. CASE AutostartNext
  <2>1. CASE start(Head(boot), stack)
    <3>1. Head(boot) \in Proc /\ top.fn = "process_run"
      BY <1>1 DEF AutostartNext
    <3>. QED  BY <2>1, <3>1, StartStack DEF Basic
  <2>2. CASE UNCHANGED running
    BY <1>0, <2>2
  <2>. QED  BY <1>1, <2>1, <2>2 DEF AutostartNext
<1>2. ASSUME NEW p \in Proc, Start(p)
      PROVE  StackGood(stack', current') /\ RunType'
  <2>1. start(p, stack) /\ top.fn \in {"thread", "last"}
    BY <1>2 DEF Start, Call, InThread
  <2>. QED  BY <2>1, StartStack DEF Basic
<1>3. CASE RunPolls
  BY <1>3, RunPollsStack
<1>4. CASE PollNext
  BY <1>4, PollNextStack
<1>5. CASE RunEvent
  BY <1>5, RunEventStack
<1>6. CASE BroadcastNext
  BY <1>6, BroadcastNextStack
<1>7. CASE BroadcastDeliver
  BY <1>7, BroadcastDeliverStack
<1>8. CASE TellOthers
  BY <1>8, TellOthersStack
<1>9. CASE Leave
  BY <1>9, LeaveStack
<1>10. CASE Yield
  BY <1>10, YieldStack
<1>11. CASE End
  BY <1>11, EndStack
<1>12. CASE ReturnLast
  BY <1>12, ReturnLastStack
<1>13. ASSUME NEW p \in Proc, PostSynch(p)
       PROVE  StackGood(stack', current') /\ RunType'
  BY <1>13, PostSynchStack
<1>14. ASSUME NEW p \in Proc, Exit(p)
       PROVE  StackGood(stack', current') /\ RunType'
  BY <1>14, ExitStack
<1>15. ASSUME NEW p \in Proc, PollFromThread(p) \/ Interrupt(p)
       PROVE  UNCHANGED running
  BY <1>15 DEF PollFromThread, Interrupt, running
<1>16. CASE CallRefused \/ (\E to \in Pointer : Post(to)) \/ UNCHANGED vars
  <2>1. UNCHANGED running
    BY <1>16 DEF CallRefused, Post, vars, running
  <2>. QED  BY <1>0, <2>1
<1>. QED
  BY <1>0, <1>1, <1>2, <1>3, <1>4, <1>5, <1>6, <1>7, <1>8, <1>9, <1>10, <1>11, <1>12,
     <1>13, <1>14, <1>15, <1>16 DEF Next, Kernel, Calls

-----------------------------------------------------------------------------
PollType == needspoll \subseteq Proc /\ poll_requested \in BOOLEAN /\ wants \subseteq Proc

LEMMA PollTypeStep ==
  ASSUME Basic, PollType, [Next]_vars
  PROVE  PollType'
<1>0. CASE UNCHANGED polling
  BY <1>0 DEF polling, PollType
<1>1. ASSUME NEW p \in Proc, process_poll(p)
      PROVE  PollType'
  <2>1. CASE UNCHANGED polling
    BY <1>0, <2>1
  <2>2. CASE /\ needspoll' = needspoll \cup {p} /\ poll_requested' = TRUE
             /\ wants' = wants \cup {p}
    BY <2>2 DEF PollType
  <2>. QED  BY <1>1, <2>1, <2>2 DEF process_poll
<1>2. CASE RunPolls \/ BroadcastNext
  <2>1. UNCHANGED <<needspoll, wants>> /\ (poll_requested' = FALSE \/ poll_requested' = poll_requested)
    BY <1>2 DEF RunPolls, BroadcastNext, do_poll
  <2>. QED  BY <2>1 DEF PollType
<1>3. CASE PollNext
  <2>1. /\ poll_requested' = poll_requested
        /\ \/ \E p : needspoll' = needspoll \ {p} /\ wants' = wants \ {p}
           \/ UNCHANGED <<needspoll, wants>>
    BY <1>3, Zenon DEF PollNext, AfterSearch, polling
  <2>. QED  BY <2>1 DEF PollType
<1>4. ASSUME \/ AutostartNext \/ RunEvent \/ BroadcastDeliver \/ TellOthers \/ Leave
             \/ CallRefused \/ Yield \/ ReturnLast \/ UNCHANGED vars
             \/ \E to \in Pointer : Post(to)
             \/ \E p \in Proc : PostSynch(p) \/ Start(p)
      PROVE  UNCHANGED polling
  BY <1>4 DEF AutostartNext, RunEvent, BroadcastDeliver, TellOthers, Leave, CallRefused,
     Yield, ReturnLast, vars, Post, PostSynch, Start, polling
<1>5. CASE End \/ \E p \in Proc : Exit(p)
  <2>1. /\ UNCHANGED <<needspoll, poll_requested>>
        /\ wants' \subseteq wants
    BY <1>5 DEF End, Exit, exit_process
  <2>. QED  BY <2>1 DEF PollType
<1>6. ASSUME NEW p \in Proc, PollFromThread(p) \/ Interrupt(p)
      PROVE  process_poll(p)
  BY <1>6 DEF PollFromThread, Interrupt
<1>. QED  BY <1>0, <1>1, <1>2, <1>3, <1>4, <1>5, <1>6 DEF Next, Kernel, Calls

\* The bounds, the array of autostart_start and the ghosts.
RestType ==
  /\ boot \in Seq(Proc)
  /\ polls \in Nat /\ taken \in Nat
  /\ due \subseteq Proc /\ heard \subseteq Proc /\ restarted \in BOOLEAN

LEMMA RestTypeStep ==
  ASSUME Basic, RingInv, RestType, [Next]_vars
  PROVE  RestType'
<1>1. boot' \in Seq(Proc)
  <2>1. (boot' = Tail(boot) /\ boot # <<>>) \/ boot' = boot
    BY DEF Next, Kernel, Calls, AutostartNext, RunPolls, PollNext, RunEvent, BroadcastNext,
       BroadcastDeliver, TellOthers, Leave, CallRefused, Post, PostSynch, PollFromThread,
       Start, Exit, Yield, End, ReturnLast, Interrupt, vars
  <2>. QED  BY <2>1 DEF RestType
<1>2. polls' \in Nat
  <2>1. polls' = polls \/ polls' = polls + 1
    BY DEF Next, Kernel, Calls, AutostartNext, RunPolls, PollNext, RunEvent, BroadcastNext,
       BroadcastDeliver, TellOthers, Leave, CallRefused, Post, PostSynch, PollFromThread,
       Start, Exit, Yield, End, ReturnLast, Interrupt, vars, Call, bounds
  <2>. QED  BY <2>1 DEF RestType
<1>3. taken' \in Nat
  <2>1. taken' = taken \/ taken' = events[fevent].n
    BY DEF Next, Kernel, Calls, AutostartNext, RunPolls, PollNext, RunEvent, BroadcastNext,
       BroadcastDeliver, TellOthers, Leave, CallRefused, Post, PostSynch, PollFromThread,
       Start, Exit, Yield, End, ReturnLast, Interrupt, vars, count
  <2>2. events[fevent].n \in Nat
    <3>1. events[fevent] \in Items
      BY DEF RingInv
    <3>. QED  BY <3>1, ProcessAssumption DEF Items
  <2>. QED  BY <2>1, <2>2 DEF RestType
<1>4. due' \subseteq Proc
  <2>1. due' \subseteq due \/ due' = From(head)
    BY DEF Next, Kernel, Calls, AutostartNext, RunPolls, PollNext, RunEvent, BroadcastNext,
       BroadcastDeliver, TellOthers, Leave, CallRefused, Post, PostSynch, PollFromThread,
       Start, Exit, exit_process, Yield, End, ReturnLast, Interrupt, vars, broadcast
  <2>. QED  BY <2>1, BasicTop DEF RestType
<1>5. heard' \subseteq Proc
  <2>1. \/ heard' = heard \/ heard' = {}
        \/ BroadcastDeliver /\ heard' = heard \cup {top.q}
    BY DEF Next, Kernel, Calls, AutostartNext, RunPolls, PollNext, RunEvent, BroadcastNext,
       BroadcastDeliver, TellOthers, Leave, CallRefused, Post, PostSynch, PollFromThread,
       Start, Exit, Yield, End, ReturnLast, Interrupt, vars, broadcast
  <2>2. BroadcastDeliver => top.q \in Proc
    BY BasicTop, Kinds DEF BroadcastDeliver, Fits, Pointer
  <2>. QED  BY <2>1, <2>2 DEF RestType
<1>6. restarted' \in BOOLEAN
  <2>1. \/ restarted' = restarted \/ restarted' = FALSE
        \/ restarted' = (restarted \/ \E i \in DOMAIN stack : stack[i].fn = "do_poll")
    BY DEF Next, Kernel, Calls, AutostartNext, RunPolls, PollNext, RunEvent, BroadcastNext,
       BroadcastDeliver, TellOthers, Leave, CallRefused, Post, PostSynch, PollFromThread,
       Start, Exit, Yield, End, ReturnLast, Interrupt, vars, broadcast
  <2>. QED  BY <2>1, Zenon DEF RestType
<1>. QED  BY <1>1, <1>2, <1>3, <1>4, <1>5, <1>6 DEF RestType

-----------------------------------------------------------------------------
\* The inductive invariant of the kernel, whatever processes are exited.
BasicInv ==
  /\ RunType /\ ListType /\ RingInv /\ PollType /\ RestType
  /\ ListEnds /\ WellNested(stack) /\ CurrentIsExecuting

LEMMA BasicInvIsBasic ==
  /\ BasicInv => Basic
  /\ RunType' /\ StackGood(stack', current') => WellNested(stack)' /\ CurrentIsExecuting'
BY DEF BasicInv, Basic, StackGood, Nested, Executing, CurrentIsExecuting, InThread, top,
   RunType

LEMMA BasicInit == Init => BasicInv
<1>. SUFFICES ASSUME Init PROVE BasicInv
  OBVIOUS
<1>1. RunType /\ ListType /\ PollType /\ RestType
  <2>1. stack = <<Run("poll")>> /\ Run("poll") \in Activation
    BY Makes DEF Init
  <2>2. stack \in Seq(Activation)
    BY <2>1
  <2>3. RunType /\ ListType
    BY <2>2 DEF Init, RunType, ListType, Pointer
  <2>4. PollType
    BY DEF Init, PollType
  <2>5. RestType
    BY ProcessAssumption DEF Init, RestType
  <2>. QED  BY <2>3, <2>4, <2>5
<1>2. ListEnds
  BY <1>1, FromType DEF Init, ListEnds
<1>3. stack = <<Run("poll")>> /\ Run("poll") \in Activation
  BY Makes DEF Init
<1>4. stack # <<>> /\ Len(stack) = 1 /\ stack[1] = Run("poll") /\ top = Run("poll")
  BY <1>3 DEF top
<1>5. WellNested(stack)
  BY <1>4 DEF WellNested, Run
<1>6. CurrentIsExecuting
  BY <1>4 DEF CurrentIsExecuting, InThread, Run
<1>. QED  BY <1>1, <1>2, <1>5, <1>6, InitRing DEF BasicInv

LEMMA BasicStep == BasicInv /\ [Next]_vars => BasicInv'
<1>. SUFFICES ASSUME BasicInv, [Next]_vars PROVE BasicInv'
  OBVIOUS
<1>0. /\ Basic /\ ListType /\ RingInv /\ PollType /\ RestType /\ ListEnds
      /\ boot \in Seq(Proc) /\ stack \in Seq(Activation) /\ stack # <<>>
  BY BasicInvIsBasic, BasicTop DEF BasicInv, RestType
<1>1. StackGood(stack', current') /\ RunType'
  BY <1>0, StackStep
<1>2. WellNested(stack)' /\ CurrentIsExecuting'
  BY <1>1, BasicInvIsBasic
<1>3. ListType' /\ ListEnds'
  BY <1>0, ListStep
<1>4. RingInv'
  BY <1>0, RingStep
<1>5. PollType'
  BY <1>0, PollTypeStep
<1>6. RestType'
  BY <1>0, RestTypeStep
<1>. QED  BY <1>1, <1>2, <1>3, <1>4, <1>5, <1>6 DEF BasicInv

LEMMA BasicIsTypeOK == BasicInv => TypeOK
<1>. SUFFICES ASSUME BasicInv PROVE TypeOK
  OBVIOUS
<1>1. events \in [0..NumEvents - 1 -> [to : Pointer, n : Nat]]
  <2>1. \A x \in Items : x \in [to : Pointer, n : Nat]
    BY ProcessAssumption DEF Items
  <2>. QED  BY <2>1 DEF BasicInv, RingInv
<1>. QED  BY <1>1 DEF BasicInv, RunType, ListType, RingInv, PollType, RestType, TypeOK

\* Type correctness, for every set of processes, ring size and autostart array,
\* also when process_exit is called for processes that are being called.
THEOREM TypeCorrect == Spec => []TypeOK
BY BasicInit, BasicStep, BasicIsTypeOK, PTL DEF Spec

\* ListEnds: the process list is a list, whatever is started, exited and started
\* again, from whichever thread, while loops over the list are suspended.
THEOREM ListStaysAList == Spec => []ListEnds
<1>1. BasicInv => ListEnds
  BY DEF BasicInv
<1>. QED  BY <1>1, BasicInit, BasicStep, PTL DEF Spec

\* CurrentIsExecuting: PROCESS_CURRENT() is the process whose thread executes, as
\* call_process, process_post_synch and exit_process set it and set it back.
THEOREM CurrentIsTheThread == Spec => []CurrentIsExecuting
<1>1. BasicInv => CurrentIsExecuting
  BY DEF BasicInv
<1>. QED  BY <1>1, BasicInit, BasicStep, PTL DEF Spec
=============================================================================
