------------------------------- MODULE Etimer -------------------------------
(***************************************************************************)
(* Event timers: core/sys/etimer.c over core/sys/timer.c, with the SysTick  *)
(* handler that drives them (cpu/arm/stm32f103/clock.c) and the part of the *)
(* kernel they use: the event queue of Process, here one queue for TIMER    *)
(* events and for the other events that compete for its places, and the     *)
(* poll flag of etimer_process.                                             *)
(*                                                                          *)
(* The search of etimer_process is one step per timer it reaches, so that   *)
(* the clock may tick in between; every other call is one step, made while  *)
(* no search runs (they share the main thread).                             *)
(***************************************************************************)
EXTENDS Integers, Sequences, FiniteSets, SequencesExt

CONSTANTS
  Proc,        \* the processes that use timers
  Timer,       \* struct etimer objects
  None,        \* PROCESS_NONE; also the parts of an event that is not TIMER
  ClockMod,    \* clock_time_t counts modulo ClockMod
  Interval,    \* intervals and adjustments applications use
  Adjustment,
  QueueSize,   \* PROCESS_CONF_NUMEVENTS
  MaxTime,     \* bound: clock ticks
  MaxDelay,    \* environment: no timer is left expired, or is set to a time
               \* past, for more than MaxDelay ticks
  MaxSets,     \* bound: calls that set, reset, restart or adjust a timer
  MaxOther     \* bound: events that other modules post

ASSUME EtimerAssumption ==
  /\ None \notin Proc \cup Timer
  /\ ClockMod \in Nat \ {0}
  /\ Interval \subseteq 0..ClockMod - 1
  /\ Adjustment \subseteq Int
  /\ QueueSize \in Nat \ {0}
  /\ \A i \in Interval \cup {0} : i + MaxDelay + 1 < ClockMod  \* 0 in a fresh etimer
  /\ {MaxTime, MaxDelay, MaxSets, MaxOther} \subseteq Nat

VARIABLES
  now,              \* SysTick interrupts so far; current_clock is now % ClockMod
  timer,            \* et->timer
  owner,            \* et->p
  timerlist,        \* the list, first element first
  next_expiration,
  queue,            \* events posted: <<receiver, timer>>, <<None, None>> for others
  needspoll,        \* etimer_process has been polled
  walk,             \* the place on the list the search has reached, 0: none runs
  alive,            \* the processes that are running
  sets, others,     \* bounds: calls made, events of other modules so far
  setter,           \* history: who has asked for the timer's event and is to get it
  deadline,         \* history: when, not reduced modulo ClockMod
  adjusted,         \* ghost: timers adjusted since the last tick
  stale             \* ghost: a timer was unlinked without update_time

list == <<timerlist, owner, next_expiration, stale, setter>>
settings == <<timer, deadline, adjusted>>
kernel == <<queue, needspoll, walk, alive>>
bounds == <<sets, others>>
vars == <<now, list, settings, kernel, bounds>>

Clock == 0..ClockMod - 1
clock_time == now % ClockMod
searching == walk # 0

Init ==
  /\ now = 0
  /\ timer = [t \in Timer |-> [start |-> 0, interval |-> 0]]
  /\ owner = [t \in Timer |-> None]
  /\ timerlist = <<>>
  /\ next_expiration = 0
  /\ queue = <<>>
  /\ needspoll = FALSE
  /\ walk = 0
  /\ alive = Proc
  /\ sets = 0 /\ others = 0
  /\ setter = [t \in Timer |-> None]
  /\ deadline = [t \in Timer |-> 0]
  /\ adjusted = {} /\ stale = FALSE

-----------------------------------------------------------------------------
(* timer.c and the helpers of etimer.c *)

NoWrap(x) == x                                   \* fault: no modulo
Wrap(x) == x % ClockMod

\* timer_expired: interval < elapsed + 1, all unsigned.
ExpiredEarly(x) == x.interval <= Wrap(Wrap(clock_time - x.start) + 1)   \* fault
timer_expired(x) == x.interval < Wrap(Wrap(clock_time - x.start) + 1)

\* update_time for the list l with the timers tm.
Distance(x) == Wrap(x.start + x.interval - clock_time)
NearestFirst(l, tm) == Distance(tm[l[1]])        \* fault: looks at the head only
Nearest(l, tm) ==
  CHOOSE d \in {Distance(tm[l[i]]) : i \in DOMAIN l} :
    \A i \in DOMAIN l : d <= Distance(tm[l[i]])
update_time(l, tm) == IF l = <<>> THEN 0 ELSE Wrap(clock_time + Nearest(l, tm))

Listed(t) == t \in Range(timerlist)

\* The elements of l that are in S, in their order.
Kept(l, S) ==
  LET kept[i \in 0..Len(l)] == IF i = 0 THEN <<>>
                               ELSE IF l[i] \in S THEN Append(kept[i - 1], l[i])
                               ELSE kept[i - 1]
  IN  kept[Len(l)]

\* add_timer by process p, after timer_set, timer_reset or timer_restart.
AddedTwice(t) == <<t>> \o timerlist              \* fault: no search of the list
AddedIfOwned(t) ==                               \* fault: trusts p
  IF owner[t] # None THEN timerlist ELSE <<t>> \o timerlist
Added(t) == IF owner[t] # None /\ Listed(t) THEN timerlist ELSE <<t>> \o timerlist

FirstOwner(t, p) ==                              \* fault: p set when linked only
  IF Listed(t) THEN owner ELSE [owner EXCEPT ![t] = p]
Owned(t, p) == [owner EXCEPT ![t] = p]

add_timer(t, p) ==
  /\ needspoll' = TRUE
  /\ timerlist' = Added(t)
  /\ owner' = Owned(t, p)
  /\ next_expiration' = update_time(timerlist', timer')
  /\ stale' = FALSE

\* process_post: whether the event e was accepted.
process_post(e) == Len(queue) < QueueSize /\ queue' = Append(queue, e)

-----------------------------------------------------------------------------
(* What applications do. *)

Start(t, p, x, at) ==
  /\ ~searching /\ p \in alive /\ now <= at + MaxDelay
  /\ sets < MaxSets /\ sets' = sets + 1 /\ others' = others
  /\ timer' = [timer EXCEPT ![t] = x]
  /\ setter' = [setter EXCEPT ![t] = p]
  /\ deadline' = [deadline EXCEPT ![t] = at]
  /\ adjusted' = adjusted \ {t}
  /\ add_timer(t, p)
  /\ UNCHANGED <<now, queue, walk, alive>>

etimer_set(t, p) ==
  \E i \in Interval : Start(t, p, [start |-> clock_time, interval |-> i], now + i)

etimer_restart(t, p) ==
  Start(t, p, [timer[t] EXCEPT !.start = clock_time], now + timer[t].interval)

\* "Must not be executed before timer expired" (timer.c).
etimer_reset(t, p) ==
  /\ owner[t] = None /\ deadline[t] <= now
  /\ Start(t, p, [timer[t] EXCEPT !.start = Wrap(@ + timer[t].interval)],
           deadline[t] + timer[t].interval)

\* Of a timer that has not expired.  Adjusted by more than the time since it
\* started it would start in the future, which timer_expired takes for a time
\* long past, and expire at once (README.md, known divergences).
etimer_adjust(t) ==
  /\ ~searching /\ Listed(t) /\ now < deadline[t]
  /\ sets < MaxSets /\ sets' = sets + 1 /\ others' = others
  /\ \E d \in Adjustment :
       /\ timer' = [timer EXCEPT ![t].start = Wrap(@ + d)]
       /\ deadline' = [deadline EXCEPT ![t] = @ + d]
       /\ now <= deadline[t] + d + MaxDelay
       /\ deadline[t] + d - timer[t].interval <= now
  /\ adjusted' = adjusted \cup {t}
  /\ next_expiration' = update_time(timerlist, timer')
  /\ stale' = FALSE
  /\ UNCHANGED <<now, owner, timerlist, setter, kernel>>

StillLinked(l, t) == l                           \* fault
Unlinked(l, t) == Kept(l, Timer \ {t})

etimer_stop(t) ==
  /\ ~searching
  /\ timerlist' = Unlinked(timerlist, t)
  /\ IF Listed(t)
     THEN next_expiration' = update_time(timerlist', timer) /\ stale' = FALSE
     ELSE UNCHANGED <<next_expiration, stale>>
  /\ owner' = [owner EXCEPT ![t] = None]
  /\ setter' = [setter EXCEPT ![t] = None]
  /\ UNCHANGED <<now, settings, kernel, bounds>>

\* A process exits: etimer_process takes the EXITED event synchronously.
OfAll(p) == timerlist                            \* fault: EXITED ignored
OfOthers(p) == Kept(timerlist, {t \in Timer : owner[t] # p})
ProcessExit(p) ==
  /\ ~searching /\ p \in alive
  /\ alive' = alive \ {p}
  /\ timerlist' = OfOthers(p)
  /\ stale' = (stale \/ timerlist' # timerlist)
  /\ setter' = [t \in Timer |-> IF setter[t] = p THEN None ELSE setter[t]]
  /\ UNCHANGED <<now, owner, next_expiration, settings, queue, needspoll, walk, bounds>>

ProcessStart(p) ==
  /\ ~searching /\ p \notin alive
  /\ alive' = alive \cup {p}
  /\ UNCHANGED <<now, list, settings, queue, needspoll, walk, bounds>>

-----------------------------------------------------------------------------
(* etimer_process and what drives it. *)

\* The SysTick handler, at any moment.
NoticedOnce == needspoll \/ Len(timerlist) = 1    \* fault
Noticed == needspoll \/ timerlist # <<>>

Tick ==
  /\ now < MaxTime
  /\ \A t \in Range(timerlist) : now < deadline[t] + MaxDelay
  /\ now' = now + 1
  /\ needspoll' = Noticed
  /\ adjusted' = {}
  /\ UNCHANGED <<list, timer, deadline, queue, walk, alive, bounds>>

\* do_poll calls etimer_process.
Poll ==
  /\ needspoll /\ ~searching
  /\ needspoll' = FALSE
  /\ walk' = 1
  /\ UNCHANGED <<now, list, settings, queue, alive, bounds>>

\* The loop of the search, from the head of the list, at one timer after the
\* other.  One that has expired is posted and the search starts again; if the
\* queue is full etimer_process asks to be polled again and goes on.
Reached == timerlist[walk]
ReachedExpired == walk \in DOMAIN timerlist /\ timer_expired(timer[Reached])

SearchPosts ==
  /\ ReachedExpired
  /\ process_post(<<owner[Reached], Reached>>)
  /\ timerlist' = Unlinked(timerlist, Reached)
  /\ owner' = [owner EXCEPT ![Reached] = None]
  /\ setter' = [setter EXCEPT ![Reached] = None]
  /\ next_expiration' = update_time(timerlist', timer)
  /\ stale' = FALSE
  /\ walk' = 1
  /\ UNCHANGED <<now, settings, needspoll, alive, bounds>>

NoRetry == needspoll                             \* fault: poll not requested
Retry == TRUE

SearchFails ==
  /\ ReachedExpired /\ Len(queue) = QueueSize
  /\ needspoll' = Retry
  /\ walk' = walk + 1
  /\ UNCHANGED <<now, list, settings, queue, alive, bounds>>

SearchSkips ==
  /\ walk \in DOMAIN timerlist /\ ~timer_expired(timer[Reached])
  /\ walk' = walk + 1
  /\ UNCHANGED <<now, list, settings, queue, needspoll, alive, bounds>>

SearchEnds ==
  /\ searching /\ walk \notin DOMAIN timerlist
  /\ walk' = 0
  /\ UNCHANGED <<now, list, settings, queue, needspoll, alive, bounds>>

\* do_event: the oldest event goes to its receiver.
Deliver ==
  /\ ~searching /\ queue # <<>>
  /\ queue' = Tail(queue)
  /\ UNCHANGED <<now, list, settings, needspoll, walk, alive, bounds>>

\* Another module posts an event of its own.
OtherPost ==
  /\ ~searching
  /\ others < MaxOther /\ others' = others + 1
  /\ process_post(<<None, None>>)
  /\ UNCHANGED <<now, list, settings, needspoll, walk, alive, sets>>

Search == Poll \/ SearchPosts \/ SearchFails \/ SearchSkips \/ SearchEnds

Apps == \/ \E t \in Timer, p \in Proc :
             etimer_set(t, p) \/ etimer_restart(t, p) \/ etimer_reset(t, p)
        \/ \E t \in Timer : etimer_adjust(t) \/ etimer_stop(t)
        \/ \E p \in Proc : ProcessExit(p) \/ ProcessStart(p)
        \/ OtherPost

Next == Apps \/ Tick \/ Search \/ Deliver

Spec == Init /\ [][Next]_vars
-----------------------------------------------------------------------------
(* Properties *)

\* Type correctness.  No timer is on the list twice: linked twice, it would make
\* the list a cycle.
TypeOK ==
  /\ now \in Nat
  /\ timer \in [Timer -> [start : Clock, interval : Clock]]
  /\ owner \in [Timer -> Proc \cup {None}]
  /\ timerlist \in Seq(Timer) /\ IsInjective(timerlist)
  /\ next_expiration \in Clock
  /\ queue \in Seq((Proc \cup {None}) \X (Timer \cup {None}))
  /\ needspoll \in BOOLEAN /\ stale \in BOOLEAN
  /\ walk \in Nat
  /\ alive \subseteq Proc
  /\ sets \in Nat /\ others \in Nat
  /\ setter \in [Timer -> Proc \cup {None}]
  /\ deadline \in [Timer -> Int]
  /\ adjusted \subseteq Timer

\* Every call of the API that asks for an event, takes the request back or
\* changes its time is answered as etimer.h says, whatever the list and p are by
\* then: one event, to the process that asked last, not early, not MaxDelay ticks
\* late, and none once the timer is stopped or its process gone.  What is asked
\* for is in the history variables, written by the calls, not read off the list.
Mail == Kept(queue, (Proc \cup {None}) \X Timer)
Abstract == INSTANCE EventTimers WITH mail <- Mail,
                                      interval <- [t \in Timer |-> timer[t].interval]
ImplementsEventTimers == Abstract!Spec

\* A timer that has expired is about to be found: etimer_process has been
\* polled, or its search has not come past the timer yet.  (An adjustment into
\* the past is seen at the next tick.)
Ahead == {timerlist[i] : i \in {j \in DOMAIN timerlist : searching /\ walk <= j}}
ExpiredIsNoticed ==
  \A t \in Range(timerlist) \ adjusted :
    deadline[t] <= now => needspoll \/ t \in Ahead

\* The answer of etimer_next_expiration_time, by which a port may sleep, is the
\* time of the next pending timer, unless a process has exited since.
Expired == {t \in Range(timerlist) : timer_expired(timer[t])}
NextIsNearest ==
  timerlist # <<>> /\ Expired = {} /\ ~stale
    => \E t \in Range(timerlist) :
         /\ next_expiration = Wrap(deadline[t])
         /\ \A u \in Range(timerlist) : deadline[t] <= deadline[u]
=============================================================================
