------------------------------- MODULE Ctimer -------------------------------
(***************************************************************************)
(* Callback timers, core/sys/ctimer.c, on top of Etimer: every ctimer has    *)
(* an etimer of ctimer_process, here the element of Timer of the same name.  *)
(* A callback is free to set and stop ctimers: it does so in the steps after *)
(* the one that calls it.                                                    *)
(***************************************************************************)
EXTENDS Etimer

CONSTANT ctimer_process

ASSUME CtimerAssumption == Proc = {ctimer_process}

VARIABLES
  initialized,
  ctimer_list,
  reused        \* ghost: ctimers set again while an event of theirs was queued

cvars == <<vars, initialized, ctimer_list, reused>>

Queued(c, q) == <<ctimer_process, c>> \in Range(q)

CInit ==
  /\ Init
  /\ initialized = FALSE
  /\ ctimer_list = <<>>
  /\ reused = {}

NotRemoved(c) == ctimer_list                     \* fault: no list_remove
list_remove(c) == Kept(ctimer_list, Timer \ {c})
AddedAgain(c) == Append(ctimer_list, c)          \* fault: no search of the list
list_add(c) == Append(Kept(ctimer_list, Timer \ {c}), c)

\* The end of ctimer_set, ctimer_reset and ctimer_restart.
AddToList(c) ==
  /\ ctimer_list' = list_add(c)
  /\ reused' = IF Queued(c, queue) THEN reused \cup {c} ELSE reused
  /\ initialized' = initialized

\* Without ctimer_process there are no etimers yet: ctimer_set keeps the
\* interval, and the ctimer has no time to expire at, MaxTime + 1.
SetEarly(c) ==
  \E i \in Interval :
    /\ sets < MaxSets /\ sets' = sets + 1
    /\ timer' = [timer EXCEPT ![c].interval = i]
    /\ deadline' = [deadline EXCEPT ![c] = MaxTime + 1]
    /\ UNCHANGED <<now, list, adjusted, kernel, others>>

ctimer_set(c) ==
  /\ IF initialized THEN etimer_set(c, ctimer_process) ELSE SetEarly(c)
  /\ AddToList(c)

ctimer_reset(c) ==
  /\ initialized /\ etimer_reset(c, ctimer_process)
  /\ AddToList(c)

ctimer_restart(c) ==
  /\ initialized /\ etimer_restart(c, ctimer_process)
  /\ AddToList(c)

\* ctimer_reset and ctimer_restart before ctimer_process: only the list is told.
AddEarly(c) ==
  /\ ~initialized
  /\ sets < MaxSets /\ sets' = sets + 1
  /\ AddToList(c)
  /\ UNCHANGED <<now, list, settings, kernel, others>>

StopEarly(c) ==
  /\ owner' = [owner EXCEPT ![c] = None]
  /\ UNCHANGED <<now, timerlist, next_expiration, stale, setter, settings, kernel, bounds>>

ctimer_stop(c) ==
  /\ IF initialized THEN etimer_stop(c) ELSE StopEarly(c)
  /\ ctimer_list' = list_remove(c)
  /\ UNCHANGED <<initialized, reused>>

\* ctimer_process starts: etimer_set for every ctimer on the list.
StartProcess ==
  /\ ~initialized /\ ~searching
  /\ initialized' = TRUE
  /\ timer' = [c \in Timer |-> IF c \in Range(ctimer_list)
                               THEN [timer[c] EXCEPT !.start = clock_time] ELSE timer[c]]
  /\ deadline' = [c \in Timer |-> IF c \in Range(ctimer_list)
                                  THEN now + timer[c].interval ELSE deadline[c]]
  /\ owner' = [c \in Timer |-> IF c \in Range(ctimer_list) THEN ctimer_process
                               ELSE owner[c]]
  /\ setter' = [c \in Timer |-> IF c \in Range(ctimer_list) THEN ctimer_process
                                ELSE setter[c]]
  /\ timerlist' = Reverse(ctimer_list) \o timerlist
  /\ next_expiration' = update_time(timerlist', timer')
  /\ stale' = FALSE
  /\ needspoll' = (needspoll \/ ctimer_list # <<>>)
  /\ UNCHANGED <<now, adjusted, queue, walk, alive, bounds, ctimer_list, reused>>

\* ctimer_process takes the TIMER event of c: the callback runs if c is listed.
Callback(c) ==
  /\ queue # <<>> /\ Head(queue) = <<ctimer_process, c>>
  /\ c \in Range(ctimer_list)
  /\ Deliver
  /\ ctimer_list' = list_remove(c)
  /\ reused' = IF Queued(c, Tail(queue)) THEN reused ELSE reused \ {c}
  /\ initialized' = initialized

\* Any other event, and a TIMER event of a ctimer that has been stopped.
OtherEvent ==
  /\ queue # <<>>
  /\ \A c \in Range(ctimer_list) : Head(queue) # <<ctimer_process, c>>
  /\ Deliver
  /\ reused' = {c \in reused : Queued(c, Tail(queue))}
  /\ UNCHANGED <<initialized, ctimer_list>>

Timers == (Tick \/ Search \/ OtherPost) /\ UNCHANGED <<initialized, ctimer_list, reused>>

CNext ==
  \/ \E c \in Timer : \/ ctimer_set(c) \/ ctimer_reset(c) \/ ctimer_restart(c)
                      \/ AddEarly(c) \/ ctimer_stop(c) \/ Callback(c)
  \/ StartProcess \/ OtherEvent \/ Timers

Events == OtherEvent \/ \E c \in Timer : Callback(c)

\* process_run polls etimer_process and then takes an event, again and again:
\* neither can keep the other waiting.
CSpec == /\ CInit /\ [][CNext]_cvars
         /\ WF_cvars(StartProcess)
         /\ WF_cvars(Search /\ UNCHANGED <<initialized, ctimer_list, reused>>)
         /\ SF_cvars(Events)

-----------------------------------------------------------------------------
(* Properties *)

\* Type correctness.  No ctimer is on the list twice.
CTypeOK ==
  /\ TypeOK
  /\ initialized \in BOOLEAN
  /\ ctimer_list \in Seq(Timer) /\ IsInjective(ctimer_list)
  /\ reused \subseteq Timer

\* No callback is lost: a ctimer on the list has its etimer running, or its
\* TIMER event is underway to ctimer_process.
ListedIsArmed ==
  initialized => \A c \in Range(ctimer_list) : Listed(c) \/ Queued(c, queue)

\* A callback comes when the time has passed, unless the ctimer was set again
\* between its expiry and its callback.
CallbackNotEarly ==
  [][\A c \in Timer : Callback(c) /\ c \notin reused => deadline[c] <= now]_cvars

\* "A callback timer for a time sometime in the future" (ctimer.h), always.
CallbackOnlyWhenExpired ==
  [][\A c \in Timer : Callback(c) => deadline[c] <= now]_cvars

\* When its time has passed, a ctimer's callback runs, or it is stopped or set
\* to a later time first.
CallbackHappens ==
  \A c \in Timer :
    initialized /\ c \in Range(ctimer_list) /\ deadline[c] <= now
      ~> c \notin Range(ctimer_list) \/ deadline[c] > now
=============================================================================
