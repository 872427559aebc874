---------------------------- MODULE EventTimers ----------------------------
(***************************************************************************)
(* What sys/etimer.h promises: a timer that is set posts one TIMER event to *)
(* the process that set it, not before its time and not MaxDelay ticks      *)
(* after it, unless it is stopped or set again first or the process exits.  *)
(* Events are taken in order.                                               *)
(***************************************************************************)
EXTENDS Integers, Sequences

CONSTANTS Timer, Proc, None, Interval, Adjustment, MaxDelay

VARIABLES
  now,       \* the time
  setter,    \* per timer: who is to get its event, None if it has none due
  deadline,  \* when the event is due, or last was
  interval,  \* the interval it was last set to
  mail       \* TIMER events posted and not yet taken: <<receiver, timer>>

vars == <<now, setter, deadline, interval, mail>>

Init ==
  /\ now = 0 /\ mail = <<>>
  /\ setter = [t \in Timer |-> None]
  /\ deadline = [t \in Timer |-> 0]
  /\ interval = [t \in Timer |-> 0]

\* No event that is due is overdue by more than MaxDelay.
Tick ==
  /\ \A t \in Timer : setter[t] # None => now < deadline[t] + MaxDelay
  /\ now' = now + 1
  /\ UNCHANGED <<setter, deadline, interval, mail>>

Due(t, p, at) ==
  /\ setter' = [setter EXCEPT ![t] = p]
  /\ deadline' = [deadline EXCEPT ![t] = at]
  /\ UNCHANGED <<now, mail>>

\* etimer_set: an interval from now.
Set(t, p) ==
  \E i \in Interval : Due(t, p, now + i) /\ interval' = [interval EXCEPT ![t] = i]

\* etimer_restart: the same interval from now.
Restart(t, p) == Due(t, p, now + interval[t]) /\ interval' = interval

\* etimer_reset: the same interval from the time it has expired at.
Reset(t, p) ==
  /\ setter[t] = None /\ deadline[t] <= now
  /\ Due(t, p, deadline[t] + interval[t]) /\ interval' = interval

\* etimer_adjust.
Adjust(t) ==
  /\ setter[t] # None
  /\ \E d \in Adjustment : deadline' = [deadline EXCEPT ![t] = @ + d]
  /\ UNCHANGED <<now, setter, interval, mail>>

\* etimer_stop.
Stop(t) ==
  /\ setter' = [setter EXCEPT ![t] = None]
  /\ UNCHANGED <<now, deadline, interval, mail>>

\* A process exits: none of its timers will expire.
Exit(p) ==
  /\ setter' = [t \in Timer |-> IF setter[t] = p THEN None ELSE setter[t]]
  /\ UNCHANGED <<now, deadline, interval, mail>>

Expire(t) ==
  /\ setter[t] # None /\ deadline[t] <= now
  /\ mail' = Append(mail, <<setter[t], t>>)
  /\ setter' = [setter EXCEPT ![t] = None]
  /\ UNCHANGED <<now, deadline, interval>>

Take == mail # <<>> /\ mail' = Tail(mail) /\ UNCHANGED <<now, setter, deadline, interval>>

Next == \/ Tick \/ Take
        \/ \E t \in Timer : Adjust(t) \/ Stop(t) \/ Expire(t)
        \/ \E t \in Timer, p \in Proc : Set(t, p) \/ Restart(t, p) \/ Reset(t, p)
        \/ \E p \in Proc : Exit(p)

Spec == Init /\ [][Next]_vars
=============================================================================
