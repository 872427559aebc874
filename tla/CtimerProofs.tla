---------------------------- MODULE CtimerProofs ----------------------------
(***************************************************************************)
(* What is proved about the callback timers for every value of the          *)
(* constants: type correctness, that no callback is lost, and that none     *)
(* comes early unless its ctimer is set again while its event is queued.     *)
(***************************************************************************)
EXTENDS Ctimer, EtimerProofs

\* Until ctimer_process has started nothing is timed and nothing is queued.
EarlyInv ==
  ~initialized => timerlist = <<>> /\ \A c \in Timer : ~Queued(c, queue)

\* An event that is queued is one of a ctimer that has expired, unless the
\* ctimer has been set again since.
QueuedIsDue == \A c \in Timer \ reused : Queued(c, queue) => deadline[c] <= now

CtimerInv == EtimerInv /\ CTypeOK /\ EarlyInv /\ ListedIsArmed /\ QueuedIsDue

LEMMA TheProcess == ctimer_process \in Proc /\ \A p \in Proc : p = ctimer_process
  BY CtimerAssumption

(***************************************************************************)
(* The list and the queue                                                   *)
(***************************************************************************)
LEMMA Appended ==
  ASSUME NEW T, NEW l \in Seq(T), NEW e \in T
  PROVE  /\ Append(l, e) \in Seq(T) /\ Range(Append(l, e)) = Range(l) \cup {e}
         /\ IsInjective(l) /\ e \notin Range(l) => IsInjective(Append(l, e))
<1>1. PICK m, N : m = Append(l, e) /\ N = Len(l)
  OBVIOUS
<1>2. /\ m \in Seq(T) /\ N \in Nat /\ DOMAIN m = 1..N + 1 /\ DOMAIN l = 1..N
      /\ m[N + 1] = e /\ \A i \in 1..N : m[i] = l[i]
  BY <1>1
<1>3. /\ \A i \in 1..N + 1 : i \in 1..N \/ i = N + 1
      /\ N + 1 \in 1..N + 1 /\ \A i \in 1..N : i \in 1..N + 1
  BY <1>2
<1>4. Range(m) = Range(l) \cup {e}
  BY <1>2, <1>3 DEF Range
<1>5. ASSUME IsInjective(l), e \notin Range(l)
      PROVE  IsInjective(m)
  <2>1. \A i \in 1..N : m[i] # e
    BY <1>2, <1>5 DEF Range
  <2>2. \A i, j \in 1..N : m[i] = m[j] => i = j
    BY <1>2, <1>5 DEF IsInjective
  <2>3. \A i, j \in 1..N + 1 : m[i] = m[j] => i = j
    BY <1>2, <1>3, <2>1, <2>2
  <2>. QED  BY <1>2, <2>3 DEF IsInjective
<1>. QED  BY <1>1, <1>2, <1>4, <1>5

\* What is left of a queue, and what its head was.
LEMMA Taken ==
  ASSUME NEW T, NEW q \in Seq(T), q # <<>>
  PROVE  Tail(q) \in Seq(T) /\ Head(q) \in Range(q) /\ Range(q) = Range(Tail(q)) \cup {Head(q)}
<1>1. PICK m, N : m = Tail(q) /\ N = Len(m)
  OBVIOUS
<1>2. /\ m \in Seq(T) /\ N \in Nat /\ DOMAIN q = 1..N + 1 /\ DOMAIN m = 1..N
      /\ Head(q) = q[1] /\ \A i \in 1..N : m[i] = q[i + 1]
  BY <1>1
<1>3. ASSUME NEW i \in 1..N + 1
      PROVE  q[i] \in Range(m) \cup {Head(q)}
  <2>1. CASE i = 1
    BY <1>2, <2>1
  <2>2. CASE i # 1
    <3>1. i - 1 \in 1..N /\ (i - 1) + 1 = i
      BY <1>2, <2>2
    <3>2. q[i] = m[i - 1]
      BY <1>2, <3>1
    <3>. QED  BY <1>2, <3>1, <3>2 DEF Range
  <2>. QED  BY <2>1, <2>2
<1>4. ASSUME NEW i \in 1..N
      PROVE  m[i] \in Range(q)
  <2>1. i + 1 \in 1..N + 1
    BY <1>2
  <2>. QED  BY <1>2, <2>1 DEF Range
<1>5. Head(q) \in Range(q)
  <2>1. 1 \in 1..N + 1
    BY <1>2
  <2>. QED  BY <1>2, <2>1 DEF Range
<1>6. Range(q) \subseteq Range(m) \cup {Head(q)}
  BY <1>2, <1>3 DEF Range
<1>7. Range(m) \subseteq Range(q)
  BY <1>2, <1>4 DEF Range
<1>. QED  BY <1>1, <1>2, <1>5, <1>6, <1>7

LEMMA ReversedRange ==
  ASSUME NEW T, NEW l \in Seq(T)
  PROVE  /\ Reverse(l) \in Seq(T) /\ Range(Reverse(l)) = Range(l)
         /\ IsInjective(l) => IsInjective(Reverse(l))
<1>1. PICK m, N : m = Reverse(l) /\ N = Len(l)
  OBVIOUS
<1>2. N \in Nat /\ m = [i \in 1..N |-> l[(N - i) + 1]]
  BY <1>1 DEF Reverse
<1>3. \A i \in 1..N : (N - i) + 1 \in 1..N /\ (N - ((N - i) + 1)) + 1 = i
  BY <1>2
<1>4. m \in Seq(T) /\ DOMAIN m = 1..N /\ DOMAIN l = 1..N
  BY <1>1, <1>2, <1>3
<1>5. Range(m) \subseteq Range(l)
  BY <1>2, <1>3, <1>4 DEF Range
<1>6. ASSUME NEW i \in 1..N PROVE l[i] \in Range(m)
  <2>1. PICK j : j = (N - i) + 1
    OBVIOUS
  <2>2. j \in 1..N /\ (N - j) + 1 = i
    BY <1>3, <2>1
  <2>3. m[j] = l[i]
    BY <1>2, <2>2
  <2>. QED  BY <1>4, <2>2, <2>3 DEF Range
<1>7. Range(l) \subseteq Range(m)
  BY <1>4, <1>6 DEF Range
<1>8. ASSUME IsInjective(l)
      PROVE  IsInjective(m)
  <2>1. SUFFICES ASSUME NEW i \in 1..N, NEW j \in 1..N, m[i] = m[j]
                 PROVE  i = j
    BY <1>4 DEF IsInjective
  <2>2. PICK a, b : a = (N - i) + 1 /\ b = (N - j) + 1
    OBVIOUS
  <2>3. a \in 1..N /\ b \in 1..N /\ (N - a) + 1 = i /\ (N - b) + 1 = j
    BY <1>3, <2>2
  <2>4. l[a] = l[b]
    BY <1>2, <2>1, <2>2
  <2>5. a = b
    BY <1>4, <1>8, <2>3, <2>4 DEF IsInjective
  <2>. QED  BY <2>3, <2>5
<1>. QED  BY <1>1, <1>4, <1>5, <1>7, <1>8

\* list_add and list_remove.
LEMMA ListOperations ==
  ASSUME CTypeOK, NEW c \in Timer
  PROVE  /\ list_add(c) \in Seq(Timer) /\ Range(list_add(c)) = Range(ctimer_list) \cup {c}
         /\ list_remove(c) \in Seq(Timer) /\ Range(list_remove(c)) = Range(ctimer_list) \ {c}
         /\ IsInjective(list_add(c)) /\ IsInjective(list_remove(c))
<1>1. PICK l, m : l = ctimer_list /\ m = Kept(l, Timer \ {c})
  OBVIOUS
<1>2. l \in Seq(Timer) /\ Range(l) \subseteq Timer /\ IsInjective(l)
  BY <1>1, ListRange DEF CTypeOK
<1>3. m \in Seq(Timer) /\ Range(m) = Range(l) \cap (Timer \ {c}) /\ IsInjective(m)
  BY <1>1, <1>2, KeptType, KeptInjective
<1>4. /\ Append(m, c) \in Seq(Timer) /\ Range(Append(m, c)) = Range(m) \cup {c}
      /\ IsInjective(Append(m, c))
  BY <1>3, Appended
<1>. QED  BY <1>1, <1>2, <1>3, <1>4 DEF list_add, list_remove

LEMMA AddKeepsTypes ==
  ASSUME CtimerInv, NEW c \in Timer, AddToList(c), TypeOK'
  PROVE  CTypeOK' /\ Range(ctimer_list') = Range(ctimer_list) \cup {c}
         /\ reused \subseteq reused' /\ (Queued(c, queue) => c \in reused')
         /\ initialized' = initialized
BY ListOperations DEF AddToList, CtimerInv, CTypeOK

(***************************************************************************)
(* One lemma for every action                                               *)
(***************************************************************************)
\* ctimer_set, ctimer_reset and ctimer_restart once ctimer_process runs.
LEMMA SetLateKeeps ==
  ASSUME CtimerInv, NEW c \in Timer, initialized, Sets(c, ctimer_process), AddToList(c)
  PROVE  CtimerInv'
<1>1. EtimerInv /\ EtimerInv'
  BY SetsKeeps, TheProcess DEF CtimerInv
<1>2. PICK x \in Setting, at \in Int :
        at - x.interval <= now /\ Means(x, at) /\ Start(c, ctimer_process, x, at)
  BY <1>1, SettingStarts, TheProcess DEF Sets
<1>3. Range(timerlist') = Range(timerlist) \cup {c}
  BY <1>1, <1>2, StartKeeps, TheProcess
<1>4. now' = now /\ queue' = queue /\ deadline' = [deadline EXCEPT ![c] = at]
  BY <1>2 DEF Start
<1>5. \A u \in Timer \ {c} : deadline'[u] = deadline[u]
  BY <1>1, <1>4 DEF EtimerInv, TypeOK
<1>6. /\ CTypeOK' /\ Range(ctimer_list') = Range(ctimer_list) \cup {c}
      /\ reused \subseteq reused' /\ (Queued(c, queue) => c \in reused')
      /\ initialized' = initialized
  BY <1>1, AddKeepsTypes DEF EtimerInv
<1>7. EarlyInv'
  BY <1>6 DEF EarlyInv
<1>8. ListedIsArmed'
  BY <1>3, <1>4, <1>6 DEF CtimerInv, ListedIsArmed, Listed, Queued
<1>9. QueuedIsDue'
  BY <1>4, <1>5, <1>6 DEF CtimerInv, QueuedIsDue, Queued
<1>. QED  BY <1>1, <1>6, <1>7, <1>8, <1>9 DEF CtimerInv

\* Before it runs a ctimer is only put on the list, with its interval.
LEMMA SetEarlyKeeps ==
  ASSUME CtimerInv, NEW c \in Timer, ~initialized, SetEarly(c) \/ AddEarly(c), AddToList(c)
  PROVE  CtimerInv'
<1>1. /\ now' = now /\ timerlist' = timerlist /\ owner' = owner /\ stale' = stale
      /\ next_expiration' = next_expiration /\ queue' = queue /\ needspoll' = needspoll
      /\ walk' = walk /\ alive' = alive /\ sets' = sets + 1 /\ others' = others
      /\ adjusted' = adjusted /\ setter' = setter
  BY DEF SetEarly, AddEarly, list, settings, kernel
<1>2. \/ timer' = timer /\ deadline' = deadline
      \/ \E i \in Interval : /\ timer' = [timer EXCEPT ![c].interval = i]
                             /\ deadline' = [deadline EXCEPT ![c] = MaxTime + 1]
  BY DEF SetEarly, AddEarly, settings
<1>3. timerlist = <<>> /\ Range(timerlist) = {} /\ \A u \in Timer : ~Queued(u, queue)
  BY EmptyKept DEF CtimerInv, EarlyInv
<1>4. timer \in [Timer -> Setting] /\ deadline \in [Timer -> Int] /\ MaxTime \in Nat
  BY Constants DEF CtimerInv, EtimerInv, TypeOK, TimesInv
<1>5. /\ timer' \in [Timer -> Setting] /\ deadline' \in [Timer -> Int]
      /\ \A u \in Timer : deadline'[u] <= MaxTime => timer'[u] = timer[u] /\ deadline'[u] = deadline[u]
  <2>1. CASE timer' = timer /\ deadline' = deadline
    BY <1>4, <2>1
  <2>2. ASSUME NEW i \in Interval, timer' = [timer EXCEPT ![c].interval = i],
               deadline' = [deadline EXCEPT ![c] = MaxTime + 1]
        PROVE  /\ timer' \in [Timer -> Setting] /\ deadline' \in [Timer -> Int]
               /\ \A u \in Timer : deadline'[u] <= MaxTime => timer'[u] = timer[u] /\ deadline'[u] = deadline[u]
    <3>1. PICK x : x = [timer[c] EXCEPT !.interval = i]
      OBVIOUS
    <3>2. x \in Setting
      BY <1>4, <3>1 DEF Setting
    <3>3. timer' = [timer EXCEPT ![c] = x]
      BY <2>2, <3>1
    <3>4. timer' \in [Timer -> Setting] /\ \A u \in Timer \ {c} : timer'[u] = timer[u]
      BY <1>4, <3>2, <3>3
    <3>5. /\ deadline' \in [Timer -> Int] /\ deadline'[c] = MaxTime + 1
          /\ \A u \in Timer \ {c} : deadline'[u] = deadline[u]
      BY <1>4, <2>2
    <3>6. ~(MaxTime + 1 <= MaxTime)
      BY <1>4
    <3>. QED  BY <3>4, <3>5, <3>6
  <2>. QED  BY <1>2, <2>1, <2>2
<1>6. TypeOK'
  <2>1. timer' \in [Timer -> [start : Clock, interval : Clock]]
    BY <1>5, Constants
  <2>. QED  BY <1>1, <1>5, <2>1 DEF CtimerInv, EtimerInv, TypeOK
<1>7. TimesInv'
  <2>1. \A u \in Timer : deadline'[u] <= MaxTime => Means(timer'[u], deadline'[u])
    BY <1>5 DEF CtimerInv, EtimerInv, TimesInv
  <2>2. now' \in 0..MaxTime
    BY <1>1 DEF CtimerInv, EtimerInv, TimesInv
  <2>. QED  BY <1>1, <1>3, <1>5, <2>1, <2>2 DEF TimesInv
<1>8. EtimerInv'
  BY <1>1, <1>3, <1>6, <1>7 DEF CtimerInv, EtimerInv, ExpiredIsNoticed, NextInv, SetterInv, Listed
<1>9. CTypeOK' /\ initialized' = initialized
  BY <1>6, AddKeepsTypes
<1>. QED  BY <1>1, <1>3, <1>8, <1>9 DEF CtimerInv, EarlyInv, ListedIsArmed, QueuedIsDue, Queued

LEMMA CtimerStopKeeps ==
  ASSUME CtimerInv, NEW c \in Timer, ctimer_stop(c)
  PROVE  CtimerInv'
<1>1. /\ ctimer_list' \in Seq(Timer) /\ Range(ctimer_list') = Range(ctimer_list) \ {c}
      /\ IsInjective(ctimer_list') /\ initialized' = initialized /\ reused' = reused
  BY ListOperations DEF CtimerInv, ctimer_stop
<1>2. CASE initialized
  <2>1. etimer_stop(c) /\ EtimerInv
    BY <1>2 DEF ctimer_stop, CtimerInv
  <2>2. EtimerInv' /\ Range(timerlist') = Range(timerlist) \ {c}
    BY <2>1, StopKeeps
  <2>3. now' = now /\ queue' = queue /\ deadline' = deadline
    BY <2>1 DEF etimer_stop, settings, kernel
  <2>4. CTypeOK'
    BY <1>1, <2>2 DEF CtimerInv, CTypeOK, EtimerInv
  <2>5. EarlyInv' /\ ListedIsArmed' /\ QueuedIsDue'
    BY <1>1, <1>2, <2>2, <2>3 DEF CtimerInv, EarlyInv, ListedIsArmed, QueuedIsDue, Listed, Queued
  <2>. QED  BY <2>2, <2>4, <2>5 DEF CtimerInv
<1>3. CASE ~initialized
  <2>1. /\ now' = now /\ timerlist' = timerlist /\ stale' = stale
        /\ next_expiration' = next_expiration /\ queue' = queue /\ needspoll' = needspoll
        /\ walk' = walk /\ alive' = alive /\ sets' = sets /\ others' = others
        /\ adjusted' = adjusted /\ timer' = timer /\ deadline' = deadline
        /\ setter' = setter /\ owner' = [owner EXCEPT ![c] = None]
    BY <1>3 DEF ctimer_stop, StopEarly, settings, kernel, bounds
  <2>2. timerlist = <<>> /\ Range(timerlist) = {}
    BY <1>3, EmptyKept DEF CtimerInv, EarlyInv
  <2>3. owner' \in [Timer -> Proc \cup {None}]
    BY <2>1 DEF CtimerInv, EtimerInv, TypeOK
  <2>4. TypeOK'
    BY <2>1, <2>3 DEF CtimerInv, EtimerInv, TypeOK
  <2>5. EtimerInv'
    BY <2>1, <2>2, <2>4
       DEF CtimerInv, EtimerInv, TimesInv, ExpiredIsNoticed, NextInv, SetterInv, Listed
  <2>6. CTypeOK'
    BY <1>1, <2>4 DEF CtimerInv, CTypeOK
  <2>. QED  BY <1>1, <1>3, <2>1, <2>5, <2>6
            DEF CtimerInv, EarlyInv, ListedIsArmed, QueuedIsDue, Queued
<1>. QED  BY <1>2, <1>3

\* ctimer_process starts and sets the etimer of every ctimer on the list.
LEMMA StartProcessKeeps ==
  ASSUME CtimerInv, StartProcess
  PROVE  CtimerInv'
<1>1. /\ ~initialized /\ initialized' = TRUE /\ now' = now /\ adjusted' = adjusted
      /\ queue' = queue /\ walk' = walk /\ walk = 0 /\ alive' = alive /\ sets' = sets
      /\ others' = others /\ ctimer_list' = ctimer_list /\ reused' = reused /\ stale' = FALSE
      /\ next_expiration' = update_time(timerlist', timer')
      /\ timerlist' = Reverse(ctimer_list) \o timerlist
      /\ needspoll' = (needspoll \/ ctimer_list # <<>>)
  BY DEF StartProcess, bounds, searching
<1>2. /\ timerlist = <<>> /\ \A u \in Timer : ~Queued(u, queue)
      /\ now \in Nat /\ timer \in [Timer -> Setting] /\ deadline \in [Timer -> Int]
      /\ owner \in [Timer -> Proc \cup {None}] /\ ctimer_list \in Seq(Timer)
      /\ IsInjective(ctimer_list) /\ \A u \in Timer : setter[u] = None
  BY <1>1, EmptyKept
     DEF CtimerInv, EarlyInv, CTypeOK, EtimerInv, TypeOK, TimesInv, SetterInv, Listed
<1>3. PICK L : L = Range(ctimer_list)
  OBVIOUS
<1>4. /\ timerlist' \in Seq(Timer) /\ Range(timerlist') = L /\ L \subseteq Timer
      /\ IsInjective(timerlist')
  <2>1. PICK r : r = Reverse(ctimer_list)
    OBVIOUS
  <2>2. r \in Seq(Timer) /\ Range(r) = L /\ IsInjective(r)
    BY <1>2, <1>3, <2>1, ReversedRange
  <2>3. timerlist' = r
    BY <1>1, <1>2, <2>1, <2>2
  <2>. QED  BY <1>2, <1>3, <2>2, <2>3, ListRange
<1>5. \A c \in L : /\ timer[c].interval \in Nat
                   /\ [timer[c] EXCEPT !.start = clock_time] \in Setting
                   /\ Sound([timer[c] EXCEPT !.start = clock_time], now + timer[c].interval, now)
  <2>1. SUFFICES ASSUME NEW c \in L
                 PROVE  /\ timer[c].interval \in Nat
                        /\ [timer[c] EXCEPT !.start = clock_time] \in Setting
                        /\ Sound([timer[c] EXCEPT !.start = clock_time], now + timer[c].interval, now)
    OBVIOUS
  <2>2. timer[c] \in Setting
    BY <1>2, <1>4
  <2>3. PICK i, x : i = timer[c].interval /\ x = [timer[c] EXCEPT !.start = clock_time]
    OBVIOUS
  <2>4. i \in Nat /\ i \in Int
    BY <2>2, <2>3, SettingFacts
  <2>5. clock_time \in Clock /\ Wrap(clock_time + i) = Wrap(now + i)
    BY <1>2, <2>4, ClockNow
  <2>6. x \in Setting /\ x.start = clock_time /\ x.interval = i
    BY <2>2, <2>3, <2>5 DEF Setting
  <2>7. Sound(x, now + i, now)
    BY <1>2, <2>4, <2>5, <2>6, Constants DEF Sound, Means
  <2>. QED  BY <2>3, <2>4, <2>6, <2>7
<1>6. /\ timer' \in [Timer -> Setting]
      /\ \A c \in L : timer'[c] = [timer[c] EXCEPT !.start = clock_time]
      /\ \A c \in Timer \ L : timer'[c] = timer[c]
  <2>1. timer' = [c \in Timer |-> IF c \in L THEN [timer[c] EXCEPT !.start = clock_time]
                                  ELSE timer[c]]
    BY <1>3 DEF StartProcess
  <2>2. \A c \in L : [timer[c] EXCEPT !.start = clock_time] \in Setting
    BY <1>5
  <2>. QED  BY <1>2, <1>4, <2>1, <2>2
<1>7. /\ deadline' \in [Timer -> Int]
      /\ \A c \in L : deadline'[c] = now + timer[c].interval
      /\ \A c \in Timer \ L : deadline'[c] = deadline[c]
  <2>1. deadline' = [c \in Timer |-> IF c \in L THEN now + timer[c].interval ELSE deadline[c]]
    BY <1>3 DEF StartProcess
  <2>2. \A c \in L : now + timer[c].interval \in Int
    <3>1. SUFFICES ASSUME NEW c \in L PROVE now + timer[c].interval \in Int
      OBVIOUS
    <3>2. PICK i : i = timer[c].interval
      OBVIOUS
    <3>3. i \in Nat /\ now \in Nat
      BY <1>2, <1>5, <3>2
    <3>. QED  BY <3>2, <3>3
  <2>. QED  BY <1>2, <1>4, <2>1, <2>2
<1>8. /\ owner' \in [Timer -> Proc \cup {None}]
      /\ \A c \in L : owner'[c] \in Proc /\ owner'[c] = ctimer_process
  <2>1. owner' = [c \in Timer |-> IF c \in L THEN ctimer_process ELSE owner[c]]
    BY <1>3 DEF StartProcess
  <2>. QED  BY <1>2, <1>4, <2>1, TheProcess
<1>s. /\ setter' \in [Timer -> Proc \cup {None}]
      /\ \A c \in Timer : setter'[c] = IF c \in L THEN ctimer_process ELSE None
  <2>1. setter' = [c \in Timer |-> IF c \in L THEN ctimer_process ELSE setter[c]]
    BY <1>3 DEF StartProcess
  <2>. QED  BY <1>2, <1>4, <2>1, TheProcess
<1>9. \A c \in Range(timerlist') : owner'[c] \in Proc /\ Sound(timer'[c], deadline'[c], now)
  BY <1>4, <1>5, <1>6, <1>7, <1>8
<1>10. /\ update_time(timerlist', timer') \in Clock
       /\ timerlist' # <<>> /\ (\A u \in Range(timerlist') : now < deadline'[u])
            => NextIs(timerlist', deadline', update_time(timerlist', timer'))
  BY <1>2, <1>4, <1>6, <1>7, <1>9, Refreshed
<1>11. TypeOK'
  <2>1. timer' \in [Timer -> [start : Clock, interval : Clock]]
    BY <1>6, Constants
  <2>2. needspoll' \in BOOLEAN /\ stale' \in BOOLEAN
    BY <1>1, Zenon
  <2>. QED  BY <1>1, <1>4, <1>7, <1>8, <1>s, <1>10, <2>1, <2>2 DEF CtimerInv, EtimerInv, TypeOK
<1>12. TimesInv'
  <2>1. \A u \in Timer : deadline'[u] <= MaxTime => Means(timer'[u], deadline'[u])
    <3>1. SUFFICES ASSUME NEW u \in Timer, deadline'[u] <= MaxTime
                   PROVE  Means(timer'[u], deadline'[u])
      OBVIOUS
    <3>2. CASE u \in L
      BY <1>4, <1>9, <3>2 DEF Sound
    <3>3. CASE u \notin L
      BY <1>6, <1>7, <3>1, <3>3 DEF CtimerInv, EtimerInv, TimesInv
    <3>. QED  BY <3>2, <3>3
  <2>2. now' \in 0..MaxTime
    BY <1>1 DEF CtimerInv, EtimerInv, TimesInv
  <2>. QED  BY <1>1, <1>6, <1>9, <2>1, <2>2 DEF TimesInv
<1>13. ExpiredIsNoticed'
  <2>1. CASE ctimer_list = <<>>
    BY <1>3, <1>4, <2>1, EmptyKept DEF ExpiredIsNoticed
  <2>2. CASE ctimer_list # <<>>
    BY <1>1, <2>2 DEF ExpiredIsNoticed
  <2>. QED  BY <2>1, <2>2
<1>14. NextInv'
  BY <1>1, <1>10 DEF NextInv
<1>15. CTypeOK'
  BY <1>1, <1>11 DEF CtimerInv, CTypeOK
<1>16. EarlyInv' /\ ListedIsArmed' /\ QueuedIsDue'
  BY <1>1, <1>2, <1>3, <1>4 DEF EarlyInv, ListedIsArmed, QueuedIsDue, Listed, Queued
<1>17. SetterInv'
  BY <1>4, <1>8, <1>s DEF SetterInv, Listed
<1>. QED  BY <1>11, <1>12, <1>13, <1>14, <1>15, <1>16, <1>17 DEF CtimerInv, EtimerInv

\* What taking the oldest event leaves queued.
LEMMA Delivered ==
  ASSUME CtimerInv, Deliver
  PROVE  /\ EtimerInv' /\ now' = now /\ deadline' = deadline /\ timerlist' = timerlist
         /\ queue # <<>> /\ queue' = Tail(queue)
         /\ \A c \in Timer : Queued(c, queue) <=>
              Queued(c, Tail(queue)) \/ Head(queue) = <<ctimer_process, c>>
<1>1. /\ now' = now /\ deadline' = deadline /\ timerlist' = timerlist
      /\ queue # <<>> /\ queue' = Tail(queue)
  BY DEF Deliver, list, settings
<1>2. EtimerInv'
  BY QuietKeeps DEF CtimerInv
<1>3. Range(queue) = Range(Tail(queue)) \cup {Head(queue)}
  BY <1>1, Taken DEF CtimerInv, EtimerInv, TypeOK
<1>. QED  BY <1>1, <1>2, <1>3 DEF Queued

LEMMA CallbackKeeps ==
  ASSUME CtimerInv, NEW c \in Timer, Callback(c)
  PROVE  CtimerInv'
<1>1. /\ Deliver /\ Head(queue) = <<ctimer_process, c>> /\ initialized' = initialized
      /\ reused' = IF Queued(c, Tail(queue)) THEN reused ELSE reused \ {c}
      /\ ctimer_list' \in Seq(Timer) /\ Range(ctimer_list') = Range(ctimer_list) \ {c}
      /\ IsInjective(ctimer_list')
  BY ListOperations DEF CtimerInv, Callback
<1>2. /\ EtimerInv' /\ now' = now /\ deadline' = deadline /\ timerlist' = timerlist
      /\ queue' = Tail(queue)
      /\ \A d \in Timer : Queued(d, queue) <=> Queued(d, queue') \/ d = c
  <2>1. \A d : Head(queue) = <<ctimer_process, d>> <=> d = c
    BY <1>1
  <2>2. /\ EtimerInv' /\ now' = now /\ deadline' = deadline /\ timerlist' = timerlist
        /\ queue' = Tail(queue)
        /\ \A d \in Timer : Queued(d, queue) <=>
             Queued(d, Tail(queue)) \/ Head(queue) = <<ctimer_process, d>>
    BY <1>1, Delivered
  <2>3. \A d : Queued(d, queue') <=> Queued(d, Tail(queue))
    BY <2>2
  <2>. QED  BY <2>1, <2>2, <2>3, Zenon
<1>3. CTypeOK'
  BY <1>1, <1>2 DEF CtimerInv, CTypeOK, EtimerInv
<1>4. EarlyInv'
  BY <1>1, <1>2 DEF CtimerInv, EarlyInv
<1>5. ListedIsArmed'
  <2>1. Range(ctimer_list) \subseteq Timer
    BY ListRange DEF CtimerInv, CTypeOK
  <2>. QED  BY <1>1, <1>2, <2>1 DEF CtimerInv, ListedIsArmed, Listed
<1>6. QueuedIsDue'
  BY <1>1, <1>2 DEF CtimerInv, QueuedIsDue
<1>. QED  BY <1>2, <1>3, <1>4, <1>5, <1>6 DEF CtimerInv

LEMMA OtherEventKeeps ==
  ASSUME CtimerInv, OtherEvent
  PROVE  CtimerInv'
<1>1. /\ Deliver /\ \A c \in Range(ctimer_list) : Head(queue) # <<ctimer_process, c>>
      /\ reused' = {c \in reused : Queued(c, Tail(queue))}
      /\ initialized' = initialized /\ ctimer_list' = ctimer_list
  BY DEF OtherEvent
<1>2. /\ EtimerInv' /\ now' = now /\ deadline' = deadline /\ timerlist' = timerlist
      /\ queue' = Tail(queue)
      /\ \A c \in Timer : Queued(c, queue') => Queued(c, queue)
      /\ \A c \in Timer : Queued(c, queue) =>
           Queued(c, queue') \/ Head(queue) = <<ctimer_process, c>>
  BY <1>1, Delivered
<1>3. CTypeOK'
  BY <1>1, <1>2 DEF CtimerInv, CTypeOK, EtimerInv
<1>4. EarlyInv'
  BY <1>1, <1>2 DEF CtimerInv, EarlyInv
<1>5. ListedIsArmed'
  <2>1. Range(ctimer_list) \subseteq Timer
    BY ListRange DEF CtimerInv, CTypeOK
  <2>. QED  BY <1>1, <1>2, <2>1 DEF CtimerInv, ListedIsArmed, Listed
<1>6. QueuedIsDue'
  BY <1>1, <1>2 DEF CtimerInv, QueuedIsDue
<1>. QED  BY <1>2, <1>3, <1>4, <1>5, <1>6 DEF CtimerInv

\* A search that posts an event does so for a timer whose time has come.
LEMMA PostKeeps ==
  ASSUME CtimerInv, SearchPosts, UNCHANGED <<initialized, ctimer_list, reused>>
  PROVE  CtimerInv'
<1>1. PICK t : t = Reached
  OBVIOUS
<1>2. /\ now' = now /\ deadline' = deadline /\ queue' = Append(queue, <<owner[t], t>>)
      /\ initialized' = initialized /\ ctimer_list' = ctimer_list /\ reused' = reused
  BY <1>1 DEF SearchPosts, process_post, settings
<1>3. /\ EtimerInv' /\ Range(timerlist') = Range(timerlist) \ {t} /\ t \in Range(timerlist)
      /\ t \in Timer /\ deadline[t] <= now /\ owner[t] = ctimer_process
  BY <1>1, SearchPostsKeeps, ReachedIsDue, ListedTimes, TheProcess DEF CtimerInv, SearchPosts
<1>4. initialized
  BY <1>3, EmptyKept DEF CtimerInv, EarlyInv
<1>5. \A c \in Timer : Queued(c, queue') <=> Queued(c, queue) \/ c = t
  <2>1. PICK e, T : e = <<ctimer_process, t>> /\ T = (Proc \cup {None}) \X (Timer \cup {None})
    OBVIOUS
  <2>2. e \in T /\ queue \in Seq(T)
    BY <1>3, <2>1, TheProcess DEF CtimerInv, EtimerInv, TypeOK
  <2>3. Range(queue') = Range(queue) \cup {e}
    <3>1. queue' = Append(queue, e)
      BY <1>2, <1>3, <2>1
    <3>2. Range(Append(queue, e)) = Range(queue) \cup {e}
      BY <2>2, Appended
    <3>. QED  BY <3>1, <3>2
  <2>. QED  BY <2>1, <2>3 DEF Queued
<1>6. CTypeOK'
  BY <1>2, <1>3 DEF CtimerInv, CTypeOK, EtimerInv
<1>7. ListedIsArmed'
  <2>1. Range(ctimer_list) \subseteq Timer
    BY ListRange DEF CtimerInv, CTypeOK
  <2>. QED  BY <1>2, <1>3, <1>5, <2>1 DEF CtimerInv, ListedIsArmed, Listed
<1>8. EarlyInv' /\ QueuedIsDue'
  BY <1>2, <1>3, <1>4, <1>5 DEF CtimerInv, EarlyInv, QueuedIsDue
<1>. QED  BY <1>3, <1>6, <1>7, <1>8 DEF CtimerInv

\* Ticks, the other steps of the search and the events of other modules.
LEMMA TimersKeep ==
  ASSUME CtimerInv, Tick \/ Poll \/ SearchFails \/ SearchSkips \/ SearchEnds \/ OtherPost,
         UNCHANGED <<initialized, ctimer_list, reused>>
  PROVE  CtimerInv'
<1>1. EtimerInv'
  BY TickKeeps, QuietKeeps DEF CtimerInv
<1>2. /\ initialized' = initialized /\ ctimer_list' = ctimer_list /\ reused' = reused
      /\ timerlist' = timerlist /\ deadline' = deadline
  BY DEF Tick, Poll, SearchFails, SearchSkips, SearchEnds, OtherPost, list, settings
<1>3. CTypeOK'
  BY <1>1, <1>2 DEF CtimerInv, CTypeOK, EtimerInv
<1>4. \A c \in Timer : Queued(c, queue') <=> Queued(c, queue)
  <2>1. CASE OtherPost
    <3>1. queue' = Append(queue, <<None, None>>)
      BY <2>1 DEF OtherPost, process_post
    <3>2. PICK T : T = (Proc \cup {None}) \X (Timer \cup {None})
      OBVIOUS
    <3>3. queue \in Seq(T) /\ <<None, None>> \in T
      BY <3>2 DEF CtimerInv, EtimerInv, TypeOK
    <3>4. Range(queue') = Range(queue) \cup {<<None, None>>}
      BY <3>1, <3>3, Appended
    <3>5. \A c : <<ctimer_process, c>> # <<None, None>>
      BY TheProcess, Constants
    <3>. QED  BY <3>4, <3>5 DEF Queued
  <2>2. CASE Tick \/ Poll \/ SearchFails \/ SearchSkips \/ SearchEnds
    BY <2>2 DEF Tick, Poll, SearchFails, SearchSkips, SearchEnds
  <2>. QED  BY <2>1, <2>2
<1>5. now \in Int /\ (now' = now \/ now' = now + 1)
  BY ListedTimes DEF CtimerInv, Tick, Poll, SearchFails, SearchSkips, SearchEnds, OtherPost
<1>6. \A c \in Timer : deadline[c] \in Int
  BY DEF CtimerInv, EtimerInv, TypeOK
<1>7. EarlyInv'
  BY <1>2, <1>4 DEF CtimerInv, EarlyInv
<1>8. ListedIsArmed'
  <2>1. Range(ctimer_list) \subseteq Timer
    BY ListRange DEF CtimerInv, CTypeOK
  <2>. QED  BY <1>2, <1>4, <2>1 DEF CtimerInv, ListedIsArmed, Listed
<1>9. QueuedIsDue'
  BY <1>2, <1>4, <1>5, <1>6 DEF CtimerInv, QueuedIsDue
<1>. QED  BY <1>1, <1>3, <1>7, <1>8, <1>9 DEF CtimerInv

(***************************************************************************)
(* The theorems                                                             *)
(***************************************************************************)
LEMMA CInitEstablishes == CInit => CtimerInv
<1>1. SUFFICES ASSUME CInit PROVE CtimerInv
  OBVIOUS
<1>2. EtimerInv
  BY <1>1, InitEstablishes DEF CInit
<1>3. /\ timerlist = <<>> /\ Range(queue) = {} /\ ctimer_list = <<>>
      /\ initialized = FALSE /\ reused = {}
  BY <1>1, EmptyKept DEF CInit, Init
<1>4. CTypeOK
  <2>1. initialized \in BOOLEAN
    BY <1>3, Zenon
  <2>2. ctimer_list \in Seq(Timer) /\ IsInjective(ctimer_list) /\ reused \subseteq Timer
    BY <1>3 DEF IsInjective
  <2>. QED  BY <1>2, <2>1, <2>2 DEF EtimerInv, CTypeOK
<1>. QED  BY <1>2, <1>3, <1>4 DEF CtimerInv, EarlyInv, ListedIsArmed, QueuedIsDue, Queued

LEMMA CStepKeeps == CtimerInv /\ [CNext]_cvars => CtimerInv'
<1>1. SUFFICES ASSUME CtimerInv, [CNext]_cvars PROVE CtimerInv'
  OBVIOUS
<1>2. CASE UNCHANGED cvars
  <2>1. /\ now' = now /\ timer' = timer /\ owner' = owner /\ timerlist' = timerlist
        /\ next_expiration' = next_expiration /\ queue' = queue /\ needspoll' = needspoll
        /\ walk' = walk /\ alive' = alive /\ sets' = sets /\ others' = others
        /\ deadline' = deadline /\ adjusted' = adjusted /\ stale' = stale /\ setter' = setter
    BY <1>2 DEF cvars, vars, list, settings, kernel, bounds
  <2>2. initialized' = initialized /\ ctimer_list' = ctimer_list /\ reused' = reused
    BY <1>2 DEF cvars
  <2>3. EtimerInv'
    BY <1>1, <2>1, NothingChanges DEF CtimerInv
  <2>4. CTypeOK'
    BY <1>1, <2>2, <2>3 DEF CtimerInv, CTypeOK, EtimerInv
  <2>. QED  BY <1>1, <2>1, <2>2, <2>3, <2>4
            DEF CtimerInv, EarlyInv, ListedIsArmed, QueuedIsDue, Listed, Queued
<1>3. CASE CNext
  <2>1. ASSUME NEW c \in Timer, ctimer_set(c) \/ ctimer_reset(c) \/ ctimer_restart(c)
        PROVE  CtimerInv'
    <3>1. AddToList(c)
      BY <2>1 DEF ctimer_set, ctimer_reset, ctimer_restart
    <3>2. CASE initialized
      <4>1. Sets(c, ctimer_process)
        BY <2>1, <3>2 DEF ctimer_set, ctimer_reset, ctimer_restart, Sets
      <4>. QED  BY <1>1, <3>1, <3>2, <4>1, SetLateKeeps
    <3>3. CASE ~initialized
      <4>1. SetEarly(c)
        BY <2>1, <3>3 DEF ctimer_set, ctimer_reset, ctimer_restart
      <4>. QED  BY <1>1, <3>1, <3>3, <4>1, SetEarlyKeeps
    <3>. QED  BY <3>2, <3>3
  <2>2. ASSUME NEW c \in Timer, AddEarly(c) PROVE CtimerInv'
    <3>1. ~initialized /\ AddToList(c)
      BY <2>2 DEF AddEarly
    <3>. QED  BY <1>1, <2>2, <3>1, SetEarlyKeeps
  <2>3. CASE \E c \in Timer : ctimer_stop(c)
    BY <1>1, <2>3, CtimerStopKeeps
  <2>4. CASE \E c \in Timer : Callback(c)
    BY <1>1, <2>4, CallbackKeeps
  <2>5. CASE StartProcess
    BY <1>1, <2>5, StartProcessKeeps
  <2>6. CASE OtherEvent
    BY <1>1, <2>6, OtherEventKeeps
  <2>7. CASE Timers
    <3>1. UNCHANGED <<initialized, ctimer_list, reused>>
      BY <2>7 DEF Timers
    <3>2. SearchPosts \/ Tick \/ Poll \/ SearchFails \/ SearchSkips \/ SearchEnds \/ OtherPost
      BY <2>7 DEF Timers, Search
    <3>. QED  BY <1>1, <3>1, <3>2, PostKeeps, TimersKeep
  <2>. QED  BY <1>3, <2>1, <2>2, <2>3, <2>4, <2>5, <2>6, <2>7, Zenon DEF CNext
<1>. QED  BY <1>1, <1>2, <1>3

\* The invariant that the theorems below rest on: the etimers under the ctimers,
\* what waits until ctimer_process starts, and what its queued events mean.
THEOREM CtimerInvHolds == CSpec => []CtimerInv
  BY CInitEstablishes, CStepKeeps, PTL DEF CSpec

\* Every variable of the callback timers keeps its type.
THEOREM CtimerTypeCorrect == CSpec => []CTypeOK
<1>1. CtimerInv => CTypeOK
  BY DEF CtimerInv
<1>. QED  BY <1>1, CtimerInvHolds, PTL

\* No callback is lost: once ctimer_process runs, a ctimer on the list has its
\* etimer running, or its event is queued.
THEOREM ListedCtimersAreArmed == CSpec => []ListedIsArmed
<1>1. CtimerInv => ListedIsArmed
  BY DEF CtimerInv
<1>. QED  BY <1>1, CtimerInvHolds, PTL

\* ctimer_process calls no callback before its time, unless the ctimer was set
\* again while an event of it was queued.
THEOREM CallbacksAreNotEarly == CSpec => CallbackNotEarly
<1>1. ASSUME CtimerInv
      PROVE  \A c \in Timer : Callback(c) /\ c \notin reused => deadline[c] <= now
  <2>1. SUFFICES ASSUME NEW c \in Timer, Callback(c), c \notin reused
                 PROVE  deadline[c] <= now
    OBVIOUS
  <2>2. queue # <<>> /\ Head(queue) = <<ctimer_process, c>>
    BY <2>1 DEF Callback
  <2>3. Head(queue) \in Range(queue)
    BY <1>1, <2>2, Taken DEF CtimerInv, EtimerInv, TypeOK
  <2>. QED  BY <1>1, <2>1, <2>2, <2>3 DEF CtimerInv, QueuedIsDue, Queued
<1>2. CtimerInv =>
        [\A c \in Timer : Callback(c) /\ c \notin reused => deadline[c] <= now]_cvars
  BY <1>1
<1>. QED  BY <1>2, CtimerInvHolds, PTL DEF CallbackNotEarly
=============================================================================
