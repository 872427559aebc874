---------------------------- MODULE EtimerProofs ----------------------------
(***************************************************************************)
(* What is proved about the event timers for every value of the constants:  *)
(* type correctness, that an expired timer is noticed, that the time a port *)
(* may sleep until is that of the next timer, and that etimer.c implements  *)
(* EventTimers although the clock wraps and the event queue may be full.    *)
(***************************************************************************)
EXTENDS Etimer, LeastNumber, FiniteSetTheorems, TLAPS

(***************************************************************************)
(* Arithmetic modulo ClockMod                                               *)
(***************************************************************************)
LEMMA ModDef ==
  ASSUME NEW M \in Nat, M > 0, NEW x \in Int
  PROVE  x = (x \div M) * M + (x % M) /\ x % M \in 0..M - 1 /\ x \div M \in Int
<1>1. x = (x \div M) * M + (x % M)
  BY SMTT(30)
<1>2. x % M \in 0..M - 1 /\ x \div M \in Int
  OBVIOUS
<1>. QED  BY <1>1, <1>2

\* Quotient and remainder are unique.
LEMMA ModUnique ==
  ASSUME NEW M \in Nat, M > 0, NEW q \in Int, NEW r \in 0..M - 1, NEW x \in Int,
         x = q * M + r
  PROVE  x % M = r
<1>1. PICK q1, r1 : q1 = x \div M /\ r1 = x % M
  OBVIOUS
<1>2. q1 \in Int /\ r1 \in 0..M - 1 /\ q1 * M + r1 = q * M + r
  BY <1>1, ModDef
<1>3. r1 = r
  <2>. HIDE <1>1
  <2>1. (q1 - q) * M = r - r1
    BY <1>2
  <2>2. PICK d : d = q1 - q
    OBVIOUS
  <2>3. d \in Int /\ d * M = r - r1
    BY <1>2, <2>1, <2>2
  <2>4. d >= 1 => d * M >= M
    BY <2>3
  <2>5. d <= -1 => d * M <= -M
    BY <2>3
  <2>6. d = 0
    BY <1>2, <2>3, <2>4, <2>5
  <2>. QED  BY <1>2, <2>3, <2>6
<1>. QED  BY <1>1, <1>3

\* Whole turns of the clock do not matter.
LEMMA ModShift ==
  ASSUME NEW M \in Nat, M > 0, NEW x \in Int, NEW k \in Int
  PROVE  (x + k * M) % M = x % M
<1>1. PICK q, r : q = x \div M /\ r = x % M
  OBVIOUS
<1>2. q \in Int /\ r \in 0..M - 1 /\ x = q * M + r
  BY <1>1, ModDef
<1>3. PICK y : y = x + k * M
  OBVIOUS
<1>4. y \in Int /\ y = (q + k) * M + r
  BY <1>2, <1>3
<1>5. y % M = r
  BY <1>2, <1>4, ModUnique
<1>. QED  BY <1>1, <1>3, <1>5

LEMMA WrapType ==
  /\ ClockMod \in Nat /\ ClockMod > 0
  /\ \A x \in Int : Wrap(x) \in Clock
  /\ \A x \in Clock : Wrap(x) = x /\ x \in Int
<1>1. ClockMod \in Nat /\ ClockMod > 0
  BY EtimerAssumption
<1>2. \A x \in Int : Wrap(x) \in Clock
  BY <1>1, ModDef DEF Wrap, Clock
<1>3. ASSUME NEW x \in Clock
      PROVE  Wrap(x) = x /\ x \in Int
  <2>1. x \in Int /\ x \in 0..ClockMod - 1 /\ x = 0 * ClockMod + x
    BY <1>1 DEF Clock
  <2>. QED  BY <1>1, <2>1, ModUnique DEF Wrap
<1>. QED  BY <1>1, <1>2, <1>3

\* Sums and differences may be reduced early.
LEMMA WrapSum ==
  ASSUME NEW x \in Int, NEW y \in Int
  PROVE  Wrap(Wrap(x) + y) = Wrap(x + y) /\ Wrap(y - Wrap(x)) = Wrap(y - x)
<1>m. PICK M : M = ClockMod
  OBVIOUS
<1>1. PICK q, r : q = x \div M /\ r = x % M
  OBVIOUS
<1>2. M \in Nat /\ M > 0 /\ q \in Int /\ r \in Int /\ x = q * M + r /\ Wrap(x) = r
  BY <1>m, <1>1, WrapType, ModDef DEF Wrap
<1>3. PICK u, v : u = x + y /\ v = y - x
  OBVIOUS
<1>4. u \in Int /\ v \in Int /\ -q \in Int
  BY <1>2, <1>3
<1>5. r + y = u + (-q) * M /\ y - r = v + q * M
  BY <1>2, <1>3
<1>6. (u + (-q) * M) % M = u % M /\ (v + q * M) % M = v % M
  BY <1>2, <1>4, ModShift
<1>. QED  BY <1>m, <1>2, <1>3, <1>5, <1>6 DEF Wrap

(***************************************************************************)
(* Kept: the elements of a sequence that are in a set                       *)
(***************************************************************************)
OneKept(s, e, S) == IF e \in S THEN Append(s, e) ELSE s

IsKept(kept, l, S) ==
  kept = [i \in 0..Len(l) |-> IF i = 0 THEN <<>>
                              ELSE IF l[i] \in S THEN Append(kept[i - 1], l[i])
                              ELSE kept[i - 1]]

KeptUpTo(l, S) == CHOOSE kept : IsKept(kept, l, S)

\* The recursion is well defined: there is a function with these equations.
LEMMA KeptExists ==
  ASSUME NEW T, NEW l \in Seq(T), NEW S
  PROVE  \E kept : IsKept(kept, l, S)
<1>. DEFINE Eq(f, k) ==
       f = [i \in 0..k |-> IF i = 0 THEN <<>> ELSE OneKept(f[i - 1], l[i], S)]
<1>0. PICK N : N = Len(l)
  OBVIOUS
<1>n. N \in Nat
  BY <1>0
<1>1. PICK A : A = {k \in Nat : \E f : Eq(f, k)}
  OBVIOUS
<1>2. 0 \in A
  <2>1. PICK f : f = [i \in 0..0 |-> <<>>]
    OBVIOUS
  <2>2. Eq(f, 0)
    BY <2>1
  <2>. QED  BY <1>1, <2>2
<1>3. ASSUME NEW k \in 0..N, k \in A, k < N
      PROVE  k + 1 \in A
  <2>1. PICK f : Eq(f, k)
    BY <1>1, <1>3
  <2>2. PICK g : g = [i \in 0..k + 1 |-> IF i = k + 1 THEN OneKept(f[k], l[k + 1], S) ELSE f[i]]
    OBVIOUS
  <2>3. k \in Nat
    BY <1>n
  <2>4. ASSUME NEW i \in 0..k + 1
        PROVE  g[i] = IF i = 0 THEN <<>> ELSE OneKept(g[i - 1], l[i], S)
    <3>1. CASE i = k + 1
      <4>1. g[i] = OneKept(f[k], l[i], S) /\ i - 1 = k /\ i # 0 /\ k \in 0..k + 1 /\ k # k + 1
        BY <2>2, <2>3, <3>1
      <4>2. g[i - 1] = f[k]
        BY <2>2, <4>1
      <4>. QED  BY <4>1, <4>2
    <3>2. CASE i # k + 1
      <4>1. i \in 0..k /\ (i # 0 => i - 1 \in 0..k /\ i - 1 \in 0..k + 1 /\ i - 1 # k + 1)
        BY <2>3, <3>2
      <4>2. g[i] = f[i] /\ (i # 0 => g[i - 1] = f[i - 1])
        BY <2>2, <3>2, <4>1
      <4>3. f[i] = IF i = 0 THEN <<>> ELSE OneKept(f[i - 1], l[i], S)
        BY <2>1, <4>1
      <4>. QED  BY <4>2, <4>3
    <3>. QED  BY <3>1, <3>2
  <2>5. Eq(g, k + 1)
    <3>1. g = [i \in 0..k + 1 |-> g[i]]
      BY <2>2
    <3>. QED  BY <2>4, <3>1
  <2>. QED  BY <1>1, <2>3, <2>5
<1>4. N \in A
  BY <1>2, <1>3, <1>n, ReachesEnd
<1>5. PICK f : Eq(f, N)
  BY <1>1, <1>4
<1>6. IsKept(f, l, S)
  BY <1>0, <1>5 DEF OneKept, IsKept
<1>. QED  BY <1>6

LEMMA KeptEquations ==
  ASSUME NEW T, NEW l \in Seq(T), NEW S
  PROVE  /\ KeptUpTo(l, S)[0] = <<>>
         /\ \A i \in 0..Len(l) : i < Len(l) =>
              KeptUpTo(l, S)[i + 1] = OneKept(KeptUpTo(l, S)[i], l[i + 1], S)
         /\ Kept(l, S) = KeptUpTo(l, S)[Len(l)]
<1>1. PICK f, N : f = KeptUpTo(l, S) /\ N = Len(l)
  OBVIOUS
<1>2. f = [i \in 0..N |-> IF i = 0 THEN <<>> ELSE OneKept(f[i - 1], l[i], S)]
  <2>1. IsKept(KeptUpTo(l, S), l, S)
    BY KeptExists, Zenon DEF KeptUpTo
  <2>. QED  BY <1>1, <2>1 DEF IsKept, OneKept
<1>3. N \in Nat
  BY <1>1
<1>4. f[0] = <<>>
  <2>1. 0 \in 0..N
    BY <1>3
  <2>. QED  BY <1>2, <2>1
<1>5. ASSUME NEW i \in 0..N, i < N
      PROVE  f[i + 1] = OneKept(f[i], l[i + 1], S)
  <2>1. i + 1 \in 0..N /\ i + 1 # 0 /\ (i + 1) - 1 = i
    BY <1>3, <1>5
  <2>. QED  BY <1>2, <2>1
<1>6. Kept(l, S) = KeptUpTo(l, S)[Len(l)]
  BY DEF Kept, KeptUpTo, IsKept
<1>. QED  BY <1>1, <1>4, <1>5, <1>6

\* A property of the values of the recursion that each step preserves holds of
\* its result; here, what sequence it is and what it holds.
LEMMA KeptType ==
  ASSUME NEW T, NEW l \in Seq(T), NEW S
  PROVE  Kept(l, S) \in Seq(T) /\ Range(Kept(l, S)) = Range(l) \cap S
<1>1. PICK f, N : f = KeptUpTo(l, S) /\ N = Len(l)
  OBVIOUS
<1>2. /\ f[0] = <<>> /\ Kept(l, S) = f[N] /\ N \in Nat
      /\ \A i \in 0..N : i < N => f[i + 1] = OneKept(f[i], l[i + 1], S)
  BY <1>1, KeptEquations
<1>. DEFINE Good(i) == f[i] \in Seq(T) /\ Range(f[i]) = {l[j] : j \in 1..i} \cap S
<1>3. PICK A : A = {i \in 0..N : Good(i)}
  OBVIOUS
<1>4. 0 \in A
  <2>1. Range(<<>>) = {}
    BY DEF Range
  <2>2. {l[j] : j \in 1..0} = {} /\ 0 \in 0..N
    BY <1>2
  <2>3. f[0] \in Seq(T) /\ Range(f[0]) = {l[j] : j \in 1..0} \cap S
    BY <1>2, <2>1, <2>2
  <2>. QED  BY <1>3, <2>2, <2>3
<1>5. ASSUME NEW i \in 0..N, i \in A, i < N
      PROVE  i + 1 \in A
  <2>1. PICK s, e, t : s = f[i] /\ e = l[i + 1] /\ t = f[i + 1]
    OBVIOUS
  <2>2. /\ s \in Seq(T) /\ Range(s) = {l[j] : j \in 1..i} \cap S
        /\ t = OneKept(s, e, S) /\ e \in T /\ i + 1 \in 0..N /\ i \in Nat
    BY <1>1, <1>2, <1>3, <1>5, <2>1
  <2>3. {l[j] : j \in 1..i + 1} = {l[j] : j \in 1..i} \cup {e}
    <3>1. ASSUME NEW j \in 1..i + 1 PROVE l[j] \in {l[k] : k \in 1..i} \cup {e}
      <4>1. j \in 1..i \/ j = i + 1
        BY <2>2
      <4>. QED  BY <2>1, <4>1
    <3>2. ASSUME NEW j \in 1..i PROVE l[j] \in {l[k] : k \in 1..i + 1}
      <4>1. j \in 1..i + 1
        BY <2>2
      <4>. QED  BY <4>1
    <3>3. e \in {l[k] : k \in 1..i + 1}
      <4>1. i + 1 \in 1..i + 1
        BY <2>2
      <4>. QED  BY <2>1, <4>1
    <3>. QED  BY <3>1, <3>2, <3>3
  <2>4. CASE e \in S
    <3>1. t = Append(s, e) /\ t \in Seq(T)
      BY <2>2, <2>4 DEF OneKept
    <3>2. Range(t) = Range(s) \cup {e}
      <4>1. Len(t) = Len(s) + 1 /\ Len(s) \in Nat /\ t[Len(s) + 1] = e
            /\ DOMAIN t = 1..Len(s) + 1 /\ DOMAIN s = 1..Len(s)
            /\ \A k \in 1..Len(s) : t[k] = s[k]
        BY <2>2, <3>1
      <4>2. \A k \in 1..Len(s) + 1 : k \in 1..Len(s) \/ k = Len(s) + 1
        BY <4>1
      <4>3. Len(s) + 1 \in 1..Len(s) + 1 /\ \A k \in 1..Len(s) : k \in 1..Len(s) + 1
        BY <4>1
      <4>. QED  BY <4>1, <4>2, <4>3 DEF Range
    <3>. QED  BY <1>3, <2>1, <2>2, <2>3, <2>4, <3>1, <3>2
  <2>5. CASE e \notin S
    <3>1. t = s
      BY <2>2, <2>5 DEF OneKept
    <3>. QED  BY <1>3, <2>1, <2>2, <2>3, <2>5, <3>1
  <2>. QED  BY <2>4, <2>5
<1>6. N \in A
  BY <1>2, <1>4, <1>5, ReachesEnd
<1>7. Range(l) = {l[j] : j \in 1..N}
  BY <1>1 DEF Range
<1>. QED  BY <1>2, <1>3, <1>6, <1>7

\* Of a sequence that repeats nothing the elements kept are not repeated.
LEMMA KeptInjective ==
  ASSUME NEW T, NEW l \in Seq(T), NEW S, IsInjective(l)
  PROVE  IsInjective(Kept(l, S))
<1>1. PICK f, N : f = KeptUpTo(l, S) /\ N = Len(l)
  OBVIOUS
<1>2. /\ f[0] = <<>> /\ Kept(l, S) = f[N] /\ N \in Nat
      /\ \A i \in 0..N : i < N => f[i + 1] = OneKept(f[i], l[i + 1], S)
  BY <1>1, KeptEquations
<1>. DEFINE From(s, i) == /\ s \in Seq(T) /\ IsInjective(s)
                          /\ \A k \in 1..Len(s) : \E j \in 1..i : s[k] = l[j]
<1>3. PICK A : A = {i \in 0..N : From(f[i], i)}
  OBVIOUS
<1>4. 0 \in A
  <2>1. PICK s : s = <<>>
    OBVIOUS
  <2>2. s \in Seq(T) /\ DOMAIN s = {} /\ 1..Len(s) = {}
    BY <2>1
  <2>3. IsInjective(s)
    BY <2>2, Zenon DEF IsInjective
  <2>4. From(s, 0)
    BY <2>2, <2>3
  <2>5. 0 \in 0..N
    BY <1>2
  <2>. HIDE DEF From
  <2>. QED  BY <1>2, <1>3, <2>1, <2>4, <2>5
<1>5. ASSUME NEW i \in 0..N, i \in A, i < N
      PROVE  i + 1 \in A
  <2>1. PICK s, e, t, n : s = f[i] /\ e = l[i + 1] /\ t = f[i + 1] /\ n = Len(s)
    OBVIOUS
  <2>2. /\ s \in Seq(T) /\ IsInjective(s) /\ \A k \in 1..n : \E j \in 1..i : s[k] = l[j]
        /\ t = OneKept(s, e, S) /\ e \in T /\ i + 1 \in 0..N /\ i \in Nat /\ n \in Nat
        /\ DOMAIN s = 1..n
    BY <1>1, <1>2, <1>3, <1>5, <2>1
  <2>3. \A k \in 1..n : s[k] # e
    <3>1. \A j \in 1..i : l[j] # e
      <4>1. \A j \in 1..i : j \in DOMAIN l /\ i + 1 \in DOMAIN l /\ j # i + 1
        BY <1>1, <2>2
      <4>. QED  BY <2>1, <4>1 DEF IsInjective
    <3>. QED  BY <2>2, <3>1
  <2>w. i + 1 \in 1..i + 1 /\ \A j \in 1..i : j \in 1..i + 1
    BY <2>2
  <2>4. From(t, i + 1)
    <3>1. CASE e \in S
      <4>1. /\ t = Append(s, e) /\ t \in Seq(T) /\ Len(t) = n + 1 /\ DOMAIN t = 1..n + 1
            /\ t[n + 1] = e /\ \A k \in 1..n : t[k] = s[k]
        BY <2>1, <2>2, <3>1 DEF OneKept
      <4>2. \A k \in 1..n + 1 : k \in 1..n \/ k = n + 1
        BY <2>2
      <4>3. IsInjective(t)
        BY <2>2, <2>3, <4>1, <4>2 DEF IsInjective
      <4>4. \A k \in 1..n + 1 : \E j \in 1..i + 1 : t[k] = l[j]
        BY <2>1, <2>2, <2>w, <4>1, <4>2
      <4>. QED  BY <4>1, <4>3, <4>4
    <3>2. CASE e \notin S
      <4>1. t = s
        BY <2>2, <3>2 DEF OneKept
      <4>2. \A k \in 1..n : \E j \in 1..i + 1 : s[k] = l[j]
        BY <2>2, <2>w
      <4>. QED  BY <2>1, <2>2, <4>1, <4>2
    <3>. QED  BY <3>1, <3>2
  <2>. HIDE DEF From
  <2>. QED  BY <1>3, <2>1, <2>2, <2>4
<1>6. N \in A
  BY <1>2, <1>4, <1>5, ReachesEnd
<1>. QED  BY <1>2, <1>3, <1>6

\* An element that is appended is kept or not.
LEMMA KeptAppend ==
  ASSUME NEW T, NEW l \in Seq(T), NEW e \in T, NEW S
  PROVE  Kept(Append(l, e), S) = OneKept(Kept(l, S), e, S)
<1>1. PICK m, f, g, N : m = Append(l, e) /\ f = KeptUpTo(l, S) /\ g = KeptUpTo(m, S) /\ N = Len(l)
  OBVIOUS
<1>2. m \in Seq(T) /\ N \in Nat /\ Len(m) = N + 1 /\ m[N + 1] = e /\ \A i \in 1..N : m[i] = l[i]
  BY <1>1
<1>3. /\ f[0] = <<>> /\ Kept(l, S) = f[N]
      /\ \A i \in 0..N : i < N => f[i + 1] = OneKept(f[i], l[i + 1], S)
  BY <1>1, KeptEquations
<1>4. /\ g[0] = <<>> /\ Kept(m, S) = g[N + 1]
      /\ \A i \in 0..N + 1 : i < N + 1 => g[i + 1] = OneKept(g[i], m[i + 1], S)
  <2>1. PICK M : M = N + 1
    OBVIOUS
  <2>2. g = KeptUpTo(m, S) /\ m \in Seq(T) /\ Len(m) = M
    BY <1>1, <1>2, <2>1
  <2>3. /\ g[0] = <<>> /\ Kept(m, S) = g[M]
        /\ \A i \in 0..M : i < M => g[i + 1] = OneKept(g[i], m[i + 1], S)
    BY <2>2, KeptEquations
  <2>. QED  BY <2>1, <2>3
<1>5. PICK A : A = {i \in 0..N : g[i] = f[i]}
  OBVIOUS
<1>6. 0 \in A
  BY <1>2, <1>3, <1>4, <1>5
<1>7. ASSUME NEW i \in 0..N, i \in A, i < N
      PROVE  i + 1 \in A
  <2>1. i + 1 \in 1..N /\ i + 1 \in 0..N /\ i \in 0..N + 1 /\ i < N + 1
    BY <1>2, <1>7
  <2>2. g[i + 1] = OneKept(g[i], l[i + 1], S)
    BY <1>2, <1>4, <2>1
  <2>3. g[i] = f[i]
    BY <1>5, <1>7
  <2>. QED  BY <1>3, <1>5, <1>7, <2>1, <2>2, <2>3
<1>8. g[N] = f[N]
  <2>1. N \in A
    BY <1>2, <1>6, <1>7, ReachesEnd
  <2>. QED  BY <1>5, <2>1
<1>9. g[N + 1] = OneKept(g[N], e, S)
  <2>1. N \in 0..N + 1 /\ N < N + 1
    BY <1>2
  <2>. QED  BY <1>2, <1>4, <2>1
<1>. QED  BY <1>1, <1>3, <1>4, <1>8, <1>9

\* The elements kept of a queue whose head is taken.
LEMMA KeptTail ==
  ASSUME NEW T, NEW l \in Seq(T), l # <<>>, NEW S
  PROVE  IF Head(l) \in S
         THEN Kept(l, S) = <<Head(l)>> \o Kept(Tail(l), S)
         ELSE Kept(l, S) = Kept(Tail(l), S)
<1>m. PICK m, first : m = Tail(l) /\ first = OneKept(<<>>, Head(l), S)
  OBVIOUS
<1>1. PICK f, g, N : f = KeptUpTo(l, S) /\ g = KeptUpTo(m, S) /\ N = Len(m)
  OBVIOUS
<1>2. /\ m \in Seq(T) /\ N \in Nat /\ Len(l) = N + 1 /\ Head(l) = l[1] /\ Head(l) \in T
      /\ \A i \in 1..N : m[i] = l[i + 1]
  BY <1>m, <1>1
<1>3. /\ f[0] = <<>> /\ Kept(l, S) = f[N + 1]
      /\ \A i \in 0..N + 1 : i < N + 1 => f[i + 1] = OneKept(f[i], l[i + 1], S)
  <2>1. PICK M : M = N + 1
    OBVIOUS
  <2>2. Len(l) = M
    BY <1>2, <2>1
  <2>. QED  BY <1>1, <2>1, <2>2, KeptEquations
<1>4. /\ g[0] = <<>> /\ Kept(m, S) = g[N]
      /\ \A i \in 0..N : i < N => g[i + 1] = OneKept(g[i], m[i + 1], S)
  <2>1. g = KeptUpTo(m, S) /\ m \in Seq(T) /\ Len(m) = N
    BY <1>1, <1>2
  <2>. QED  BY <2>1, KeptEquations
<1>5. first \in Seq(T) /\ first = IF Head(l) \in S THEN <<Head(l)>> ELSE <<>>
  BY <1>m, <1>2 DEF OneKept
<1>6. PICK A : A = {i \in 0..N : g[i] \in Seq(T) /\ f[i + 1] = first \o g[i]}
  OBVIOUS
<1>7. 0 \in A
  <2>1. 0 \in 0..N + 1 /\ 0 < N + 1 /\ 0 + 1 = 1 /\ 0 \in 0..N
    BY <1>2
  <2>2. f[0 + 1] = first
    BY <1>m, <1>2, <1>3, <2>1
  <2>3. first \o <<>> = first /\ <<>> \in Seq(T)
    BY <1>5
  <2>. QED  BY <1>4, <1>6, <2>1, <2>2, <2>3
<1>8. ASSUME NEW i \in 0..N, i \in A, i < N
      PROVE  i + 1 \in A
  <2>1. PICK j, e, s : j = i + 1 /\ e = m[j] /\ s = g[i]
    OBVIOUS
  <2>2. j \in 1..N /\ j \in 0..N /\ j \in 0..N + 1 /\ j < N + 1
    BY <1>2, <1>8, <2>1
  <2>3. s \in Seq(T) /\ f[j] = first \o s /\ g[j] = OneKept(s, e, S) /\ e \in T
    BY <1>2, <1>4, <1>6, <1>8, <2>1, <2>2
  <2>4. f[j + 1] = OneKept(first \o s, e, S)
    BY <1>2, <1>3, <2>1, <2>2, <2>3
  <2>5. Append(first \o s, e) = first \o Append(s, e) /\ Append(s, e) \in Seq(T)
    BY <1>5, <2>3
  <2>6. g[j] \in Seq(T) /\ f[j + 1] = first \o g[j]
    BY <2>3, <2>4, <2>5 DEF OneKept
  <2>. QED  BY <1>6, <2>1, <2>2, <2>6
<1>9. N \in A
  BY <1>2, <1>7, <1>8, ReachesEnd
<1>10. g[N] \in Seq(T) /\ f[N + 1] = first \o g[N]
  BY <1>6, <1>9
<1>11. <<>> \o g[N] = g[N]
  BY <1>10
<1>. QED  BY <1>m, <1>3, <1>4, <1>5, <1>10, <1>11

(***************************************************************************)
(* What the settings of a timer mean                                        *)
(***************************************************************************)
Setting == [start : Clock, interval : Interval \cup {0}]

\* The setting x expires at a time that the clock shows like the time at.
Means(x, at) == Wrap(x.start + x.interval) = Wrap(at)

\* ... and that is told from every other, when it is n: the timer has not been
\* started in the future, and has not been expired for longer than MaxDelay.
Sound(x, at, n) == at - x.interval <= n /\ n <= at + MaxDelay /\ Means(x, at)

LEMMA SettingFacts ==
  ASSUME NEW x \in Setting
  PROVE  /\ x.start \in Clock /\ x.start \in Int
         /\ x.interval \in 0..ClockMod - 1 /\ x.interval \in Nat
         /\ x.interval + MaxDelay + 1 < ClockMod
         /\ MaxDelay \in Nat /\ ClockMod \in Nat
<1>1. x.start \in Clock /\ x.interval \in Interval \cup {0}
  BY DEF Setting
<1>2. PICK i : i = x.interval
  OBVIOUS
<1>3. i \in 0..ClockMod - 1 /\ i + MaxDelay + 1 < ClockMod /\ ClockMod \in Nat \ {0}
  <2>1. ClockMod \in Nat \ {0} /\ Interval \subseteq 0..ClockMod - 1
    BY EtimerAssumption, Zenon
  <2>2. \A j \in Interval \cup {0} : j + MaxDelay + 1 < ClockMod
    BY EtimerAssumption, Zenon
  <2>3. 0 \in 0..ClockMod - 1
    BY <2>1
  <2>4. i \in 0..ClockMod - 1
    BY <1>1, <1>2, <2>1, <2>3, Zenon
  <2>5. i + MaxDelay + 1 < ClockMod
    BY <1>1, <1>2, <2>2, Zenon
  <2>. QED  BY <2>1, <2>4, <2>5
<1>4. MaxDelay \in Nat
  <2>1. {MaxTime, MaxDelay, MaxSets, MaxOther} \subseteq Nat
    BY EtimerAssumption, Zenon
  <2>. QED  BY <2>1
<1>. QED  BY <1>1, <1>2, <1>3, <1>4 DEF Clock

\* timer_expired tells whether the timer's time has come.
LEMMA ExpiryIsDue ==
  ASSUME now \in Nat, NEW x \in Setting, NEW at \in Int, Sound(x, at, now)
  PROVE  timer_expired(x) <=> at <= now
<1>1. PICK i, b, d, M : i = x.interval /\ b = x.start /\ d = now - at + i /\ M = ClockMod
  OBVIOUS
<1>2. /\ i \in Nat /\ b \in Int /\ d \in Int /\ MaxDelay \in Nat /\ M \in Nat
      /\ i + MaxDelay + 1 < M /\ 0 <= d /\ d <= MaxDelay + i
  BY <1>1, SettingFacts DEF Sound
<1>3. Wrap(b + i) = Wrap(at)
  BY <1>1 DEF Sound, Means
<1>4. Wrap(now - b) = Wrap(d)
  <2>1. Wrap(now - b) = Wrap((now + i) - (b + i))
    <3>1. now - b = (now + i) - (b + i)
      BY <1>2
    <3>. QED  BY <3>1
  <2>2. Wrap((now + i) - (b + i)) = Wrap((now + i) - Wrap(b + i))
    <3>1. now + i \in Int /\ b + i \in Int
      BY <1>2
    <3>. QED  BY <3>1, WrapSum
  <2>3. Wrap((now + i) - Wrap(at)) = Wrap((now + i) - at)
    <3>1. now + i \in Int
      BY <1>2
    <3>. QED  BY <3>1, WrapSum
  <2>4. (now + i) - at = d
    BY <1>1, <1>2
  <2>. QED  BY <1>3, <2>1, <2>2, <2>3, <2>4
<1>5. Wrap(clock_time - b) = Wrap(now - b)
  <2>1. Wrap(Wrap(now) + (-b)) = Wrap(now + (-b))
    BY <1>2, WrapSum
  <2>2. Wrap(now) \in Int /\ clock_time = Wrap(now)
    BY WrapType DEF clock_time, Wrap, Clock
  <2>3. clock_time - b = Wrap(now) + (-b) /\ now - b = now + (-b)
    BY <1>2, <2>2
  <2>. QED  BY <2>1, <2>3
<1>6. Wrap(d) = d /\ Wrap(d + 1) = d + 1
  <2>1. d \in Clock /\ d + 1 \in Clock
    BY <1>1, <1>2 DEF Clock
  <2>. QED  BY <2>1, WrapType
<1>7. timer_expired(x) <=> i < d + 1
  BY <1>1, <1>4, <1>5, <1>6 DEF timer_expired
<1>. QED  BY <1>1, <1>2, <1>7

\* Of a timer whose time has not come, update_time computes the time that is left.
LEMMA DistanceIsLeft ==
  ASSUME now \in Nat, NEW x \in Setting, NEW at \in Int, Sound(x, at, now), now < at
  PROVE  Distance(x) = at - now
<1>1. PICK i, b, M : i = x.interval /\ b = x.start /\ M = ClockMod
  OBVIOUS
<1>2. /\ i \in Nat /\ b \in Int /\ MaxDelay \in Nat /\ M \in Nat
      /\ i + MaxDelay + 1 < M /\ at - now <= i
  BY <1>1, SettingFacts DEF Sound
<1>3. Wrap(b + i) = Wrap(at)
  BY <1>1 DEF Sound, Means
<1>4. PICK c : c = clock_time
  OBVIOUS
<1>5. c \in Int /\ c = Wrap(now)
  BY <1>4, WrapType DEF clock_time, Wrap, Clock
<1>6. Wrap((b + i) - c) = Wrap(at - c)
  <2>1. Wrap(Wrap(b + i) + (-c)) = Wrap((b + i) + (-c))
    <3>1. b + i \in Int /\ -c \in Int
      BY <1>2, <1>5
    <3>. QED  BY <3>1, WrapSum
  <2>2. Wrap(Wrap(at) + (-c)) = Wrap(at + (-c))
    <3>1. -c \in Int
      BY <1>5
    <3>. QED  BY <3>1, WrapSum
  <2>3. (b + i) + (-c) = (b + i) - c /\ at + (-c) = at - c
    BY <1>2, <1>5
  <2>. QED  BY <1>3, <2>1, <2>2, <2>3
<1>7. Wrap(at - c) = Wrap(at - now)
  BY <1>5, WrapSum
<1>8. Wrap(at - now) = at - now
  <2>1. at - now \in Clock
    BY <1>1, <1>2 DEF Clock
  <2>. QED  BY <2>1, WrapType
<1>9. Distance(x) = Wrap((b + i) - c)
  <2>1. PICK y : y = x.start + x.interval - clock_time
    OBVIOUS
  <2>2. Distance(x) = Wrap(y)
    BY <2>1 DEF Distance
  <2>3. y = b + (i - c)
    BY <1>1, <1>4, <2>1
  <2>4. b + (i - c) = (b + i) - c
    BY <1>2, <1>5
  <2>. QED  BY <2>2, <2>3, <2>4
<1>. QED  BY <1>6, <1>7, <1>8, <1>9

(***************************************************************************)
(* update_time                                                              *)
(***************************************************************************)
LEMMA ListRange ==
  ASSUME NEW l \in Seq(Timer)
  PROVE  /\ Range(l) \subseteq Timer
         /\ Range(l) = {l[i] : i \in DOMAIN l}
         /\ l # <<>> <=> Range(l) # {}
         /\ \A i \in DOMAIN l : l[i] \in Range(l)
<1>1. DOMAIN l = 1..Len(l) /\ Len(l) \in Nat /\ \A i \in 1..Len(l) : l[i] \in Timer
  OBVIOUS
<1>2. l # <<>> => 1 \in DOMAIN l
  BY <1>1
<1>3. l = <<>> => DOMAIN l = {}
  BY <1>1
<1>. QED  BY <1>1, <1>2, <1>3 DEF Range

LEMMA NearestIsLeast ==
  ASSUME now \in Nat, NEW l \in Seq(Timer), l # <<>>, NEW tm \in [Timer -> Setting]
  PROVE  \E t \in Range(l) : /\ Nearest(l, tm) = Distance(tm[t])
                             /\ Distance(tm[t]) \in Clock
                             /\ \A u \in Range(l) : Distance(tm[t]) <= Distance(tm[u])
<1>1. PICK D : D = {Distance(tm[l[i]]) : i \in DOMAIN l}
  OBVIOUS
<1>2. \A t \in Timer : Distance(tm[t]) \in Clock
  <2>1. SUFFICES ASSUME NEW t \in Timer PROVE Distance(tm[t]) \in Clock
    OBVIOUS
  <2>2. tm[t].start \in Int /\ tm[t].interval \in Nat
    BY SettingFacts
  <2>3. clock_time \in Int
    BY WrapType DEF clock_time, Wrap, Clock
  <2>4. tm[t].start + tm[t].interval - clock_time \in Int
    BY <2>2, <2>3
  <2>. QED  BY <2>4, WrapType DEF Distance
<1>3. D \in SUBSET Nat /\ D # {}
  BY <1>1, <1>2, ListRange DEF Clock
<1>4. \E d \in D : \A i \in DOMAIN l : d <= Distance(tm[l[i]])
  <2>1. PICK d \in D : \A y \in D : d <= y
    BY <1>3, LeastElement
  <2>. QED  BY <1>1, <2>1
<1>5. PICK d : d = Nearest(l, tm)
  OBVIOUS
<1>6. d \in D /\ \A i \in DOMAIN l : d <= Distance(tm[l[i]])
  BY <1>1, <1>4, <1>5 DEF Nearest
<1>7. PICK i \in DOMAIN l : d = Distance(tm[l[i]])
  BY <1>1, <1>6
<1>. QED  BY <1>2, <1>5, <1>6, <1>7, ListRange

LEMMA UpdateType ==
  ASSUME now \in Nat, NEW l \in Seq(Timer), NEW tm \in [Timer -> Setting]
  PROVE  update_time(l, tm) \in Clock
<1>1. CASE l = <<>>
  BY <1>1, WrapType DEF update_time, Clock
<1>2. CASE l # <<>>
  <2>1. Nearest(l, tm) \in Clock /\ clock_time \in Clock
    BY <1>2, NearestIsLeast, WrapType DEF clock_time, Wrap
  <2>2. clock_time + Nearest(l, tm) \in Int
    BY <2>1 DEF Clock
  <2>. QED  BY <1>2, <2>2, WrapType DEF update_time
<1>. QED  BY <1>1, <1>2

\* nx is the time of the nearest of the timers on the list l.
NextIs(l, dl, nx) ==
  \E t \in Range(l) : nx = Wrap(dl[t]) /\ \A u \in Range(l) : dl[t] <= dl[u]

LEMMA UpdateIsNext ==
  ASSUME now \in Nat, NEW l \in Seq(Timer), l # <<>>, NEW tm \in [Timer -> Setting],
         NEW dl \in [Timer -> Int],
         \A t \in Range(l) : Sound(tm[t], dl[t], now) /\ now < dl[t]
  PROVE  NextIs(l, dl, update_time(l, tm))
<1>1. PICK t \in Range(l) : /\ Nearest(l, tm) = Distance(tm[t])
                            /\ \A u \in Range(l) : Distance(tm[t]) <= Distance(tm[u])
  BY NearestIsLeast
<1>2. \A u \in Range(l) : u \in Timer /\ dl[u] \in Int /\ Distance(tm[u]) = dl[u] - now
  BY ListRange, DistanceIsLeft
<1>3. \A u \in Range(l) : dl[t] <= dl[u]
  BY <1>1, <1>2
<1>4. update_time(l, tm) = Wrap(clock_time + (dl[t] - now))
  BY <1>1, <1>2 DEF update_time
<1>5. Wrap(clock_time + (dl[t] - now)) = Wrap(dl[t])
  <2>1. PICK at, left : at = dl[t] /\ left = dl[t] - now
    OBVIOUS
  <2>2. at \in Int /\ left = at - now
    BY <1>2, <2>1
  <2>3. left \in Int /\ now + left = at
    BY <2>2
  <2>4. Wrap(Wrap(now) + left) = Wrap(now + left)
    BY <2>3, WrapSum
  <2>. QED  BY <2>1, <2>3, <2>4 DEF clock_time, Wrap
<1>. QED  BY <1>3, <1>4, <1>5 DEF NextIs
(***************************************************************************)
(* The inductive invariant                                                  *)
(***************************************************************************)
\* Every timer on the list belongs to a process, and its settings tell its time
\* from every other; those of a timer off the list still show its last time (of
\* the times that come), from which etimer_reset counts on.
TimesInv ==
  /\ now \in 0..MaxTime
  /\ timer \in [Timer -> Setting]
  /\ \A t \in Range(timerlist) : owner[t] \in Proc /\ Sound(timer[t], deadline[t], now)
  /\ \A t \in Timer : deadline[t] <= MaxTime => Means(timer[t], deadline[t])

\* While no timer has expired, next_expiration is the time of the nearest.
NextInv ==
  timerlist # <<>> /\ ~stale /\ (\A t \in Range(timerlist) : now < deadline[t])
    => NextIs(timerlist, deadline, next_expiration)

\* The history of the calls and the list agree: a timer whose event has been
\* asked for is on the list and belongs to the process that has asked.
SetterInv == \A t \in Timer : setter[t] = IF Listed(t) THEN owner[t] ELSE None

EtimerInv == TypeOK /\ TimesInv /\ ExpiredIsNoticed /\ NextInv /\ SetterInv

LEMMA Constants ==
  /\ None \notin Proc /\ None \notin Timer
  /\ 0 \in Clock /\ Interval \subseteq Clock /\ Interval \subseteq Nat
  /\ Setting \subseteq [start : Clock, interval : Clock]
  /\ QueueSize \in Nat /\ QueueSize > 0 /\ MaxDelay \in Nat /\ MaxTime \in Nat
<1>1. ClockMod \in Nat /\ ClockMod > 0 /\ Interval \subseteq 0..ClockMod - 1
  BY EtimerAssumption
<1>2. 0 \in Clock /\ Interval \subseteq Clock /\ Interval \subseteq Nat
  BY <1>1 DEF Clock
<1>3. Setting \subseteq [start : Clock, interval : Clock]
  BY <1>2 DEF Setting
<1>. QED  BY <1>2, <1>3, EtimerAssumption

\* Of a timer on the list timer_expired tells whether its time has come.
LEMMA ListedTimes ==
  ASSUME EtimerInv
  PROVE  /\ now \in Nat /\ now \in Int /\ timerlist \in Seq(Timer)
         /\ \A t \in Range(timerlist) :
              /\ t \in Timer /\ timer[t] \in Setting /\ owner[t] \in Proc
              /\ deadline[t] \in Int /\ Sound(timer[t], deadline[t], now)
              /\ timer_expired(timer[t]) <=> deadline[t] <= now
<1>1. /\ now \in Nat /\ timerlist \in Seq(Timer) /\ deadline \in [Timer -> Int]
      /\ timer \in [Timer -> Setting]
      /\ \A t \in Range(timerlist) : owner[t] \in Proc /\ Sound(timer[t], deadline[t], now)
  BY DEF EtimerInv, TypeOK, TimesInv
<1>2. \A t \in Range(timerlist) : t \in Timer
  BY <1>1, ListRange
<1>3. ASSUME NEW t \in Range(timerlist)
      PROVE  timer_expired(timer[t]) <=> deadline[t] <= now
  <2>1. timer[t] \in Setting /\ deadline[t] \in Int /\ Sound(timer[t], deadline[t], now)
    BY <1>1, <1>2
  <2>. QED  BY <1>1, <2>1, ExpiryIsDue
<1>. QED  BY <1>1, <1>2, <1>3

\* What update_time computes satisfies NextInv.
LEMMA Refreshed ==
  ASSUME now \in Nat, NEW l \in Seq(Timer), NEW tm \in [Timer -> Setting],
         NEW dl \in [Timer -> Int],
         \A t \in Range(l) : Sound(tm[t], dl[t], now)
  PROVE  /\ update_time(l, tm) \in Clock
         /\ l # <<>> /\ (\A t \in Range(l) : now < dl[t])
              => NextIs(l, dl, update_time(l, tm))
BY UpdateType, UpdateIsNext

LEMMA Pushed ==
  ASSUME NEW l \in Seq(Timer), NEW t \in Timer
  PROVE  /\ <<t>> \o l \in Seq(Timer) /\ Range(<<t>> \o l) = {t} \cup Range(l)
         /\ IsInjective(l) /\ t \notin Range(l) => IsInjective(<<t>> \o l)
<1>1. PICK m, N : m = <<t>> \o l /\ N = Len(l)
  OBVIOUS
<1>2. /\ m \in Seq(Timer) /\ N \in Nat /\ DOMAIN m = 1..N + 1 /\ DOMAIN l = 1..N
      /\ m[1] = t /\ \A i \in 1..N : m[i + 1] = l[i]
  BY <1>1
<1>3. ASSUME NEW i \in 1..N + 1
      PROVE  m[i] \in {t} \cup Range(l)
  <2>1. CASE i = 1
    BY <1>2, <2>1
  <2>2. CASE i # 1
    <3>1. i - 1 \in 1..N /\ (i - 1) + 1 = i
      BY <1>2, <2>2
    <3>2. m[i] = l[i - 1]
      BY <1>2, <3>1
    <3>. QED  BY <1>2, <3>1, <3>2 DEF Range
  <2>. QED  BY <2>1, <2>2
<1>4. t \in Range(m)
  <2>1. 1 \in 1..N + 1
    BY <1>2
  <2>. QED  BY <1>2, <2>1 DEF Range
<1>5. ASSUME NEW i \in 1..N
      PROVE  l[i] \in Range(m)
  <2>1. i + 1 \in 1..N + 1
    BY <1>2
  <2>. QED  BY <1>2, <2>1 DEF Range
<1>6. Range(m) \subseteq {t} \cup Range(l)
  BY <1>2, <1>3 DEF Range
<1>7. {t} \cup Range(l) \subseteq Range(m)
  BY <1>2, <1>4, <1>5 DEF Range
<1>8. ASSUME IsInjective(l), t \notin Range(l)
      PROVE  IsInjective(m)
  <2>1. \A i \in 1..N : m[i + 1] # t /\ l[i] \in Range(l)
    BY <1>2, <1>8 DEF Range
  <2>2. SUFFICES ASSUME NEW i \in 1..N + 1, NEW j \in 1..N + 1, m[i] = m[j]
                 PROVE  i = j
    BY <1>2 DEF IsInjective
  <2>3. \A k \in 1..N + 1 : k # 1 => k - 1 \in 1..N /\ (k - 1) + 1 = k
    BY <1>2
  <2>4. CASE i = 1 \/ j = 1
    BY <1>2, <2>1, <2>2, <2>3, <2>4
  <2>5. CASE i # 1 /\ j # 1
    <3>1. PICK a, b : a = i - 1 /\ b = j - 1
      OBVIOUS
    <3>2. a \in 1..N /\ b \in 1..N /\ a + 1 = i /\ b + 1 = j
      BY <2>3, <2>5, <3>1
    <3>3. l[a] = l[b]
      BY <1>2, <2>2, <3>2
    <3>4. a = b
      BY <1>2, <1>8, <3>2, <3>3 DEF IsInjective
    <3>. QED  BY <3>2, <3>4
  <2>. QED  BY <2>4, <2>5
<1>. QED  BY <1>1, <1>2, <1>6, <1>7, <1>8

(***************************************************************************)
(* Where the search has got to                                              *)
(***************************************************************************)
AheadOf(l, w) == {l[i] : i \in {j \in DOMAIN l : w # 0 /\ w <= j}}

LEMMA AheadIs == Ahead = AheadOf(timerlist, walk) /\ Ahead' = AheadOf(timerlist', walk')
BY DEF Ahead, AheadOf, searching

LEMMA AheadFacts ==
  ASSUME NEW l \in Seq(Timer), NEW w \in Nat
  PROVE  /\ w = 0 => AheadOf(l, w) = {}
         /\ w = 1 => AheadOf(l, w) = Range(l)
         /\ w \notin DOMAIN l => AheadOf(l, w) = {}
         /\ w \in DOMAIN l => AheadOf(l, w) \subseteq AheadOf(l, w + 1) \cup {l[w]}
<1>1. PICK N : N = Len(l)
  OBVIOUS
<1>2. N \in Nat /\ DOMAIN l = 1..N
  BY <1>1
<1>3. w = 0 => AheadOf(l, w) = {}
  BY DEF AheadOf
<1>4. w = 1 => AheadOf(l, w) = Range(l)
  <2>1. SUFFICES ASSUME w = 1 PROVE AheadOf(l, w) = Range(l)
    OBVIOUS
  <2>2. \A j \in 1..N : w # 0 /\ w <= j
    BY <1>2, <2>1
  <2>. QED  BY <1>2, <2>2 DEF AheadOf, Range
<1>5. w \notin DOMAIN l => AheadOf(l, w) = {}
  <2>1. SUFFICES ASSUME w \notin DOMAIN l, w # 0 PROVE AheadOf(l, w) = {}
    BY <1>3
  <2>2. \A j \in 1..N : ~(w <= j)
    BY <1>2, <2>1
  <2>. QED  BY <1>2, <2>2 DEF AheadOf
<1>6. w \in DOMAIN l => AheadOf(l, w) \subseteq AheadOf(l, w + 1) \cup {l[w]}
  <2>1. \A j \in 1..N : w <= j => j = w \/ (w + 1 # 0 /\ w + 1 <= j)
    BY <1>2
  <2>. QED  BY <1>2, <2>1 DEF AheadOf
<1>. QED  BY <1>3, <1>4, <1>5, <1>6

(***************************************************************************)
(* Setting a timer                                                          *)
(***************************************************************************)
LEMMA StartKeeps ==
  ASSUME EtimerInv, NEW t \in Timer, NEW p \in Proc, NEW x \in Setting, NEW at \in Int,
         at - x.interval <= now, Means(x, at), Start(t, p, x, at)
  PROVE  EtimerInv' /\ Range(timerlist') = Range(timerlist) \cup {t}
<1>1. /\ now' = now /\ needspoll' = TRUE /\ stale' = FALSE /\ timerlist' = Added(t)
      /\ queue' = queue /\ walk' = walk /\ alive' = alive
      /\ sets' = sets + 1 /\ others' = others /\ adjusted' = adjusted \ {t}
      /\ next_expiration' = update_time(timerlist', timer') /\ now <= at + MaxDelay
  BY DEF Start, add_timer
<1>2. /\ now \in Nat /\ now \in 0..MaxTime /\ timer \in [Timer -> Setting]
      /\ setter \in [Timer -> Proc \cup {None}]
      /\ owner \in [Timer -> Proc \cup {None}] /\ deadline \in [Timer -> Int]
  BY DEF EtimerInv, TypeOK, TimesInv
<1>3. /\ timer' \in [Timer -> Setting] /\ timer'[t] = x
      /\ \A u \in Timer \ {t} : timer'[u] = timer[u]
  <2>1. timer' = [timer EXCEPT ![t] = x]
    BY DEF Start
  <2>. QED  BY <1>2, <2>1
<1>4. /\ deadline' \in [Timer -> Int] /\ deadline'[t] = at
      /\ \A u \in Timer \ {t} : deadline'[u] = deadline[u]
  <2>1. deadline' = [deadline EXCEPT ![t] = at]
    BY DEF Start
  <2>. QED  BY <1>2, <2>1
<1>5. /\ owner' \in [Timer -> Proc \cup {None}] /\ owner'[t] = p
      /\ \A u \in Timer \ {t} : owner'[u] = owner[u]
  <2>1. owner' = [owner EXCEPT ![t] = p]
    BY DEF Start, add_timer, Owned
  <2>. QED  BY <1>2, <2>1
<1>6. /\ timerlist' \in Seq(Timer) /\ Range(timerlist') = Range(timerlist) \cup {t}
      /\ IsInjective(timerlist')
  <2>1. IsInjective(timerlist) /\ (owner[t] = None => ~Listed(t))
    BY ListedTimes, Constants DEF EtimerInv, TypeOK, Listed
  <2>2. CASE Listed(t)
    BY <1>1, <2>1, <2>2, ListedTimes DEF Added, Listed
  <2>3. CASE ~Listed(t)
    BY <1>1, <2>1, <2>3, ListedTimes, Pushed DEF Added, Listed
  <2>. QED  BY <2>2, <2>3
<1>s. /\ setter' \in [Timer -> Proc \cup {None}] /\ setter'[t] = p
      /\ \A u \in Timer \ {t} : setter'[u] = setter[u]
  <2>1. setter' = [setter EXCEPT ![t] = p]
    BY DEF Start
  <2>. QED  BY <1>2, <2>1
<1>7. \A u \in Range(timerlist') : owner'[u] \in Proc /\ Sound(timer'[u], deadline'[u], now)
  <2>1. SUFFICES ASSUME NEW u \in Range(timerlist')
                 PROVE  owner'[u] \in Proc /\ Sound(timer'[u], deadline'[u], now)
    OBVIOUS
  <2>2. CASE u = t
    BY <1>1, <1>3, <1>4, <1>5, <2>2 DEF Sound
  <2>3. CASE u # t
    <3>1. u \in Range(timerlist) /\ u \in Timer \ {t}
      BY <1>6, <2>3, ListedTimes
    <3>. QED  BY <1>3, <1>4, <1>5, <3>1, ListedTimes
  <2>. QED  BY <2>2, <2>3
<1>8. /\ update_time(timerlist', timer') \in Clock
      /\ timerlist' # <<>> /\ (\A u \in Range(timerlist') : now < deadline'[u])
           => NextIs(timerlist', deadline', update_time(timerlist', timer'))
  BY <1>2, <1>3, <1>4, <1>6, <1>7, Refreshed
<1>9. TypeOK'
  <2>1. timer' \in [Timer -> [start : Clock, interval : Clock]]
    BY <1>3, Constants
  <2>2. /\ queue \in Seq((Proc \cup {None}) \X (Timer \cup {None})) /\ walk \in Nat
        /\ alive \subseteq Proc /\ sets \in Nat /\ others \in Nat /\ adjusted \subseteq Timer
    BY DEF EtimerInv, TypeOK
  <2>3. needspoll' \in BOOLEAN /\ walk' \in Nat /\ stale' \in BOOLEAN
    BY <1>1, <2>2, Zenon
  <2>4. /\ now' \in Nat /\ queue' \in Seq((Proc \cup {None}) \X (Timer \cup {None}))
        /\ alive' \subseteq Proc /\ sets' \in Nat /\ others' \in Nat /\ adjusted' \subseteq Timer
        /\ next_expiration' \in Clock
    BY <1>1, <1>2, <1>8, <2>2
  <2>. QED  BY <1>4, <1>5, <1>6, <1>s, <2>1, <2>3, <2>4 DEF TypeOK
<1>10. TimesInv'
  <2>1. \A u \in Timer : deadline'[u] <= MaxTime => Means(timer'[u], deadline'[u])
    <3>1. \A u \in Timer : deadline[u] <= MaxTime => Means(timer[u], deadline[u])
      BY DEF EtimerInv, TimesInv
    <3>. QED  BY <1>3, <1>4, <3>1
  <2>. QED  BY <1>1, <1>2, <1>3, <1>7, <2>1 DEF TimesInv
<1>11. ExpiredIsNoticed'
  BY <1>1 DEF ExpiredIsNoticed
<1>12. NextInv'
  BY <1>1, <1>8 DEF NextInv
<1>13. SetterInv'
  BY <1>5, <1>6, <1>s DEF EtimerInv, SetterInv, Listed
<1>. QED  BY <1>6, <1>9, <1>10, <1>11, <1>12, <1>13 DEF EtimerInv

LEMMA ClockNow ==
  ASSUME now \in Nat, NEW i \in Int
  PROVE  clock_time \in Clock /\ clock_time \in Int /\ Wrap(clock_time + i) = Wrap(now + i)
<1>1. clock_time = Wrap(now) /\ Wrap(now) \in Clock /\ Wrap(now) \in Int
  BY WrapType DEF clock_time, Wrap
<1>. QED  BY <1>1, WrapSum

\* etimer_set, etimer_restart and etimer_reset start the timer with a setting
\* that means the time it is to expire at.
LEMMA SettingStarts ==
  ASSUME EtimerInv, NEW t \in Timer, NEW p \in Proc,
         etimer_set(t, p) \/ etimer_restart(t, p) \/ etimer_reset(t, p)
  PROVE  \E x \in Setting, at \in Int :
           /\ at - x.interval <= now /\ Means(x, at) /\ Start(t, p, x, at)
           /\ deadline'[t] = at
<1>1. now \in Nat /\ now <= MaxTime /\ timer[t] \in Setting /\ deadline \in [Timer -> Int]
      /\ MaxTime \in Nat
  BY Constants DEF EtimerInv, TypeOK, TimesInv
<1>2. \A x, at : Start(t, p, x, at) => deadline'[t] = at
  <2>1. \A x, at : Start(t, p, x, at) => deadline' = [deadline EXCEPT ![t] = at]
    BY DEF Start
  <2>. QED  BY <1>1, <2>1
<1>3. PICK b, i : b = timer[t].start /\ i = timer[t].interval
  OBVIOUS
<1>4. b \in Int /\ i \in Int /\ i \in Nat /\ i \in Interval \cup {0} /\ timer[t] = [start |-> b, interval |-> i]
  BY <1>1, <1>3, SettingFacts DEF Setting
<1>5. CASE etimer_set(t, p)
  <2>1. PICK j \in Interval : Start(t, p, [start |-> clock_time, interval |-> j], now + j)
    BY <1>5 DEF etimer_set
  <2>2. PICK x, at : x = [start |-> clock_time, interval |-> j] /\ at = now + j
    OBVIOUS
  <2>3. j \in Nat /\ at \in Int /\ at - j <= now
    BY <1>1, <2>2, Constants
  <2>4. x \in Setting /\ x.start = clock_time /\ x.interval = j
    BY <1>1, <2>2, <2>3, ClockNow DEF Setting
  <2>5. Means(x, at)
    BY <1>1, <2>2, <2>3, <2>4, ClockNow DEF Means
  <2>. QED  BY <1>2, <2>1, <2>2, <2>3, <2>4, <2>5
<1>6. CASE etimer_restart(t, p)
  <2>1. PICK x, at : x = [timer[t] EXCEPT !.start = clock_time] /\ at = now + i
    OBVIOUS
  <2>2. Start(t, p, x, at)
    BY <1>3, <1>6, <2>1 DEF etimer_restart
  <2>3. at \in Int /\ at - i <= now
    BY <1>1, <1>4, <2>1
  <2>4. x = [start |-> clock_time, interval |-> i]
    BY <1>4, <2>1
  <2>5. x \in Setting /\ x.start = clock_time /\ x.interval = i
    BY <1>1, <1>4, <2>4, ClockNow DEF Setting
  <2>6. Means(x, at)
    BY <1>1, <1>4, <2>1, <2>5, ClockNow DEF Means
  <2>. QED  BY <1>2, <2>2, <2>3, <2>5, <2>6
<1>7. CASE etimer_reset(t, p)
  <2>1. PICK x, at, dl : /\ x = [timer[t] EXCEPT !.start = Wrap(@ + timer[t].interval)]
                         /\ at = deadline[t] + timer[t].interval /\ dl = deadline[t]
    OBVIOUS
  <2>2. Start(t, p, x, at) /\ dl <= now
    BY <1>7, <2>1 DEF etimer_reset
  <2>3. dl \in Int /\ at = dl + i /\ at \in Int /\ at - i <= now /\ dl <= MaxTime
    BY <1>1, <1>3, <1>4, <2>1, <2>2
  <2>4. x = [start |-> Wrap(b + i), interval |-> i]
    BY <1>3, <1>4, <2>1
  <2>5. Wrap(b + i) \in Clock /\ b + i \in Int
    BY <1>4, WrapType
  <2>6. x \in Setting /\ x.start = Wrap(b + i) /\ x.interval = i
    BY <1>4, <2>4, <2>5 DEF Setting
  <2>7. Wrap(b + i) = Wrap(dl)
    BY <1>3, <2>1, <2>3 DEF EtimerInv, TimesInv, Means
  <2>8. Wrap(Wrap(b + i) + i) = Wrap(at)
    <3>1. Wrap(Wrap(dl) + i) = Wrap(dl + i)
      BY <1>4, <2>3, WrapSum
    <3>. QED  BY <2>3, <2>7, <3>1
  <2>9. Means(x, at)
    BY <2>6, <2>8 DEF Means
  <2>. QED  BY <1>2, <2>2, <2>3, <2>6, <2>9
<1>. QED  BY <1>5, <1>6, <1>7

\* An adjustment moves the setting and what it means by the same distance.
LEMMA AdjustKeeps ==
  ASSUME EtimerInv, NEW t \in Timer, etimer_adjust(t)
  PROVE  EtimerInv'
<1>1. /\ now' = now /\ owner' = owner /\ timerlist' = timerlist /\ stale' = FALSE
      /\ queue' = queue /\ needspoll' = needspoll /\ walk' = walk /\ alive' = alive
      /\ sets' = sets + 1 /\ others' = others /\ adjusted' = adjusted \cup {t}
      /\ next_expiration' = update_time(timerlist, timer') /\ Listed(t)
      /\ setter' = setter
  BY DEF etimer_adjust, kernel
<1>2. PICK d \in Adjustment :
        /\ timer' = [timer EXCEPT ![t].start = Wrap(@ + d)]
        /\ deadline' = [deadline EXCEPT ![t] = @ + d]
        /\ now <= deadline[t] + d + MaxDelay
        /\ deadline[t] + d - timer[t].interval <= now
  BY DEF etimer_adjust
<1>3. /\ now \in Nat /\ now \in 0..MaxTime /\ timer \in [Timer -> Setting]
      /\ deadline \in [Timer -> Int] /\ d \in Int /\ MaxDelay \in Nat
  BY EtimerAssumption DEF EtimerInv, TypeOK, TimesInv
<1>4. PICK b, i, dl, at : b = timer[t].start /\ i = timer[t].interval /\ dl = deadline[t] /\ at = dl + d
  OBVIOUS
<1>5. /\ b \in Int /\ i \in Int /\ i \in Interval \cup {0} /\ dl \in Int /\ at \in Int
      /\ timer[t] = [start |-> b, interval |-> i]
  BY <1>3, <1>4, SettingFacts DEF Setting
<1>6. now <= at + MaxDelay /\ at - i <= now
  <2>1. now <= dl + d + MaxDelay /\ dl + d - i <= now
    BY <1>2, <1>4
  <2>2. dl + d + MaxDelay = at + MaxDelay /\ dl + d - i = at - i
    BY <1>3, <1>4, <1>5
  <2>. QED  BY <2>1, <2>2
<1>7. PICK x : x = [start |-> Wrap(b + d), interval |-> i]
  OBVIOUS
<1>8. x \in Setting /\ x.start = Wrap(b + d) /\ x.interval = i
  <2>1. Wrap(b + d) \in Clock
    BY <1>3, <1>5, WrapType
  <2>. QED  BY <1>5, <1>7, <2>1 DEF Setting
<1>9. Sound(x, at, now)
  <2>1. Wrap(b + i) = Wrap(dl)
    BY <1>1, <1>4, ListedTimes DEF Listed, Sound, Means
  <2>2. Wrap(Wrap(b + d) + i) = Wrap((b + i) + d)
    <3>1. Wrap(Wrap(b + d) + i) = Wrap((b + d) + i)
      BY <1>3, <1>5, WrapSum
    <3>2. (b + d) + i = (b + i) + d
      BY <1>3, <1>5
    <3>. QED  BY <3>1, <3>2
  <2>3. Wrap((b + i) + d) = Wrap(Wrap(b + i) + d)
    BY <1>3, <1>5, WrapSum
  <2>4. Wrap(Wrap(dl) + d) = Wrap(at)
    BY <1>3, <1>4, <1>5, WrapSum
  <2>. QED  BY <1>6, <1>8, <2>1, <2>2, <2>3, <2>4 DEF Sound, Means
<1>10. timer' \in [Timer -> Setting] /\ timer'[t] = x /\ \A u \in Timer \ {t} : timer'[u] = timer[u]
  <2>1. timer' = [timer EXCEPT ![t] = x]
    <3>1. timer' = [timer EXCEPT ![t] = [timer[t] EXCEPT !.start = Wrap(@ + d)]]
      BY <1>2
    <3>2. [timer[t] EXCEPT !.start = Wrap(@ + d)] = x
      BY <1>4, <1>5, <1>7
    <3>. QED  BY <3>1, <3>2
  <2>. QED  BY <1>3, <1>8, <2>1
<1>11. deadline' \in [Timer -> Int] /\ deadline'[t] = at /\ \A u \in Timer \ {t} : deadline'[u] = deadline[u]
  <2>1. deadline' = [deadline EXCEPT ![t] = at]
    BY <1>2, <1>4
  <2>. QED  BY <1>3, <1>5, <2>1
<1>12. \A u \in Range(timerlist) : owner[u] \in Proc /\ Sound(timer'[u], deadline'[u], now)
  <2>1. SUFFICES ASSUME NEW u \in Range(timerlist)
                 PROVE  owner[u] \in Proc /\ Sound(timer'[u], deadline'[u], now)
    OBVIOUS
  <2>2. owner[u] \in Proc /\ u \in Timer /\ Sound(timer[u], deadline[u], now)
    BY ListedTimes
  <2>. QED  BY <1>9, <1>10, <1>11, <2>2
<1>13. /\ update_time(timerlist, timer') \in Clock
       /\ timerlist # <<>> /\ (\A u \in Range(timerlist) : now < deadline'[u])
            => NextIs(timerlist, deadline', update_time(timerlist, timer'))
  BY <1>3, <1>10, <1>11, <1>12, ListedTimes, Refreshed
<1>14. TypeOK'
  <2>1. timer' \in [Timer -> [start : Clock, interval : Clock]]
    BY <1>10, Constants
  <2>2. /\ queue \in Seq((Proc \cup {None}) \X (Timer \cup {None})) /\ walk \in Nat
        /\ alive \subseteq Proc /\ sets \in Nat /\ others \in Nat /\ adjusted \subseteq Timer
        /\ needspoll \in BOOLEAN /\ owner \in [Timer -> Proc \cup {None}]
        /\ timerlist \in Seq(Timer) /\ IsInjective(timerlist)
        /\ setter \in [Timer -> Proc \cup {None}]
    BY DEF EtimerInv, TypeOK
  <2>3. needspoll' \in BOOLEAN /\ walk' \in Nat /\ stale' \in BOOLEAN
    BY <1>1, <2>2, Zenon
  <2>4. sets' \in Nat /\ others' \in Nat /\ adjusted' \subseteq Timer
    BY <1>1, <2>2
  <2>. QED  BY <1>1, <1>3, <1>11, <1>13, <2>1, <2>2, <2>3, <2>4 DEF TypeOK
<1>15. TimesInv'
  <2>1. \A u \in Timer : deadline'[u] <= MaxTime => Means(timer'[u], deadline'[u])
    <3>1. \A u \in Timer : deadline[u] <= MaxTime => Means(timer[u], deadline[u])
      BY DEF EtimerInv, TimesInv
    <3>. QED  BY <1>9, <1>10, <1>11, <3>1 DEF Sound
  <2>. QED  BY <1>1, <1>3, <1>10, <1>12, <2>1 DEF TimesInv
<1>16. ExpiredIsNoticed'
  <2>1. SUFFICES ASSUME NEW u \in Range(timerlist) \ (adjusted \cup {t}), deadline'[u] <= now
                 PROVE  needspoll \/ u \in Ahead
    BY <1>1, AheadIs DEF ExpiredIsNoticed
  <2>2. u \in Timer \ {t}
    BY <2>1, ListedTimes
  <2>. QED  BY <1>11, <2>1, <2>2 DEF EtimerInv, ExpiredIsNoticed
<1>17. NextInv'
  BY <1>1, <1>13 DEF NextInv
<1>18. SetterInv'
  BY <1>1 DEF EtimerInv, SetterInv, Listed
<1>. QED  BY <1>14, <1>15, <1>16, <1>17, <1>18 DEF EtimerInv

(***************************************************************************)
(* Taking timers off the list                                               *)
(***************************************************************************)
\* next_expiration is computed anew, or the list is what it was, or marked.
LEMMA Shrunk ==
  ASSUME EtimerInv, now' = now, timer' = timer, deadline' = deadline,
         timerlist' \in Seq(Timer), Range(timerlist') \subseteq Range(timerlist),
         \A u \in Range(timerlist') : owner'[u] = owner[u],
         \/ next_expiration' = update_time(timerlist', timer) /\ stale' = FALSE
         \/ /\ next_expiration' = next_expiration
            /\ stale' = TRUE \/ (stale' = stale /\ Range(timerlist') = Range(timerlist))
  PROVE  TimesInv' /\ NextInv' /\ next_expiration' \in Clock /\ stale' \in BOOLEAN
<1>1. /\ now \in Nat /\ timer \in [Timer -> Setting] /\ deadline \in [Timer -> Int]
      /\ next_expiration \in Clock /\ stale \in BOOLEAN
  BY DEF EtimerInv, TypeOK, TimesInv
<1>2. \A u \in Range(timerlist') : owner'[u] \in Proc /\ Sound(timer[u], deadline[u], now)
  BY ListedTimes
<1>3. TimesInv'
  BY <1>2 DEF EtimerInv, TimesInv
<1>4. CASE next_expiration' = update_time(timerlist', timer) /\ stale' = FALSE
  <2>1. /\ update_time(timerlist', timer) \in Clock
        /\ timerlist' # <<>> /\ (\A u \in Range(timerlist') : now < deadline[u])
             => NextIs(timerlist', deadline, update_time(timerlist', timer))
    BY <1>1, <1>2, Refreshed
  <2>2. NextInv'
    BY <1>4, <2>1 DEF NextInv
  <2>. QED  BY <1>3, <1>4, <2>1, <2>2
<1>5. CASE next_expiration' = next_expiration /\ stale' = TRUE
  <2>1. NextInv'
    BY <1>5 DEF NextInv
  <2>. QED  BY <1>1, <1>3, <1>5, <2>1
<1>6. CASE /\ next_expiration' = next_expiration
           /\ stale' = stale /\ Range(timerlist') = Range(timerlist)
  <2>1. timerlist' # <<>> <=> timerlist # <<>>
    BY <1>6, ListRange, ListedTimes
  <2>2. NextInv'
    <3>1. ASSUME timerlist' # <<>>, ~stale', \A u \in Range(timerlist') : now' < deadline'[u]
          PROVE  NextIs(timerlist', deadline', next_expiration')
      <4>1. NextIs(timerlist, deadline, next_expiration)
        BY <1>6, <2>1, <3>1 DEF EtimerInv, NextInv
      <4>. QED  BY <1>6, <4>1 DEF NextIs
    <3>. QED  BY <3>1 DEF NextInv
  <2>3. next_expiration' \in Clock /\ stale' \in BOOLEAN
    BY <1>1, <1>6, Zenon
  <2>. QED  BY <1>3, <2>2, <2>3
<1>. QED  BY <1>4, <1>5, <1>6

\* While no search runs, timers may go off the list.
LEMMA IdleIsNoticed ==
  ASSUME EtimerInv, walk = 0, now' = now, deadline' = deadline, adjusted' = adjusted,
         needspoll' = needspoll, Range(timerlist') \subseteq Range(timerlist)
  PROVE  ExpiredIsNoticed'
<1>1. Ahead = {}
  BY AheadIs, AheadFacts DEF EtimerInv, TypeOK
<1>2. \A t \in Range(timerlist) \ adjusted : deadline[t] <= now => needspoll
  BY <1>1 DEF EtimerInv, ExpiredIsNoticed
<1>. QED  BY <1>2 DEF ExpiredIsNoticed

LEMMA StopKeeps ==
  ASSUME EtimerInv, NEW t \in Timer, etimer_stop(t)
  PROVE  EtimerInv' /\ Range(timerlist') = Range(timerlist) \ {t}
<1>1. /\ now' = now /\ timer' = timer /\ deadline' = deadline /\ adjusted' = adjusted
      /\ queue' = queue /\ needspoll' = needspoll /\ walk' = walk /\ alive' = alive
      /\ sets' = sets /\ others' = others
      /\ timerlist' = Kept(timerlist, Timer \ {t}) /\ owner' = [owner EXCEPT ![t] = None]
      /\ setter' = [setter EXCEPT ![t] = None] /\ walk = 0
  BY DEF etimer_stop, Unlinked, settings, kernel, bounds, searching
<1>2. /\ timerlist' \in Seq(Timer) /\ Range(timerlist') = Range(timerlist) \ {t}
      /\ IsInjective(timerlist')
  <2>1. Range(timerlist) \subseteq Timer /\ timerlist \in Seq(Timer) /\ IsInjective(timerlist)
    BY ListedTimes DEF EtimerInv, TypeOK
  <2>2. /\ Kept(timerlist, Timer \ {t}) \in Seq(Timer)
        /\ Range(Kept(timerlist, Timer \ {t})) = Range(timerlist) \cap (Timer \ {t})
    BY <2>1, KeptType
  <2>3. IsInjective(Kept(timerlist, Timer \ {t}))
    BY <2>1, KeptInjective
  <2>. QED  BY <1>1, <2>1, <2>2, <2>3
<1>3. /\ owner' \in [Timer -> Proc \cup {None}] /\ \A u \in Timer \ {t} : owner'[u] = owner[u]
      /\ setter' \in [Timer -> Proc \cup {None}] /\ setter'[t] = None
      /\ \A u \in Timer \ {t} : setter'[u] = setter[u]
  BY <1>1 DEF EtimerInv, TypeOK
<1>4. \A u \in Range(timerlist') : owner'[u] = owner[u]
  BY <1>2, <1>3, ListedTimes
<1>5. \/ next_expiration' = update_time(timerlist', timer) /\ stale' = FALSE
      \/ /\ next_expiration' = next_expiration
         /\ stale' = stale /\ Range(timerlist') = Range(timerlist)
  <2>1. CASE Listed(t)
    BY <2>1 DEF etimer_stop
  <2>2. CASE ~Listed(t)
    BY <1>2, <2>2 DEF etimer_stop, Listed
  <2>. QED  BY <2>1, <2>2
<1>6. TimesInv' /\ NextInv' /\ next_expiration' \in Clock /\ stale' \in BOOLEAN
  BY <1>1, <1>2, <1>4, <1>5, Shrunk
<1>7. TypeOK'
  BY <1>1, <1>2, <1>3, <1>6 DEF EtimerInv, TypeOK
<1>8. ExpiredIsNoticed'
  BY <1>1, <1>2, IdleIsNoticed
<1>9. SetterInv'
  BY <1>2, <1>3 DEF EtimerInv, SetterInv, Listed
<1>. QED  BY <1>2, <1>6, <1>7, <1>8, <1>9 DEF EtimerInv

LEMMA ExitKeeps ==
  ASSUME EtimerInv, NEW p \in Proc, ProcessExit(p)
  PROVE  /\ EtimerInv' /\ Range(timerlist') = {t \in Range(timerlist) : owner[t] # p}
<1>1. /\ now' = now /\ timer' = timer /\ deadline' = deadline /\ adjusted' = adjusted
      /\ queue' = queue /\ needspoll' = needspoll /\ walk' = walk
      /\ alive' = alive \ {p} /\ sets' = sets /\ others' = others /\ owner' = owner
      /\ next_expiration' = next_expiration
      /\ timerlist' = OfOthers(p) /\ stale' = (stale \/ timerlist' # timerlist) /\ walk = 0
      /\ setter' = [t \in Timer |-> IF setter[t] = p THEN None ELSE setter[t]]
  BY DEF ProcessExit, settings, bounds, searching
<1>2. /\ timerlist' \in Seq(Timer) /\ Range(timerlist') = {t \in Range(timerlist) : owner[t] # p}
      /\ IsInjective(timerlist')
  <2>1. Range(timerlist) \subseteq Timer /\ timerlist \in Seq(Timer) /\ IsInjective(timerlist)
    BY ListedTimes DEF EtimerInv, TypeOK
  <2>2. PICK S : S = {t \in Timer : owner[t] # p}
    OBVIOUS
  <2>3. timerlist' = Kept(timerlist, S)
    BY <1>1, <2>2 DEF OfOthers
  <2>4. timerlist' \in Seq(Timer) /\ Range(timerlist') = Range(timerlist) \cap S
    BY <2>1, <2>3, KeptType
  <2>5. IsInjective(timerlist')
    BY <2>1, <2>3, KeptInjective
  <2>. QED  BY <2>1, <2>2, <2>4, <2>5
<1>3. stale' = TRUE \/ (stale' = stale /\ Range(timerlist') = Range(timerlist))
  <2>1. CASE timerlist' # timerlist
    BY <1>1, <2>1
  <2>2. CASE timerlist' = timerlist
    <3>1. stale \in BOOLEAN
      BY DEF EtimerInv, TypeOK
    <3>2. stale' = stale
      BY <1>1, <2>2, <3>1
    <3>. QED  BY <2>2, <3>2
  <2>. QED  BY <2>1, <2>2
<1>4. TimesInv' /\ NextInv' /\ next_expiration' \in Clock /\ stale' \in BOOLEAN
  BY <1>1, <1>2, <1>3, Shrunk
<1>s. /\ setter' \in [Timer -> Proc \cup {None}]
      /\ \A t \in Timer : setter'[t] = IF setter[t] = p THEN None ELSE setter[t]
  BY <1>1 DEF EtimerInv, TypeOK
<1>5. TypeOK'
  BY <1>1, <1>2, <1>4, <1>s DEF EtimerInv, TypeOK
<1>6. ExpiredIsNoticed'
  BY <1>1, <1>2, IdleIsNoticed
<1>7. SetterInv'
  BY <1>1, <1>2, <1>s, Constants DEF EtimerInv, SetterInv, Listed
<1>. QED  BY <1>2, <1>4, <1>5, <1>6, <1>7 DEF EtimerInv

\* The search has reached a timer whose time has come.
LEMMA ReachedIsDue ==
  ASSUME EtimerInv, ReachedExpired
  PROVE  /\ Reached \in Range(timerlist) /\ Reached \in Timer
         /\ deadline[Reached] <= now /\ owner[Reached] \in Proc
<1>1. Reached \in Range(timerlist)
  BY ListedTimes, ListRange DEF ReachedExpired, Reached
<1>. QED  BY <1>1, ListedTimes DEF ReachedExpired

LEMMA SearchPostsKeeps ==
  ASSUME EtimerInv, SearchPosts
  PROVE  EtimerInv' /\ Range(timerlist') = Range(timerlist) \ {Reached}
<1>1. PICK t : t = Reached
  OBVIOUS
<1>2. /\ now' = now /\ timer' = timer /\ deadline' = deadline /\ adjusted' = adjusted
      /\ needspoll' = needspoll /\ walk' = 1 /\ alive' = alive
      /\ sets' = sets /\ others' = others /\ setter' = [setter EXCEPT ![t] = None]
      /\ next_expiration' = update_time(timerlist', timer) /\ stale' = FALSE
      /\ timerlist' = Kept(timerlist, Timer \ {t}) /\ owner' = [owner EXCEPT ![t] = None]
      /\ queue' = Append(queue, <<owner[t], t>>)
  BY <1>1 DEF SearchPosts, process_post, Unlinked, settings, bounds
<1>3. t \in Range(timerlist) /\ t \in Timer /\ owner[t] \in Proc
  BY <1>1, ReachedIsDue DEF SearchPosts
<1>4. /\ timerlist' \in Seq(Timer) /\ Range(timerlist') = Range(timerlist) \ {t}
      /\ IsInjective(timerlist')
  <2>1. Range(timerlist) \subseteq Timer /\ timerlist \in Seq(Timer) /\ IsInjective(timerlist)
    BY ListedTimes DEF EtimerInv, TypeOK
  <2>2. /\ Kept(timerlist, Timer \ {t}) \in Seq(Timer)
        /\ Range(Kept(timerlist, Timer \ {t})) = Range(timerlist) \cap (Timer \ {t})
    BY <2>1, KeptType
  <2>3. IsInjective(Kept(timerlist, Timer \ {t}))
    BY <2>1, KeptInjective
  <2>. QED  BY <1>2, <2>1, <2>2, <2>3
<1>5. /\ owner' \in [Timer -> Proc \cup {None}] /\ \A u \in Timer \ {t} : owner'[u] = owner[u]
      /\ setter' \in [Timer -> Proc \cup {None}] /\ setter'[t] = None
      /\ \A u \in Timer \ {t} : setter'[u] = setter[u]
  BY <1>2, <1>3 DEF EtimerInv, TypeOK
<1>6. \A u \in Range(timerlist') : owner'[u] = owner[u]
  BY <1>4, <1>5, ListedTimes
<1>7. TimesInv' /\ NextInv' /\ next_expiration' \in Clock /\ stale' \in BOOLEAN
  BY <1>2, <1>4, <1>6, Shrunk
<1>8. queue' \in Seq((Proc \cup {None}) \X (Timer \cup {None}))
  BY <1>2, <1>3 DEF EtimerInv, TypeOK
<1>9. TypeOK'
  BY <1>2, <1>4, <1>5, <1>7, <1>8 DEF EtimerInv, TypeOK
<1>10. ExpiredIsNoticed'
  <2>1. Ahead' = Range(timerlist')
    BY <1>2, <1>4, AheadIs, AheadFacts
  <2>. QED  BY <2>1 DEF ExpiredIsNoticed
<1>11. SetterInv'
  BY <1>4, <1>5 DEF EtimerInv, SetterInv, Listed
<1>. QED  BY <1>1, <1>4, <1>7, <1>9, <1>10, <1>11 DEF EtimerInv

(***************************************************************************)
(* The clock, the queue and the search                                      *)
(***************************************************************************)
LEMMA TickKeeps ==
  ASSUME EtimerInv, Tick
  PROVE  EtimerInv'
<1>1. /\ now' = now + 1 /\ now < MaxTime /\ adjusted' = {}
      /\ needspoll' = (needspoll \/ timerlist # <<>>)
      /\ timerlist' = timerlist /\ owner' = owner /\ next_expiration' = next_expiration
      /\ stale' = stale /\ timer' = timer /\ deadline' = deadline /\ queue' = queue
      /\ walk' = walk /\ alive' = alive /\ sets' = sets /\ others' = others
      /\ setter' = setter /\ \A t \in Range(timerlist) : now < deadline[t] + MaxDelay
  BY DEF Tick, Noticed, list, bounds
<1>2. now \in Nat /\ MaxTime \in Nat /\ MaxDelay \in Nat /\ now' \in Nat /\ now' \in 0..MaxTime
  BY <1>1, Constants DEF EtimerInv, TypeOK
<1>3. TypeOK'
  <2>1. needspoll' \in BOOLEAN
    BY <1>1
  <2>. QED  BY <1>1, <1>2, <2>1 DEF EtimerInv, TypeOK
<1>4. \A t \in Range(timerlist) : Sound(timer[t], deadline[t], now')
  <2>1. SUFFICES ASSUME NEW t \in Range(timerlist) PROVE Sound(timer[t], deadline[t], now')
    OBVIOUS
  <2>2. /\ Sound(timer[t], deadline[t], now) /\ deadline[t] \in Int
        /\ timer[t].interval \in Nat /\ now < deadline[t] + MaxDelay
    BY <1>1, ListedTimes, SettingFacts
  <2>. QED  BY <1>1, <1>2, <2>2 DEF Sound
<1>5. TimesInv'
  BY <1>1, <1>2, <1>4 DEF EtimerInv, TimesInv
<1>6. ExpiredIsNoticed'
  <2>1. CASE timerlist = <<>>
    <3>1. Range(timerlist) = {}
      BY <2>1, ListRange, ListedTimes
    <3>. QED  BY <1>1, <3>1 DEF ExpiredIsNoticed
  <2>2. CASE timerlist # <<>>
    BY <1>1, <2>2 DEF ExpiredIsNoticed
  <2>. QED  BY <2>1, <2>2
<1>7. NextInv'
  <2>1. \A t \in Range(timerlist) : now' < deadline[t] => now < deadline[t]
    BY <1>1, <1>2, ListedTimes
  <2>. QED  BY <1>1, <2>1 DEF EtimerInv, NextInv
<1>8. SetterInv'
  BY <1>1 DEF EtimerInv, SetterInv, Listed
<1>. QED  BY <1>3, <1>5, <1>6, <1>7, <1>8 DEF EtimerInv

\* The steps that touch neither the list nor the settings.
LEMMA QuietKeeps ==
  ASSUME EtimerInv,
         Poll \/ SearchFails \/ SearchSkips \/ SearchEnds \/ Deliver \/ OtherPost
           \/ (\E p \in Proc : ProcessStart(p))
  PROVE  EtimerInv'
<1>1. /\ now' = now /\ timerlist' = timerlist /\ owner' = owner
      /\ next_expiration' = next_expiration /\ stale' = stale
      /\ timer' = timer /\ deadline' = deadline /\ adjusted' = adjusted /\ setter' = setter
  BY DEF Poll, SearchFails, SearchSkips, SearchEnds, Deliver, OtherPost, ProcessStart, list, settings
<1>2. TimesInv' /\ NextInv' /\ SetterInv'
  BY <1>1 DEF EtimerInv, TimesInv, NextInv, SetterInv, Listed
<1>l. timerlist \in Seq(Timer) /\ walk \in Nat
  BY DEF EtimerInv, TypeOK
\* Where list and search stay what they are, nothing is passed.
<1>a. walk' = walk /\ needspoll' = needspoll => ExpiredIsNoticed'
  <2>1. walk' = walk => Ahead' = Ahead
    BY <1>1, AheadIs
  <2>. QED  BY <1>1, <2>1 DEF EtimerInv, ExpiredIsNoticed
<1>3. ASSUME NEW p \in Proc, ProcessStart(p)
      PROVE  TypeOK' /\ ExpiredIsNoticed'
  <2>1. /\ needspoll' = needspoll /\ walk' = walk /\ queue' = queue
        /\ alive' = alive \cup {p} /\ sets' = sets /\ others' = others
    BY <1>3 DEF ProcessStart, bounds
  <2>. QED  BY <1>1, <1>a, <2>1 DEF EtimerInv, TypeOK
<1>4. CASE Poll
  <2>1. /\ needspoll' = FALSE /\ walk' = 1 /\ queue' = queue
        /\ alive' = alive /\ sets' = sets /\ others' = others
    BY <1>4 DEF Poll, bounds
  <2>2. TypeOK'
    BY <1>1, <2>1 DEF EtimerInv, TypeOK
  <2>3. Ahead' = Range(timerlist')
    BY <1>1, <1>l, <2>1, AheadIs, AheadFacts
  <2>4. ExpiredIsNoticed'
    BY <2>3 DEF ExpiredIsNoticed
  <2>. QED  BY <1>2, <2>2, <2>4 DEF EtimerInv
<1>5. CASE SearchFails
  <2>1. /\ needspoll' = TRUE /\ walk' = walk + 1 /\ queue' = queue
        /\ alive' = alive /\ sets' = sets /\ others' = others
    BY <1>5 DEF SearchFails, Retry, bounds
  <2>. QED  BY <1>1, <1>2, <2>1 DEF EtimerInv, TypeOK, ExpiredIsNoticed
<1>s. CASE SearchSkips
  <2>1. /\ needspoll' = needspoll /\ walk' = walk + 1 /\ queue' = queue
        /\ alive' = alive /\ sets' = sets /\ others' = others
        /\ walk \in DOMAIN timerlist /\ ~timer_expired(timer[Reached])
    BY <1>s DEF SearchSkips, bounds
  <2>2. TypeOK'
    BY <1>1, <2>1 DEF EtimerInv, TypeOK
  <2>3. Reached \in Range(timerlist) /\ ~(deadline[Reached] <= now)
    BY <1>l, <2>1, ListRange, ListedTimes DEF Reached
  <2>4. Ahead \subseteq Ahead' \cup {Reached}
    BY <1>1, <1>l, <2>1, AheadIs, AheadFacts DEF Reached
  <2>5. ExpiredIsNoticed'
    BY <1>1, <2>1, <2>3, <2>4 DEF EtimerInv, ExpiredIsNoticed
  <2>. QED  BY <1>2, <2>2, <2>5 DEF EtimerInv
<1>6. CASE SearchEnds
  <2>1. /\ needspoll' = needspoll /\ walk' = 0 /\ queue' = queue
        /\ alive' = alive /\ sets' = sets /\ others' = others /\ walk \notin DOMAIN timerlist
    BY <1>6 DEF SearchEnds, bounds
  <2>2. TypeOK'
    BY <1>1, <2>1 DEF EtimerInv, TypeOK
  <2>3. Ahead = {}
    BY <1>l, <2>1, AheadIs, AheadFacts
  <2>4. ExpiredIsNoticed'
    BY <1>1, <2>1, <2>3 DEF EtimerInv, ExpiredIsNoticed
  <2>. QED  BY <1>2, <2>2, <2>4 DEF EtimerInv
<1>7. CASE Deliver
  <2>1. /\ needspoll' = needspoll /\ walk' = walk /\ queue' = Tail(queue)
        /\ alive' = alive /\ sets' = sets /\ others' = others /\ queue # <<>>
    BY <1>7 DEF Deliver, bounds
  <2>2. queue' \in Seq((Proc \cup {None}) \X (Timer \cup {None}))
    BY <2>1 DEF EtimerInv, TypeOK
  <2>3. TypeOK'
    BY <1>1, <2>1, <2>2 DEF EtimerInv, TypeOK
  <2>4. ExpiredIsNoticed'
    BY <1>a, <2>1
  <2>. QED  BY <1>2, <2>3, <2>4 DEF EtimerInv
<1>8. CASE OtherPost
  <2>1. /\ needspoll' = needspoll /\ walk' = walk
        /\ queue' = Append(queue, <<None, None>>)
        /\ alive' = alive /\ sets' = sets /\ others' = others + 1
    BY <1>8 DEF OtherPost, process_post
  <2>2. queue' \in Seq((Proc \cup {None}) \X (Timer \cup {None}))
    BY <2>1 DEF EtimerInv, TypeOK
  <2>3. TypeOK'
    BY <1>1, <2>1, <2>2 DEF EtimerInv, TypeOK
  <2>4. ExpiredIsNoticed'
    BY <1>a, <2>1
  <2>. QED  BY <1>2, <2>3, <2>4 DEF EtimerInv
<1>. QED  BY <1>2, <1>3, <1>4, <1>5, <1>6, <1>7, <1>8, <1>s DEF EtimerInv

(***************************************************************************)
(* The theorems                                                             *)
(***************************************************************************)
LEMMA EmptyKept == \A S : Kept(<<>>, S) = <<>> /\ Range(<<>>) = {}
<1>1. SUFFICES ASSUME NEW S PROVE Kept(<<>>, S) = <<>> /\ Range(<<>>) = {}
  OBVIOUS
<1>2. PICK l : l = <<>>
  OBVIOUS
<1>3. l \in Seq({}) /\ Len(l) = 0
  BY <1>2
<1>4. Kept(l, S) = <<>>
  BY <1>3, KeptEquations
<1>. QED  BY <1>2, <1>4 DEF Range

LEMMA InitEstablishes == Init => EtimerInv
<1>1. SUFFICES ASSUME Init PROVE EtimerInv
  OBVIOUS
<1>2. \A t \in Timer : timer[t] = [start |-> 0, interval |-> 0] /\ deadline[t] = 0
  BY <1>1 DEF Init
<1>3. timer \in [Timer -> Setting] /\ \A t \in Timer : timer[t].start + timer[t].interval = deadline[t]
  BY <1>1, <1>2, Constants DEF Init, Setting
<1>4. \A t \in Timer : Means(timer[t], deadline[t])
  BY <1>3 DEF Means
<1>5. TypeOK
  <2>1. timer \in [Timer -> [start : Clock, interval : Clock]]
    BY <1>3, Constants
  <2>2. /\ owner \in [Timer -> Proc \cup {None}] /\ setter \in [Timer -> Proc \cup {None}]
        /\ walk \in Nat /\ deadline \in [Timer -> Int]
        /\ now \in Nat /\ sets \in Nat /\ others \in Nat /\ next_expiration \in Clock
    BY <1>1, Constants DEF Init
  <2>3. /\ timerlist \in Seq(Timer) /\ IsInjective(timerlist)
        /\ queue \in Seq((Proc \cup {None}) \X (Timer \cup {None}))
        /\ adjusted \subseteq Timer /\ alive \subseteq Proc
    BY <1>1 DEF Init, IsInjective
  <2>4. needspoll \in BOOLEAN /\ stale \in BOOLEAN
    BY <1>1, Zenon DEF Init
  <2>. QED  BY <2>1, <2>2, <2>3, <2>4 DEF TypeOK
<1>6. Range(timerlist) = {} /\ timerlist = <<>>
  BY <1>1, EmptyKept DEF Init
<1>7. TimesInv
  BY <1>1, <1>3, <1>4, <1>6, Constants DEF Init, TimesInv
<1>8. SetterInv
  BY <1>1, <1>6 DEF Init, SetterInv, Listed
<1>. QED  BY <1>5, <1>6, <1>7, <1>8 DEF EtimerInv, ExpiredIsNoticed, NextInv

\* A call that sets a timer.
Sets(t, p) == etimer_set(t, p) \/ etimer_restart(t, p) \/ etimer_reset(t, p)

LEMMA SetsKeeps ==
  ASSUME EtimerInv, NEW t \in Timer, NEW p \in Proc, Sets(t, p)
  PROVE  EtimerInv'
BY SettingStarts, StartKeeps DEF Sets

LEMMA NothingChanges ==
  ASSUME EtimerInv, now' = now, timer' = timer, owner' = owner, timerlist' = timerlist,
         next_expiration' = next_expiration, queue' = queue, needspoll' = needspoll,
         walk' = walk, alive' = alive, sets' = sets, others' = others,
         deadline' = deadline, adjusted' = adjusted, stale' = stale, setter' = setter
  PROVE  EtimerInv'
<1>1. Ahead' = Ahead
  BY AheadIs
<1>2. TypeOK' /\ TimesInv'
  BY DEF EtimerInv, TypeOK, TimesInv
<1>3. ExpiredIsNoticed' /\ NextInv' /\ SetterInv'
  BY <1>1 DEF EtimerInv, ExpiredIsNoticed, NextInv, SetterInv, Listed
<1>. QED  BY <1>2, <1>3 DEF EtimerInv

LEMMA StepKeeps == EtimerInv /\ [Next]_vars => EtimerInv'
<1>1. SUFFICES ASSUME EtimerInv, [Next]_vars PROVE EtimerInv'
  OBVIOUS
<1>2. CASE UNCHANGED vars
  <2>1. /\ now' = now /\ timer' = timer /\ owner' = owner /\ timerlist' = timerlist
        /\ next_expiration' = next_expiration /\ queue' = queue /\ needspoll' = needspoll
        /\ walk' = walk /\ alive' = alive /\ sets' = sets /\ others' = others
        /\ deadline' = deadline /\ adjusted' = adjusted /\ stale' = stale /\ setter' = setter
    BY <1>2 DEF vars, list, settings, kernel, bounds
  <2>. QED  BY <1>1, <2>1, NothingChanges
<1>3. CASE Next
  <2>1. CASE \E t \in Timer, p \in Proc : Sets(t, p)
    BY <1>1, <2>1, SetsKeeps
  <2>2. CASE \E t \in Timer : etimer_adjust(t)
    BY <1>1, <2>2, AdjustKeeps
  <2>3. CASE \E t \in Timer : etimer_stop(t)
    BY <1>1, <2>3, StopKeeps
  <2>4. CASE \E p \in Proc : ProcessExit(p)
    BY <1>1, <2>4, ExitKeeps
  <2>5. CASE Tick
    BY <1>1, <2>5, TickKeeps
  <2>6. CASE SearchPosts
    BY <1>1, <2>6, SearchPostsKeeps
  <2>7. CASE Poll \/ SearchFails \/ SearchSkips \/ SearchEnds \/ Deliver \/ OtherPost
               \/ (\E p \in Proc : ProcessStart(p))
    BY <1>1, <2>7, QuietKeeps
  <2>. QED  BY <1>3, <2>1, <2>2, <2>3, <2>4, <2>5, <2>6, <2>7, Zenon DEF Next, Apps, Search, Sets
<1>. QED  BY <1>1, <1>2, <1>3

\* The invariant that the theorems below rest on: what the code knows modulo
\* ClockMod tells the times of the timers, and what it has noticed of them.
THEOREM EtimerInvHolds == Spec => []EtimerInv
  BY InitEstablishes, StepKeeps, PTL DEF Spec

\* Every variable keeps its type: the clock and the intervals stay below
\* ClockMod, and only processes and timers are on the list and in the queue.
THEOREM TypeCorrect == Spec => []TypeOK
<1>1. EtimerInv => TypeOK
  BY DEF EtimerInv
<1>. QED  BY <1>1, EtimerInvHolds, PTL

\* The SysTick handler and the calls of etimer.c leave no timer expired and
\* unnoticed: a poll of etimer_process is underway, or it runs.
THEOREM ExpiredIsSeen == Spec => []ExpiredIsNoticed
<1>1. EtimerInv => ExpiredIsNoticed
  BY DEF EtimerInv
<1>. QED  BY <1>1, EtimerInvHolds, PTL

\* While no timer has expired, etimer_next_expiration_time answers the time of
\* the nearest one, also when the clock is about to wrap.
THEOREM SleepEndsInTime == Spec => []NextIsNearest
<1>1. ASSUME EtimerInv PROVE NextIsNearest
  <2>1. SUFFICES ASSUME timerlist # <<>>, Expired = {}, ~stale
                 PROVE  NextIs(timerlist, deadline, next_expiration)
    BY DEF NextIsNearest, NextIs
  <2>2. \A t \in Range(timerlist) : ~timer_expired(timer[t])
    BY <2>1 DEF Expired
  <2>3. \A t \in Range(timerlist) : now < deadline[t]
    BY <1>1, <2>2, ListedTimes
  <2>. QED  BY <1>1, <2>1, <2>3 DEF EtimerInv, NextInv
<1>. QED  BY <1>1, EtimerInvHolds, PTL

(***************************************************************************)
(* etimer.c implements EventTimers                                          *)
(***************************************************************************)
Intervals(tm) == [u \in Timer |-> tm[u].interval]

\* What the calls that set a timer do to the history.
LEMMA StartIsDue ==
  ASSUME EtimerInv, NEW t \in Timer, NEW p \in Proc, NEW i, NEW at,
         Start(t, p, [start |-> timer'[t].start, interval |-> i], at)
  PROVE  /\ Abstract!Due(t, p, at)
         /\ Intervals(timer') = [Intervals(timer) EXCEPT ![t] = i]
<1>1. PICK x : x = [start |-> timer'[t].start, interval |-> i]
  OBVIOUS
<1>2. x.interval = i
  BY <1>1
<1>3. /\ now' = now /\ queue' = queue /\ timer' = [timer EXCEPT ![t] = x]
      /\ setter' = [setter EXCEPT ![t] = p] /\ deadline' = [deadline EXCEPT ![t] = at]
  BY <1>1 DEF Start
<1>4. Mail' = Mail
  BY <1>3 DEF Mail
<1>5. DOMAIN timer = Timer
  BY DEF EtimerInv, TypeOK
<1>6. \A u \in Timer : timer'[u] = IF u = t THEN x ELSE timer[u]
  BY <1>3, <1>5
<1>7. Intervals(timer') = [Intervals(timer) EXCEPT ![t] = i]
  BY <1>2, <1>6 DEF Intervals
<1>. QED  BY <1>3, <1>4, <1>7 DEF Abstract!Due

LEMMA SetsSet ==
  ASSUME EtimerInv, NEW t \in Timer, NEW p \in Proc, Sets(t, p)
  PROVE  Abstract!Set(t, p) \/ Abstract!Restart(t, p) \/ Abstract!Reset(t, p)
<1>1. PICK i : i = timer[t].interval
  OBVIOUS
<1>2. timer \in [Timer -> [start : Clock, interval : Clock]]
  BY DEF EtimerInv, TypeOK
<1>3. /\ DOMAIN Intervals(timer) = Timer /\ Intervals(timer)[t] = i
      /\ [Intervals(timer) EXCEPT ![t] = i] = Intervals(timer)
      /\ DOMAIN timer = Timer
  BY <1>1, <1>2 DEF Intervals
<1>4. \A x, at : Start(t, p, x, at) => timer'[t] = x
  BY <1>3 DEF Start
<1>5. CASE etimer_set(t, p)
  <2>1. PICK j \in Interval : Start(t, p, [start |-> clock_time, interval |-> j], now + j)
    BY <1>5 DEF etimer_set
  <2>2. Start(t, p, [start |-> timer'[t].start, interval |-> j], now + j)
    <3>1. timer'[t].start = clock_time
      BY <1>4, <2>1
    <3>. QED  BY <2>1, <3>1
  <2>3. Abstract!Due(t, p, now + j) /\ Intervals(timer') = [Intervals(timer) EXCEPT ![t] = j]
    BY <2>2, StartIsDue
  <2>4. Abstract!Set(t, p)
    BY <2>3, Zenon DEF Abstract!Set, Intervals
  <2>. QED  BY <2>4
<1>6. CASE etimer_restart(t, p)
  <2>1. PICK x, at : x = [timer[t] EXCEPT !.start = clock_time] /\ at = now + i
    OBVIOUS
  <2>2. Start(t, p, x, at)
    BY <1>1, <1>6, <2>1 DEF etimer_restart
  <2>3. x = [start |-> x.start, interval |-> i] /\ timer'[t] = x
    BY <1>1, <1>2, <1>4, <2>1, <2>2
  <2>4. Start(t, p, [start |-> timer'[t].start, interval |-> i], at)
    BY <2>2, <2>3
  <2>5. Abstract!Due(t, p, at) /\ Intervals(timer') = Intervals(timer)
    BY <1>3, <2>4, StartIsDue
  <2>6. Abstract!Restart(t, p)
    BY <1>3, <2>1, <2>5 DEF Abstract!Restart, Intervals
  <2>. QED  BY <2>6
<1>7. CASE etimer_reset(t, p)
  <2>1. PICK x, at : /\ x = [timer[t] EXCEPT !.start = Wrap(@ + timer[t].interval)]
                     /\ at = deadline[t] + i
    OBVIOUS
  <2>2. Start(t, p, x, at) /\ owner[t] = None /\ deadline[t] <= now
    BY <1>1, <1>7, <2>1 DEF etimer_reset
  <2>3. x = [start |-> x.start, interval |-> i] /\ timer'[t] = x
    BY <1>1, <1>2, <1>4, <2>1, <2>2
  <2>4. Start(t, p, [start |-> timer'[t].start, interval |-> i], at)
    BY <2>2, <2>3
  <2>5. Abstract!Due(t, p, at) /\ Intervals(timer') = Intervals(timer)
    BY <1>3, <2>4, StartIsDue
  <2>6. setter[t] = None
    BY <2>2 DEF EtimerInv, SetterInv
  <2>7. Abstract!Reset(t, p)
    BY <1>3, <2>1, <2>2, <2>5, <2>6 DEF Abstract!Reset, Intervals
  <2>. QED  BY <2>7
<1>. QED  BY <1>5, <1>6, <1>7 DEF Sets

\* An adjustment is of a timer whose event has been asked for.
LEMMA AdjustAdjusts ==
  ASSUME EtimerInv, NEW t \in Timer, etimer_adjust(t)
  PROVE  Abstract!Adjust(t)
<1>1. /\ now' = now /\ queue' = queue /\ setter' = setter /\ t \in Range(timerlist)
  BY DEF etimer_adjust, kernel, Listed
<1>2. setter[t] # None
  BY <1>1, ListedTimes, Constants DEF EtimerInv, SetterInv, Listed
<1>3. PICK d \in Adjustment : /\ deadline' = [deadline EXCEPT ![t] = @ + d]
                              /\ timer' = [timer EXCEPT ![t].start = Wrap(@ + d)]
  BY DEF etimer_adjust
<1>4. Intervals(timer') = Intervals(timer)
  <2>1. timer \in [Timer -> [start : Clock, interval : Clock]]
    BY DEF EtimerInv, TypeOK
  <2>2. PICK x : x = [timer[t] EXCEPT !.start = Wrap(@ + d)]
    OBVIOUS
  <2>3. timer' = [timer EXCEPT ![t] = x] /\ x.interval = timer[t].interval
    BY <1>3, <2>1, <2>2
  <2>4. \A u \in Timer : timer'[u].interval = timer[u].interval
    BY <2>1, <2>3
  <2>. QED  BY <2>4 DEF Intervals
<1>5. Mail' = Mail
  BY <1>1 DEF Mail
<1>. QED  BY <1>1, <1>2, <1>3, <1>4, <1>5, Zenon DEF Abstract!Adjust, Intervals

\* A search that posts an event posts what was asked for, to who asked for it.
LEMMA SearchExpires ==
  ASSUME EtimerInv, SearchPosts
  PROVE  \E t \in Timer : Abstract!Expire(t)
<1>1. PICK t : t = Reached
  OBVIOUS
<1>2. /\ now' = now /\ deadline' = deadline /\ timer' = timer
      /\ setter' = [setter EXCEPT ![t] = None] /\ queue' = Append(queue, <<owner[t], t>>)
  BY <1>1 DEF SearchPosts, process_post, settings
<1>3. t \in Range(timerlist) /\ t \in Timer /\ owner[t] \in Proc /\ deadline[t] <= now
  BY <1>1, ReachedIsDue DEF SearchPosts
<1>4. setter[t] = owner[t] /\ setter[t] # None
  BY <1>3, Constants DEF EtimerInv, SetterInv, Listed
<1>5. Mail' = Append(Mail, <<setter[t], t>>)
  <2>1. PICK T, e, S : /\ T = (Proc \cup {None}) \X (Timer \cup {None}) /\ e = <<owner[t], t>>
                       /\ S = (Proc \cup {None}) \X Timer
    OBVIOUS
  <2>2. e \in T /\ e \in S
    BY <1>3, <2>1
  <2>3. queue \in Seq(T)
    BY <2>1 DEF EtimerInv, TypeOK
  <2>4. Kept(Append(queue, e), S) = OneKept(Kept(queue, S), e, S)
    BY <2>2, <2>3, KeptAppend
  <2>5. Mail' = Kept(Append(queue, e), S) /\ Mail = Kept(queue, S)
    BY <1>2, <2>1 DEF Mail
  <2>. QED  BY <1>4, <2>1, <2>2, <2>4, <2>5 DEF OneKept
<1>6. Abstract!Expire(t)
  BY <1>2, <1>3, <1>4, <1>5 DEF Abstract!Expire
<1>. QED  BY <1>3, <1>6

LEMMA DeliverTakes ==
  ASSUME EtimerInv, Deliver
  PROVE  Abstract!Take \/ UNCHANGED <<now, setter, deadline, timer, Mail>>
<1>1. /\ now' = now /\ deadline' = deadline /\ setter' = setter /\ timer' = timer
      /\ queue # <<>> /\ queue' = Tail(queue)
  BY DEF Deliver, list, settings
<1>2. PICK T, S, q, h, m : /\ T = (Proc \cup {None}) \X (Timer \cup {None})
                           /\ S = (Proc \cup {None}) \X Timer /\ q = queue /\ h = Head(queue)
                           /\ m = Kept(queue', S)
  OBVIOUS
<1>3. q \in Seq(T) /\ q # <<>> /\ h = Head(q) /\ m = Kept(Tail(q), S) /\ Mail = Kept(q, S) /\ Mail' = m
  BY <1>1, <1>2 DEF EtimerInv, TypeOK, Mail
<1>4. m \in Seq(T)
  <2>1. Tail(q) \in Seq(T)
    BY <1>3
  <2>. QED  BY <1>3, <2>1, KeptType
<1>5. IF h \in S THEN Mail = <<h>> \o m ELSE Mail = m
  BY <1>3, KeptTail
<1>6. h \in T
  BY <1>3
<1>7. CASE h \in S
  <2>1. Mail = <<h>> \o m
    BY <1>5, <1>7
  <2>2. Mail # <<>> /\ Tail(Mail) = m
    BY <1>4, <1>6, <2>1
  <2>. QED  BY <1>1, <1>3, <2>2 DEF Abstract!Take
<1>8. CASE h \notin S
  BY <1>1, <1>3, <1>5, <1>8
<1>. QED  BY <1>7, <1>8

LEMMA OtherPostIsUnseen ==
  ASSUME EtimerInv, OtherPost
  PROVE  UNCHANGED <<now, setter, deadline, timer, Mail>>
<1>1. /\ now' = now /\ deadline' = deadline /\ setter' = setter /\ timer' = timer
      /\ queue' = Append(queue, <<None, None>>)
  BY DEF OtherPost, process_post, list, settings
<1>2. PICK T, S, e : /\ T = (Proc \cup {None}) \X (Timer \cup {None})
                     /\ S = (Proc \cup {None}) \X Timer /\ e = <<None, None>>
  OBVIOUS
<1>3. e \in T /\ e \notin S
  BY <1>2, Constants
<1>4. queue \in Seq(T)
  BY <1>2 DEF EtimerInv, TypeOK
<1>5. Kept(Append(queue, e), S) = OneKept(Kept(queue, S), e, S)
  BY <1>3, <1>4, KeptAppend
<1>6. Mail' = Mail
  BY <1>1, <1>2, <1>3, <1>5 DEF Mail, OneKept
<1>. QED  BY <1>1, <1>6

\* Every step is one of EventTimers, or none that it sees.
LEMMA StepImplements ==
  ASSUME EtimerInv, [Next]_vars
  PROVE  [Abstract!Next]_(Abstract!vars)
<1>. DEFINE Stutters == UNCHANGED <<now, setter, deadline, timer, Mail>>
<1>1. ASSUME Stutters PROVE UNCHANGED Abstract!vars
  BY <1>1 DEF Abstract!vars
<1>2. ASSUME now' = now, setter' = setter, deadline' = deadline, timer' = timer, queue' = queue
      PROVE  Stutters
  BY <1>2 DEF Mail
<1>3. CASE UNCHANGED vars
  BY <1>1, <1>2, <1>3 DEF vars, list, settings, kernel
<1>4. CASE Next
  <2>1. CASE \E t \in Timer, p \in Proc : Sets(t, p)
    BY <2>1, SetsSet DEF Abstract!Next
  <2>2. CASE \E t \in Timer : etimer_adjust(t)
    BY <2>2, AdjustAdjusts DEF Abstract!Next
  <2>3. ASSUME NEW t \in Timer, etimer_stop(t) PROVE Abstract!Next
    <3>1. /\ now' = now /\ setter' = [setter EXCEPT ![t] = None] /\ deadline' = deadline
          /\ timer' = timer /\ queue' = queue
      BY <2>3 DEF etimer_stop, settings, kernel
    <3>2. Abstract!Stop(t)
      BY <3>1 DEF Abstract!Stop, Mail
    <3>. QED  BY <3>2 DEF Abstract!Next
  <2>4. ASSUME NEW p \in Proc, ProcessExit(p) PROVE Abstract!Next
    <3>1. /\ now' = now /\ setter' = [t \in Timer |-> IF setter[t] = p THEN None ELSE setter[t]]
          /\ deadline' = deadline /\ timer' = timer /\ queue' = queue
      BY <2>4 DEF ProcessExit, settings
    <3>2. Abstract!Exit(p)
      BY <3>1 DEF Abstract!Exit, Mail
    <3>. QED  BY <3>2 DEF Abstract!Next
  <2>5. CASE Tick
    <3>1. /\ now' = now + 1 /\ setter' = setter /\ deadline' = deadline /\ timer' = timer
          /\ queue' = queue /\ \A t \in Range(timerlist) : now < deadline[t] + MaxDelay
      BY <2>5 DEF Tick, list
    <3>2. \A t \in Timer : setter[t] # None => now < deadline[t] + MaxDelay
      BY <3>1 DEF EtimerInv, SetterInv, Listed
    <3>3. Mail' = Mail
      BY <3>1 DEF Mail
    <3>. QED  BY <3>1, <3>2, <3>3 DEF Abstract!Tick, Abstract!Next
  <2>6. CASE SearchPosts
    BY <2>6, SearchExpires DEF Abstract!Next
  <2>7. CASE Deliver
    BY <1>1, <2>7, DeliverTakes DEF Abstract!Next
  <2>8. CASE OtherPost
    BY <1>1, <2>8, OtherPostIsUnseen
  <2>9. CASE Poll \/ SearchFails \/ SearchSkips \/ SearchEnds \/ (\E p \in Proc : ProcessStart(p))
    <3>1. now' = now /\ setter' = setter /\ deadline' = deadline /\ timer' = timer /\ queue' = queue
      BY <2>9 DEF Poll, SearchFails, SearchSkips, SearchEnds, ProcessStart, list, settings
    <3>. QED  BY <1>1, <1>2, <3>1
  <2>. QED  BY <1>4, <2>1, <2>2, <2>3, <2>4, <2>5, <2>6, <2>7, <2>8, <2>9, Zenon
            DEF Next, Apps, Search, Sets
<1>. QED  BY <1>3, <1>4

\* etimer.c implements EventTimers: what the calls ask for is what comes. Every
\* timer that is set posts one TIMER event, to the process that set it last, not
\* before its time and not MaxDelay ticks after it; stopped, set again or left by
\* its process it posts none.
THEOREM EtimerImplementsEventTimers == Spec => ImplementsEventTimers
<1>1. Init => Abstract!Init
  <2>1. SUFFICES ASSUME Init PROVE Abstract!Init
    OBVIOUS
  <2>2. /\ now = 0 /\ queue = <<>> /\ setter = [t \in Timer |-> None]
        /\ deadline = [t \in Timer |-> 0]
        /\ \A t \in Timer : timer[t].interval = 0
    BY <2>1 DEF Init
  <2>3. Mail = <<>>
    BY <2>2, EmptyKept DEF Mail
  <2>. QED  BY <2>2, <2>3 DEF Abstract!Init
<1>2. EtimerInv /\ [Next]_vars => [Abstract!Next]_(Abstract!vars)
  BY StepImplements
<1>. QED  BY <1>1, <1>2, EtimerInvHolds, PTL DEF Spec, ImplementsEventTimers, Abstract!Spec
=============================================================================
