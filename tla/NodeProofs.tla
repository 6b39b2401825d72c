----------------------------- MODULE NodeProofs -----------------------------
(* Proofs about Node: what bounds the time of a refresh, of the refresher  *)
(* and of a drain, for every policy, period and limit that its assumptions *)
(* admit.                                                                  *)
EXTENDS Node, WellFoundedInduction, TLAPS

USE NodeAssumption

-----------------------------------------------------------------------------
(* Induction over the naturals, for sets: every set of naturals that is    *)
(* not empty has a least element, ...                                      *)
LEMMA LeastElement ==
  ASSUME NEW T \in SUBSET Nat, T # {}
  PROVE  \E x \in T : \A y \in T : ~(y < x)
<1> DEFINE R == OpToRel(<, Nat)
<1>1. IsWellFoundedOn(R, Nat)
  BY NatLessThanWellFounded
<1>2. \A x, y \in Nat : <<x, y>> \in R <=> x < y
  BY DEF OpToRel
<1> HIDE DEF R
<1>3. PICK x \in T : \A y \in T : ~(<<y, x>> \in R)
  BY <1>1, WFMin
<1> QED
  BY <1>2, <1>3
(* ... so one that holds 0 and every successor holds them all.             *)
LEMMA Induction ==
  ASSUME NEW S, 0 \in S, \A n \in Nat : n \in S => n + 1 \in S
  PROVE  Nat \subseteq S
<1> DEFINE T == {n \in Nat : n \notin S}
<1> SUFFICES ASSUME T # {} PROVE FALSE
  OBVIOUS
<1>1. PICK x \in T : \A y \in T : ~(y < x)
  BY LeastElement
<1>2. x - 1 \in Nat /\ x - 1 \in S
  BY <1>1
<1> QED
  BY <1>1, <1>2

(* What is defined by recursion exists: a first value and a step from each *)
(* value to the next make a function.                                      *)
IsRecursion(f, V, first, step) ==
  /\ f \in [Nat -> V]
  /\ f[0] = first
  /\ \A n \in Nat : f[n + 1] = step[n][f[n]]

LEMMA Recursion ==
  ASSUME NEW V, NEW first \in V, NEW step \in [Nat -> [V -> V]]
  PROVE  \E f : IsRecursion(f, V, first, step)
<1> DEFINE Upto(n, g) == /\ g[0] = first
                         /\ \A i \in Nat : i < n => g[i + 1] = step[i][g[i]]
           Has == {n \in Nat : \E g \in [Nat -> V] : Upto(n, g)}
<1>1. 0 \in Has
  <2>1. [i \in Nat |-> first] \in [Nat -> V] /\ Upto(0, [i \in Nat |-> first])
    OBVIOUS
  <2> QED
    BY <2>1
<1>2. ASSUME NEW n \in Nat, n \in Has PROVE n + 1 \in Has
  <2>1. PICK g \in [Nat -> V] : Upto(n, g)
    BY <1>2
  <2> DEFINE h == [g EXCEPT ![n + 1] = step[n][g[n]]]
  <2>2. step[n][g[n]] \in V
    OBVIOUS
  <2>3. h \in [Nat -> V]
    BY <2>2
  <2>4. h[n + 1] = step[n][g[n]] /\ \A i \in Nat : i # n + 1 => h[i] = g[i]
    OBVIOUS
  <2> HIDE DEF h
  <2>5. Upto(n + 1, h)
    <3>1. h[0] = first
      BY <2>1, <2>4
    <3>2. ASSUME NEW i \in Nat, i < n + 1 PROVE h[i + 1] = step[i][h[i]]
      <4>1. CASE i < n
        BY <2>1, <2>4, <4>1
      <4>2. CASE i = n
        BY <2>4, <4>2
      <4> QED
        BY <3>2, <4>1, <4>2
    <3> QED
      BY <3>1, <3>2
  <2> QED
    BY <2>3, <2>5
<1> HIDE DEF Has
<1>3. Nat \subseteq Has
  BY <1>1, <1>2, Induction
<1>4. \A n \in Nat : \E g \in [Nat -> V] : Upto(n, g)
  BY <1>3 DEF Has
<1> DEFINE G(n) == CHOOSE g \in [Nat -> V] : Upto(n, g)
           f == [n \in Nat |-> G(n)[n]]
<1>5. \A n \in Nat : G(n) \in [Nat -> V] /\ Upto(n, G(n))
  BY <1>4
<1> HIDE DEF G
(* Two that go as far as i agree there.                                    *)
<1>6. ASSUME NEW m \in Nat, NEW n \in Nat
      PROVE  \A i \in Nat : i <= m /\ i <= n => G(m)[i] = G(n)[i]
  <2> DEFINE A == {i \in Nat : i <= m /\ i <= n => G(m)[i] = G(n)[i]}
  <2>1. 0 \in A
    BY <1>5
  <2>2. ASSUME NEW i \in Nat, i \in A PROVE i + 1 \in A
    <3> SUFFICES ASSUME i + 1 <= m, i + 1 <= n PROVE G(m)[i + 1] = G(n)[i + 1]
      OBVIOUS
    <3>1. G(m)[i] = G(n)[i] /\ i < m /\ i < n
      BY <2>2
    <3> QED
      BY <1>5, <3>1
  <2> HIDE DEF A
  <2>3. Nat \subseteq A
    BY <2>1, <2>2, Induction
  <2> QED
    BY <2>3 DEF A
<1>7. f \in [Nat -> V]
  BY <1>5
<1>8. f[0] = first
  BY <1>5
<1>9. ASSUME NEW n \in Nat PROVE f[n + 1] = step[n][f[n]]
  <2>1. G(n + 1)[n + 1] = step[n][G(n + 1)[n]]
    BY <1>5
  <2>2. G(n + 1)[n] = G(n)[n]
    BY <1>6
  <2> QED
    BY <2>1, <2>2
<1> QED
  BY <1>7, <1>8, <1>9 DEF IsRecursion

-----------------------------------------------------------------------------
(* The numbers of a policy.                                                *)

LEMMA RemainderNat == \A x \in Nat, w \in Nat \ {0} : x % w \in Nat
OBVIOUS

(* However large the power, what the code makes of it is a u32.            *)
LEMMA SaturatedNat == ASSUME NEW n, NEW w \in Nat \ {0} PROVE Saturated(n, w) \in Nat
BY DEF Saturated

LEMMA ProductNat == \A x, y \in Nat : x * y \in Nat
OBVIOUS

LEMMA LeastNat == \A x, y \in Nat : Least(x, y) \in Nat
BY DEF Least

(* What Powers and Sleeps define.                                          *)
LEMMA PowersDef ==
  ASSUME NEW m \in Nat
  PROVE  /\ Powers(m) \in [Nat -> Nat]
         /\ Powers(m)[0] = 1
         /\ \A k \in Nat : Powers(m)[k + 1] = m * Powers(m)[k]
<1> DEFINE step == [n \in Nat |-> [v \in Nat |-> m * v]]
           Is(f) == f = [k \in Nat |-> IF k = 0 THEN 1 ELSE m * f[k - 1]]
<1>1. PICK f : f \in [Nat -> Nat] /\ f[0] = 1 /\ \A n \in Nat : f[n + 1] = m * f[n]
  <2>1. step \in [Nat -> [Nat -> Nat]] /\ \A n, v \in Nat : step[n][v] = m * v
    OBVIOUS
  <2> HIDE DEF step
  <2>2. PICK f : IsRecursion(f, Nat, 1, step)
    BY <2>1, Recursion
  <2>3. f \in [Nat -> Nat] /\ f[0] = 1 /\ \A n \in Nat : f[n + 1] = m * f[n]
    BY <2>1, <2>2 DEF IsRecursion
  <2> QED
    BY <2>3
<1>2. Is(f)
  <2>1. ASSUME NEW k \in Nat PROVE f[k] = IF k = 0 THEN 1 ELSE m * f[k - 1]
    <3>1. CASE k = 0
      BY <1>1, <3>1
    <3>2. CASE k # 0
      <4>1. k - 1 \in Nat /\ (k - 1) + 1 = k
        BY <3>2
      <4>2. f[(k - 1) + 1] = m * f[k - 1]
        BY <1>1, <4>1
      <4> QED
        BY <3>2, <4>1, <4>2
    <3> QED
      BY <3>1, <3>2
  <2> QED
    BY <1>1, <2>1
<1> DEFINE p == Powers(m)
<1>3. Is(p)
  <2>1. p = CHOOSE g : Is(g)
    BY DEF Powers
  <2> HIDE DEF Is, p
  <2> QED
    BY <1>2, <2>1
<1> HIDE DEF p
<1>4. p[0] = 1 /\ \A k \in Nat : p[k + 1] = m * p[k]
  BY <1>3
<1>5. \A k \in Nat : p[k] \in Nat
  <2> DEFINE N == {i \in Nat : p[i] \in Nat}
  <2>1. 0 \in N
    BY <1>4
  <2>2. ASSUME NEW i \in Nat, i \in N PROVE i + 1 \in N
    <3>1. p[i] \in Nat /\ p[i + 1] = m * p[i]
      BY <1>4, <2>2
    <3>2. m * p[i] \in Nat
      BY <3>1, ProductNat
    <3> QED
      BY <3>1, <3>2
  <2> HIDE DEF N
  <2>3. Nat \subseteq N
    BY <2>1, <2>2, Induction
  <2> QED
    BY <2>3 DEF N
<1>6. p \in [Nat -> Nat]
  BY <1>3, <1>5
<1> QED
  BY <1>4, <1>6 DEF p

LEMMA BackoffNat ==
  ASSUME NEW p \in Policies, NEW k PROVE BackoffFor(p, k) \in Nat
<1> DEFINE s == Saturated(Powers(p.multiplier)[k], U32)
           y == p.initial * s
<1>1. s \in Nat  BY SaturatedNat
<1>2. p.initial \in Nat /\ p.max \in Nat  BY PolicyAssumption
<1> HIDE DEF s
<1>3. y \in Nat  BY <1>1, <1>2, ProductNat
<1> HIDE DEF y
<1>4. Least(y, p.max) \in Nat  BY <1>2, <1>3, LeastNat
<1>5. Least(y, p.max) % U64 \in Nat  BY <1>4, RemainderNat
<1> QED  BY <1>5 DEF BackoffFor, y, s

LEMMA SleepsDef ==
  ASSUME NEW p \in Policies
  PROVE  /\ Sleeps(p) \in [Nat -> Nat]
         /\ Sleeps(p)[0] = 0
         /\ \A k \in Nat : Sleeps(p)[k + 1] = Sleeps(p)[k] + BackoffFor(p, k)
<1> DEFINE b(k) == BackoffFor(p, k)
           step == [n \in Nat |-> [v \in Nat |-> v + b(n)]]
           Is(f) == f = [k \in Nat |-> IF k = 0 THEN 0 ELSE f[k - 1] + b(k - 1)]
<1>0. \A k : b(k) \in Nat
  BY BackoffNat
<1> HIDE DEF b
<1>1. PICK f : f \in [Nat -> Nat] /\ f[0] = 0 /\ \A n \in Nat : f[n + 1] = f[n] + b(n)
  <2>1. step \in [Nat -> [Nat -> Nat]] /\ \A n, v \in Nat : step[n][v] = v + b(n)
    BY <1>0
  <2> HIDE DEF step
  <2>2. PICK f : IsRecursion(f, Nat, 0, step)
    BY <2>1, Recursion
  <2>3. f \in [Nat -> Nat] /\ f[0] = 0 /\ \A n \in Nat : f[n + 1] = f[n] + b(n)
    BY <2>1, <2>2 DEF IsRecursion
  <2> QED
    BY <2>3
<1>2. Is(f)
  <2>1. ASSUME NEW k \in Nat PROVE f[k] = IF k = 0 THEN 0 ELSE f[k - 1] + b(k - 1)
    <3>1. CASE k = 0
      BY <1>1, <3>1
    <3>2. CASE k # 0
      <4>1. k - 1 \in Nat /\ (k - 1) + 1 = k
        BY <3>2
      <4>2. f[(k - 1) + 1] = f[k - 1] + b(k - 1)
        BY <1>1, <4>1
      <4> QED
        BY <3>2, <4>1, <4>2
    <3> QED
      BY <3>1, <3>2
  <2> QED
    BY <1>1, <2>1
<1> DEFINE s == Sleeps(p)
<1>3. Is(s)
  <2>1. s = CHOOSE g : Is(g)
    BY DEF Sleeps, b
  <2> HIDE DEF Is, s
  <2> QED
    BY <1>2, <2>1
<1> HIDE DEF s
<1>4. s[0] = 0 /\ \A k \in Nat : s[k + 1] = s[k] + b(k)
  BY <1>3
<1>5. \A k \in Nat : s[k] \in Nat
  <2> DEFINE N == {i \in Nat : s[i] \in Nat}
  <2>1. 0 \in N
    BY <1>4
  <2>2. ASSUME NEW i \in Nat, i \in N PROVE i + 1 \in N
    BY <1>0, <1>4, <2>2
  <2> HIDE DEF N
  <2>3. Nat \subseteq N
    BY <2>1, <2>2, Induction
  <2> QED
    BY <2>3 DEF N
<1>6. s \in [Nat -> Nat]
  BY <1>3, <1>5
<1> QED
  BY <1>4, <1>6 DEF s, b

(* What the proofs use of a policy: its attempts, and how the longest time *)
(* of a refresh grows from one attempt to the next.                        *)
PolicyFacts(p) ==
  /\ Attempts(p) \in Nat \ {0}
  /\ \A n \in Nat \ {0} : Longest(p, n) \in Nat /\ BackoffFor(p, n - 1) \in Nat
  /\ \A n \in Nat \ {0} : Longest(p, n + 1) = Longest(p, n) + BackoffFor(p, n - 1) + Timeout
  /\ \A m, n \in Nat \ {0} : n <= m => Longest(p, n) <= Longest(p, m)
  /\ Longest(p, 1) = Timeout
  /\ Longest(p, Attempts(p)) <= Floor

LEMMA PolicyLemma == ASSUME NEW p \in Policies PROVE PolicyFacts(p)
<1> DEFINE b(k) == BackoffFor(p, k)
           l(n) == Longest(p, n)
<1>1. \A k : b(k) \in Nat  BY BackoffNat
<1>2. Attempts(p) \in Nat \ {0}
  BY PolicyAssumption DEF Attempts, Greatest
<1>3. l(1) = Timeout
  BY SleepsDef DEF Longest
<1>4. ASSUME NEW n \in Nat \ {0} PROVE l(n) \in Nat /\ l(n + 1) = l(n) + b(n - 1) + Timeout
  <2> DEFINE s == Sleeps(p)
  <2>1. n \in Nat /\ n - 1 \in Nat /\ (n - 1) + 1 = n /\ (n + 1) - 1 = n
    OBVIOUS
  <2>2. s[n - 1] \in Nat /\ s[(n - 1) + 1] = s[n - 1] + b(n - 1)
    BY <2>1, SleepsDef
  <2>3. l(n) = n * Timeout + s[n - 1] /\ l(n + 1) = (n + 1) * Timeout + s[n]
    BY <2>1 DEF Longest
  <2>4. n * Timeout \in Nat /\ (n + 1) * Timeout = n * Timeout + Timeout
    BY <2>1
  <2> HIDE DEF l, b, s
  <2> QED
    BY <1>1, <2>1, <2>2, <2>3, <2>4
<1> HIDE DEF l, b
<1>5. ASSUME NEW n \in Nat \ {0} PROVE \A m \in Nat \ {0} : n <= m => l(n) <= l(m)
  <2> DEFINE N == {d \in Nat : l(n) <= l(n + d)}
  <2>0. n \in Nat /\ n >= 1
    OBVIOUS
  <2>1. 0 \in N
    <3>1. n + 0 = n /\ l(n) \in Nat
      BY <1>4, <2>0
    <3>2. l(n) <= l(n + 0)
      <4>1. l(n + 0) = l(n)
        BY <3>1
      <4> QED
        BY <3>1, <4>1
    <3> QED
      BY <3>2
  <2>2. ASSUME NEW d \in Nat, d \in N PROVE d + 1 \in N
    <3>1. n + d \in Nat \ {0} /\ n + (d + 1) = (n + d) + 1
      BY <2>0
    <3>2. l(n + d) \in Nat /\ l((n + d) + 1) = l(n + d) + b((n + d) - 1) + Timeout
      BY <1>4, <3>1
    <3>3. l(n) <= l(n + d)
      BY <2>2
    <3>4. l((n + d) + 1) = l(n + (d + 1))
      BY <3>1
    <3>5. l(n) \in Nat /\ b((n + d) - 1) \in Nat
      BY <1>1, <1>4
    <3> QED
      BY <3>2, <3>3, <3>4, <3>5
  <2> HIDE DEF N
  <2>3. Nat \subseteq N
    BY <2>1, <2>2, Induction
  <2>4. ASSUME NEW m \in Nat \ {0}, n <= m PROVE l(n) <= l(m)
    <3>1. m - n \in Nat /\ n + (m - n) = m
      BY <2>0, <2>4
    <3>2. l(n) <= l(n + (m - n))
      BY <2>3, <3>1 DEF N
    <3> QED
      BY <3>1, <3>2
  <2> QED
    BY <2>4
<1>6. l(Attempts(p)) <= Floor  BY PolicyAssumption DEF l
<1> QED  BY <1>1, <1>2, <1>3, <1>4, <1>5, <1>6 DEF PolicyFacts, l, b

-----------------------------------------------------------------------------
(* The inductive invariant.                                                *)

(* What a task has spent, with what is left of its timer, is within the    *)
(* longest time of the attempt it is in.                                   *)
TaskOK(c) ==
  /\ ~Running(c) => spent[c] = 0 /\ attempt[c] = 1
  /\ pc[c] = "idle" => late[c] = 0
  /\ Running(c) => attempt[c] <= Attempts(policy)
  /\ pc[c] = "attempt" => spent[c] + left[c] <= Longest(policy, attempt[c])
  /\ pc[c] = "backoff" =>
       /\ attempt[c] < Attempts(policy)
       /\ spent[c] + left[c] <= Longest(policy, attempt[c]) + BackoffFor(policy, attempt[c] - 1)

(* The next tick is due a period after the refresh in progress began.      *)
RefresherOK ==
  /\ period >= Floor
  /\ pc[Refresher] # "reading"
  /\ due >= 0
  /\ phase = "booting" => due = period
  /\ phase \in Up /\ Running(Refresher) => due + spent[Refresher] = period

(* A request over HTTP has used no more than its time, and all of the      *)
(* drain; one over a WebSocket is in its refresh.                          *)
RequestOK(c) ==
  /\ Busy(c) => phase \in Up
  /\ c \in sockets => Running(c)
  /\ Busy(c) /\ c \notin sockets => late[c] + spent[c] <= Http
  /\ phase = "draining" /\ Busy(c) /\ c \notin sockets => drain <= late[c] + spent[c]

IInv ==
  /\ TypeOK
  /\ \A c \in Tasks : TaskOK(c)
  /\ RefresherOK
  /\ \A c \in Requests : RequestOK(c)
  /\ phase # "draining" => drain = 0
  /\ drain <= Http

LEMMA RefresherIsTask == Refresher \in Tasks
BY DEF Tasks

LEMMA PeriodNat ==
  ASSUME NEW secs \in Periods PROVE PeriodOf(secs) \in Nat /\ PeriodOf(secs) >= Floor
BY DEF PeriodOf, Greatest

LEMMA InitInv == Init => IInv
<1> SUFFICES ASSUME Init PROVE IInv  OBVIOUS
<1> USE DEF Init
<1>1. PolicyFacts(policy)  BY PolicyLemma
<1>2. period \in Nat /\ period >= Floor  BY PeriodNat
<1>3. TypeOK  BY <1>2 DEF TypeOK, Up
<1>4. \A c \in Tasks : TaskOK(c)
  BY <1>1 DEF TaskOK, PolicyFacts, Running
<1>5. RefresherOK  BY <1>2, RefresherIsTask DEF RefresherOK, Up
<1>6. \A c \in Requests : RequestOK(c)
  BY DEF RequestOK, Busy, Running, Tasks
<1> QED  BY <1>3, <1>4, <1>5, <1>6 DEF IInv

-----------------------------------------------------------------------------
(* Steps that concern one task leave the other tasks as they are.          *)

Same(c) ==
  /\ pc'[c] = pc[c] /\ attempt'[c] = attempt[c] /\ left'[c] = left[c]
  /\ spent'[c] = spent[c] /\ late'[c] = late[c]
  /\ c \in sockets' <=> c \in sockets

LEMMA TaskFrame ==
  ASSUME NEW c \in Tasks, Same(c), policy' = policy, TaskOK(c) PROVE TaskOK(c)'
BY DEF Same, TaskOK, Running

LEMMA RequestFrame ==
  ASSUME NEW c \in Requests, Same(c), phase' = phase, drain' = drain, RequestOK(c)
  PROVE  RequestOK(c)'
BY DEF Same, RequestOK, Busy, Running

(* A task that begins, ends or drops its refresh.                          *)
LEMMA BeginTask ==
  ASSUME IInv, NEW c \in Tasks, ~Running(c), Begin(c), UNCHANGED <<phase, policy, period, drain>>,
         \A d \in Tasks \ {c} : d \in sockets' <=> d \in sockets
  PROVE  /\ pc' \in [Tasks -> {"idle", "reading", "attempt", "backoff"}]
         /\ attempt' \in [Tasks -> Nat \ {0}] /\ left' \in [Tasks -> Nat]
         /\ spent' \in [Tasks -> Nat] /\ late' \in [Tasks -> Nat]
         /\ \A d \in Tasks : TaskOK(d)'
         /\ spent'[c] = 0 /\ late'[c] = late[c] /\ pc'[c] = "attempt"
         /\ \A d \in Tasks \ {c} : Same(d)
<1>1. PolicyFacts(policy)  BY PolicyLemma DEF IInv, TypeOK
<1>2. spent[c] = 0 /\ attempt[c] = 1  BY DEF IInv, TaskOK
<1>3. \A d \in Tasks \ {c} : Same(d)  BY DEF IInv, TypeOK, Begin, Same
<1>4. TaskOK(c)'  BY <1>1, <1>2 DEF IInv, TypeOK, Begin, TaskOK, Running, PolicyFacts
<1>5. \A d \in Tasks : TaskOK(d)'  BY <1>3, <1>4, TaskFrame DEF IInv
<1>6. /\ pc' \in [Tasks -> {"idle", "reading", "attempt", "backoff"}]
      /\ attempt' \in [Tasks -> Nat \ {0}] /\ left' \in [Tasks -> Nat]
      /\ spent' \in [Tasks -> Nat] /\ late' \in [Tasks -> Nat]
      /\ spent'[c] = 0 /\ late'[c] = late[c] /\ pc'[c] = "attempt"
  BY <1>2 DEF IInv, TypeOK, Begin
<1> QED  BY <1>3, <1>5, <1>6

LEMMA EndTask ==
  ASSUME IInv, NEW c \in Tasks, End(c), UNCHANGED policy
  PROVE  /\ pc' \in [Tasks -> {"idle", "reading", "attempt", "backoff"}]
         /\ attempt' \in [Tasks -> Nat \ {0}] /\ left' \in [Tasks -> Nat]
         /\ spent' \in [Tasks -> Nat] /\ late' \in [Tasks -> Nat]
         /\ \A d \in Tasks : TaskOK(d)'
         /\ pc'[c] = "idle"
         /\ sockets' = sockets \ {c} /\ sockets' \subseteq Requests
         /\ \A d \in Tasks \ {c} : Same(d)
<1>1. \A d \in Tasks \ {c} : Same(d)  BY DEF IInv, TypeOK, End, Same
<1>2. TaskOK(c)'  BY DEF IInv, TypeOK, End, TaskOK, Running
<1>3. \A d \in Tasks : TaskOK(d)'  BY <1>1, <1>2, TaskFrame DEF IInv
<1> QED  BY <1>1, <1>3 DEF IInv, TypeOK, End

(* A step of retry() within a refresh.                                     *)
LEMMA RetryStep ==
  ASSUME IInv, NEW c \in Tasks, Running(c), Running(c)', TaskOK(c)',
         \A d \in Tasks \ {c} : Same(d),
         UNCHANGED <<phase, policy, period, due, spent, late, sockets, drain>>,
         pc' \in [Tasks -> {"idle", "reading", "attempt", "backoff"}],
         attempt' \in [Tasks -> Nat \ {0}], left' \in [Tasks -> Nat]
  PROVE  IInv'
<1>1. TypeOK'  BY DEF IInv, TypeOK
<1>2. \A d \in Tasks : TaskOK(d)'  BY TaskFrame DEF IInv
<1>3. Refresher # c => Same(Refresher)  BY RefresherIsTask
<1>4. RefresherOK'
  <2>1. pc'[Refresher] # "reading" /\ (Running(Refresher)' <=> Running(Refresher))
    BY <1>3 DEF Same, Running, IInv, RefresherOK
  <2> QED  BY <2>1 DEF IInv, RefresherOK
<1>5. \A d \in Requests : RequestOK(d)'
  <2> TAKE d \in Requests
  <2>1. (Busy(d)' <=> Busy(d)) /\ (Running(d)' <=> Running(d))
    BY DEF Tasks, Same, Busy, Running
  <2> QED  BY <2>1 DEF IInv, RequestOK
<1> QED  BY <1>1, <1>2, <1>4, <1>5 DEF IInv

-----------------------------------------------------------------------------
(* Every action.                                                           *)

LEMMA ReturnInv ==
  ASSUME IInv, NEW c \in Tasks, Running(c), Return(c) PROVE IInv'
<1>1. End(c) /\ Listen(c) /\ UNCHANGED <<policy, period, drain>>  BY DEF Return
<1>2. /\ \A d \in Tasks : TaskOK(d)'
      /\ pc'[c] = "idle" /\ c \notin sockets'
      /\ \A d \in Tasks \ {c} : Same(d)
  BY <1>1, EndTask
<1>3. phase' \in Up \union {"booting", "stopped"} /\ due' \in Int
  BY <1>1 DEF Listen, Up, IInv, TypeOK
<1>4. TypeOK'
  BY <1>1, <1>3, EndTask DEF IInv, TypeOK
<1>5. CASE phase = "booting" /\ c = Refresher
  <2>1. phase' \in {"serving", "stopped"} /\ due' = period  BY <1>1, <1>5 DEF Listen
  <2>2. RefresherOK'
    BY <1>1, <1>2, <1>5, <2>1 DEF IInv, TypeOK, RefresherOK, Running, Up
  <2>3. \A d \in Requests : RequestOK(d)'
    <3> TAKE d \in Requests
    <3>1. ~Busy(d) /\ d \notin sockets /\ Same(d)
      BY <1>2, <1>5 DEF IInv, RequestOK, Up, Tasks, Busy
    <3> QED  BY <3>1 DEF RequestOK, Same, Busy, Running
  <2> QED  BY <1>1, <1>2, <1>4, <1>5, <2>1, <2>2, <2>3 DEF IInv
<1>6. CASE ~(phase = "booting" /\ c = Refresher)
  <2>1. UNCHANGED <<phase, due>>  BY <1>1, <1>6 DEF Listen
  <2>2. RefresherOK'
    <3>1. CASE c = Refresher
      BY <1>1, <1>2, <2>1, <3>1 DEF IInv, RefresherOK, Running
    <3>2. CASE c # Refresher
      <4>1. Same(Refresher)  BY <3>2, <1>2, RefresherIsTask
      <4> QED  BY <1>1, <2>1, <4>1 DEF IInv, RefresherOK, Running, Same
    <3> QED  BY <3>1, <3>2
  <2>3. \A d \in Requests : RequestOK(d)'
    <3> TAKE d \in Requests
    <3>1. CASE d = c  BY <3>1, <1>2 DEF RequestOK, Busy, Running
    <3>2. CASE d # c
      <4>1. Same(d)  BY <3>2, <1>2 DEF Tasks
      <4> QED  BY <1>1, <2>1, <4>1, RequestFrame DEF IInv
    <3> QED  BY <3>1, <3>2
  <2> QED  BY <1>1, <1>2, <1>4, <2>1, <2>2, <2>3 DEF IInv
<1> QED  BY <1>5, <1>6

LEMMA BackoffInv == ASSUME IInv, NEW c \in Tasks, Backoff(c) PROVE IInv'
<1> USE DEF Backoff
<1>1. PolicyFacts(policy)  BY PolicyLemma DEF IInv, TypeOK
<1>2. attempt[c] \in Nat \ {0}  BY DEF IInv, TypeOK
<1>3. BackoffFor(policy, attempt[c] - 1) \in Nat  BY BackoffNat DEF IInv, TypeOK
<1>4. /\ pc' \in [Tasks -> {"idle", "reading", "attempt", "backoff"}]
      /\ attempt' \in [Tasks -> Nat \ {0}] /\ left' \in [Tasks -> Nat]
      /\ pc'[c] = "backoff" /\ left'[c] = BackoffFor(policy, attempt[c] - 1)
  BY <1>3 DEF IInv, TypeOK
<1>5. \A d \in Tasks \ {c} : Same(d)  BY DEF IInv, TypeOK, Same
<1>6. spent[c] <= Longest(policy, attempt[c])
  <2>1. spent[c] + left[c] <= Longest(policy, attempt[c])  BY DEF IInv, TaskOK
  <2>2. spent[c] \in Nat /\ left[c] \in Nat  BY DEF IInv, TypeOK
  <2>3. Longest(policy, attempt[c]) \in Nat  BY <1>1, <1>2 DEF PolicyFacts
  <2> QED  BY <2>1, <2>2, <2>3
<1>7. TaskOK(c)'
  <2>1. spent[c] + left'[c] <= Longest(policy, attempt[c]) + BackoffFor(policy, attempt[c] - 1)
    <3>1. spent[c] \in Nat  BY DEF IInv, TypeOK
    <3>2. Longest(policy, attempt[c]) \in Nat  BY <1>1, <1>2 DEF PolicyFacts
    <3> QED  BY <3>1, <3>2, <1>3, <1>4, <1>6
  <2>2. Attempts(policy) \in Nat \ {0}  BY <1>1 DEF PolicyFacts
  <2> QED  BY <1>2, <1>4, <2>1, <2>2 DEF TaskOK, Running
<1>8. Running(c) /\ Running(c)'  BY <1>4 DEF Running
<1> QED  BY <1>4, <1>5, <1>7, <1>8, RetryStep

LEMMA WakeInv == ASSUME IInv, NEW c \in Tasks, Wake(c) PROVE IInv'
<1> USE DEF Wake
<1>1. PolicyFacts(policy)  BY PolicyLemma DEF IInv, TypeOK
<1>2. attempt[c] \in Nat \ {0} /\ attempt[c] < Attempts(policy)
  BY DEF IInv, TypeOK, TaskOK
<1>3. attempt[c] \in Nat \ {0} /\ attempt[c] + 1 \in Nat \ {0} /\ attempt[c] + 1 <= Attempts(policy)
  <2>1. Attempts(policy) \in Nat \ {0}  BY <1>1 DEF PolicyFacts
  <2> HIDE DEF Wake
  <2> QED  BY <1>2, <2>1
<1>4. /\ pc' \in [Tasks -> {"idle", "reading", "attempt", "backoff"}]
      /\ attempt' \in [Tasks -> Nat \ {0}] /\ left' \in [Tasks -> Nat]
      /\ pc'[c] = "attempt" /\ left'[c] = Timeout /\ attempt'[c] = attempt[c] + 1
  BY <1>3 DEF IInv, TypeOK
<1>5. \A d \in Tasks \ {c} : Same(d)  BY DEF IInv, TypeOK, Same
<1>6. TaskOK(c)'
  <2>1. spent[c] <= Longest(policy, attempt[c]) + BackoffFor(policy, attempt[c] - 1)
    <3>1. spent[c] + left[c] <= Longest(policy, attempt[c]) + BackoffFor(policy, attempt[c] - 1)
      BY DEF IInv, TaskOK
    <3> QED  BY <3>1 DEF IInv, TypeOK
  <2>2. Longest(policy, attempt[c] + 1)
          = Longest(policy, attempt[c]) + BackoffFor(policy, attempt[c] - 1) + Timeout
    BY <1>1, <1>3 DEF PolicyFacts
  <2>3. Longest(policy, attempt[c]) \in Nat /\ BackoffFor(policy, attempt[c] - 1) \in Nat
    BY <1>1, <1>2 DEF PolicyFacts
  <2>4. spent[c] + Timeout <= Longest(policy, attempt[c] + 1)
    <3>1. spent[c] \in Nat  BY DEF IInv, TypeOK
    <3> QED  BY <2>1, <2>2, <2>3, <3>1
  <2> QED  BY <1>3, <1>4, <2>4 DEF TaskOK, Running
<1>7. Running(c) /\ Running(c)'  BY <1>4 DEF Running
<1> QED  BY <1>4, <1>5, <1>6, <1>7, RetryStep

(* A request comes or goes.                                                *)
LEMMA RequestInv == ASSUME IInv, NEW c \in Requests, Request(c) PROVE IInv'
<1> USE DEF Request
<1>1. c \in Tasks /\ c # Refresher  BY DEF Tasks
<1>2. \A d \in Tasks \ {c} : Same(d)  BY DEF IInv, TypeOK, Same
<1>3. TypeOK'  BY <1>1 DEF IInv, TypeOK
<1>4. pc[c] = "idle" /\ pc'[c] = "reading"
  BY <1>1 DEF IInv, TypeOK, Busy, Running
<1>5. TaskOK(c)'  BY <1>1, <1>4 DEF IInv, TaskOK, Running
<1>6. \A d \in Tasks : TaskOK(d)'  BY <1>2, <1>5, TaskFrame DEF IInv
<1>7. Same(Refresher)  BY <1>1, <1>2, RefresherIsTask
<1>8. RefresherOK'  BY <1>7 DEF IInv, RefresherOK, Same, Running
<1>9. RequestOK(c)'
  <2>1. spent[c] = 0 /\ late[c] = 0  BY <1>1, <1>4 DEF IInv, TaskOK, Running
  <2>2. c \notin sockets  BY <1>4 DEF IInv, RequestOK, Running
  <2> QED  BY <2>1, <2>2 DEF RequestOK, Accepting, Up
<1>10. \A d \in Requests : RequestOK(d)'
  <2> TAKE d \in Requests
  <2>1. d # c => Same(d)  BY <1>2 DEF Tasks
  <2> QED  BY <2>1, <1>9, RequestFrame DEF IInv
<1> QED  BY <1>3, <1>6, <1>8, <1>10 DEF IInv

LEMMA ResolveInv == ASSUME IInv, NEW c \in Requests, Resolve(c) PROVE IInv'
<1> USE DEF Resolve
<1>1. c \in Tasks /\ c # Refresher  BY DEF Tasks
<1>2. ~Running(c) /\ Begin(c)  BY DEF Running
<1>3. /\ \A d \in Tasks : TaskOK(d)'
      /\ spent'[c] = 0 /\ late'[c] = late[c] /\ pc'[c] = "attempt"
      /\ \A d \in Tasks \ {c} : Same(d)
  BY <1>1, <1>2, BeginTask
<1>4. TypeOK'  BY <1>1, <1>2, BeginTask DEF IInv, TypeOK
<1>5. Same(Refresher)  BY <1>1, <1>3, RefresherIsTask
<1>6. RefresherOK'  BY <1>5 DEF IInv, RefresherOK, Same, Running
<1>7. RequestOK(c)'
  <2>1. spent[c] = 0  BY <1>1, <1>2 DEF IInv, TaskOK
  <2>2. Busy(c) /\ c \notin sockets  BY <1>2 DEF Busy, IInv, RequestOK
  <2> QED  BY <1>3, <2>1, <2>2 DEF IInv, RequestOK
<1>8. \A d \in Requests : RequestOK(d)'
  <2> TAKE d \in Requests
  <2>1. d # c => Same(d)  BY <1>3 DEF Tasks
  <2> QED  BY <2>1, <1>7, RequestFrame DEF IInv
<1> QED  BY <1>3, <1>4, <1>6, <1>8 DEF IInv

LEMMA DroppedInv ==
  ASSUME IInv, NEW c \in Requests, End(c), UNCHANGED <<phase, policy, period, due, drain>>
  PROVE  IInv'
<1>1. c \in Tasks /\ c # Refresher  BY DEF Tasks
<1>2. /\ \A d \in Tasks : TaskOK(d)'
      /\ pc'[c] = "idle" /\ c \notin sockets'
      /\ \A d \in Tasks \ {c} : Same(d)
  BY <1>1, EndTask
<1>3. TypeOK'  BY <1>1, EndTask DEF IInv, TypeOK
<1>4. Same(Refresher)  BY <1>1, <1>2, RefresherIsTask
<1>5. RefresherOK'  BY <1>4 DEF IInv, RefresherOK, Same, Running
<1>6. \A d \in Requests : RequestOK(d)'
  <2> TAKE d \in Requests
  <2>1. CASE d = c  BY <2>1, <1>2 DEF RequestOK, Busy, Running
  <2>2. CASE d # c
    <3>1. Same(d)  BY <2>2, <1>2 DEF Tasks
    <3> QED  BY <3>1, RequestFrame DEF IInv
  <2> QED  BY <2>1, <2>2
<1> QED  BY <1>2, <1>3, <1>5, <1>6 DEF IInv

LEMMA MessageInv == ASSUME IInv, NEW c \in Requests, Message(c) PROVE IInv'
<1> USE DEF Message
<1>1. c \in Tasks /\ c # Refresher  BY DEF Tasks
<1>2. ~Running(c) /\ Begin(c)  BY DEF Busy
<1>3. /\ \A d \in Tasks : TaskOK(d)'
      /\ pc'[c] = "attempt"
      /\ \A d \in Tasks \ {c} : Same(d)
  BY <1>1, <1>2, BeginTask
<1>4. TypeOK'  BY <1>1, <1>2, BeginTask DEF IInv, TypeOK
<1>5. Same(Refresher)  BY <1>1, <1>3, RefresherIsTask
<1>6. RefresherOK'  BY <1>5 DEF IInv, RefresherOK, Same, Running
<1>7. RequestOK(c)'  BY <1>3 DEF RequestOK, Running
<1>8. \A d \in Requests : RequestOK(d)'
  <2> TAKE d \in Requests
  <2>1. d # c => Same(d)  BY <1>3 DEF Tasks
  <2> QED  BY <2>1, <1>7, RequestFrame DEF IInv
<1> QED  BY <1>3, <1>4, <1>6, <1>8 DEF IInv

(* The ticker: due is 0, never less, when a tick comes.                    *)
LEMMA PeriodicInv == ASSUME IInv, Periodic PROVE IInv'
<1> USE DEF Periodic
<1>1. due = 0 /\ due' = period  BY DEF IInv, TypeOK, RefresherOK
<1>2. ~Running(Refresher) /\ Begin(Refresher)  BY DEF Busy
<1>3. UNCHANGED <<phase, policy, period, drain>>  OBVIOUS
<1>4. /\ \A d \in Tasks : TaskOK(d)'
      /\ spent'[Refresher] = 0 /\ pc'[Refresher] = "attempt"
      /\ \A d \in Tasks \ {Refresher} : Same(d)
  BY <1>2, <1>3, BeginTask, RefresherIsTask
<1>5. TypeOK'
  <2>1. due' \in Int  BY <1>1 DEF IInv, TypeOK
  <2> QED  BY <1>2, <1>3, <2>1, BeginTask, RefresherIsTask DEF IInv, TypeOK
<1>6. RefresherOK'  BY <1>1, <1>4 DEF IInv, TypeOK, RefresherOK, Up
<1>7. \A d \in Requests : RequestOK(d)'
  <2> TAKE d \in Requests
  <2>1. Same(d)  BY <1>4 DEF Tasks
  <2> QED  BY <2>1, RequestFrame DEF IInv
<1> QED  BY <1>4, <1>5, <1>6, <1>7 DEF IInv

LEMMA PeriodicRefusedInv == ASSUME IInv, PeriodicRefused PROVE IInv'
<1> USE DEF PeriodicRefused, localVars
<1>1. due' = period /\ ~Running(Refresher)
  BY DEF IInv, TypeOK, RefresherOK, Busy
<1>2. TypeOK'  BY <1>1 DEF IInv, TypeOK
<1>3. \A d \in Tasks : TaskOK(d)'  BY DEF IInv, TaskOK, Running
<1>4. RefresherOK'  BY <1>1 DEF IInv, TypeOK, RefresherOK, Running, Up
<1>5. \A d \in Requests : RequestOK(d)'  BY DEF IInv, RequestOK, Busy, Running
<1> QED  BY <1>2, <1>3, <1>4, <1>5 DEF IInv

LEMMA SignalInv == ASSUME IInv, Signal PROVE IInv'
<1> USE DEF Signal, localVars
<1>1. drain = 0 /\ drain' = 0  BY DEF IInv
<1>2. TypeOK'  BY DEF IInv, TypeOK, Up
<1>3. \A d \in Tasks : TaskOK(d)'  BY DEF IInv, TaskOK, Running
<1>4. RefresherOK'  BY DEF IInv, TypeOK, RefresherOK, Running, Up
<1>5. \A d \in Requests : RequestOK(d)'
  <2> TAKE d \in Requests
  <2>1. late[d] + spent[d] \in Nat  BY DEF IInv, TypeOK, Tasks
  <2> QED  BY <1>1, <2>1 DEF IInv, RequestOK, Busy, Running, Up
<1> QED  BY <1>1, <1>2, <1>3, <1>4, <1>5 DEF IInv

LEMMA DeadInv == ASSUME IInv, Dead PROVE IInv'
<1> USE DEF Dead
<1>1. TypeOK'  BY DEF IInv, TypeOK, Up
<1>2. \A d \in Tasks : TaskOK(d)'  BY DEF TaskOK, Running
<1>3. RefresherOK'  BY RefresherIsTask DEF IInv, RefresherOK, Running, Up
<1>4. \A d \in Requests : RequestOK(d)'  BY DEF RequestOK, Busy, Running, Tasks
<1> QED  BY <1>1, <1>2, <1>3, <1>4 DEF IInv

LEMMA RestartInv == ASSUME IInv, Restart PROVE IInv'
<1> USE DEF Restart, Boot
<1>1. PolicyFacts(policy)  BY PolicyLemma DEF IInv, TypeOK
<1>2. TypeOK'  BY DEF IInv, TypeOK, Up
<1>3. \A d \in Tasks : TaskOK(d)'  BY <1>1 DEF TaskOK, Running, PolicyFacts
<1>4. RefresherOK'  BY RefresherIsTask DEF IInv, TypeOK, RefresherOK, Running, Up
<1>5. \A d \in Requests : RequestOK(d)'  BY DEF RequestOK, Busy, Running, Tasks
<1> QED  BY <1>2, <1>3, <1>4, <1>5 DEF IInv

(* Time passes: what is spent grows by what is left less.                  *)
LEMMA TickTyped == ASSUME IInv, Tick PROVE TypeOK'
<1> USE DEF Tick
<1>1. \A c \in Tasks : Running(c) => left[c] - 1 \in Nat
  BY DEF IInv, TypeOK, TimerDue
<1>2. left' \in [Tasks -> Nat]  BY <1>1
<1>3. spent' \in [Tasks -> Nat] /\ late' \in [Tasks -> Nat]  BY DEF IInv, TypeOK
<1>4. due' \in Int /\ drain' \in Nat  BY DEF IInv, TypeOK
<1> QED  BY <1>2, <1>3, <1>4 DEF IInv, TypeOK

LEMMA TickTask == ASSUME IInv, Tick, NEW c \in Tasks PROVE TaskOK(c)'
<1> USE DEF Tick
<1>1. Running(c)' <=> Running(c)  BY DEF Running
<1>2. CASE Running(c)
  <2>1. spent'[c] = spent[c] + 1 /\ left'[c] = left[c] - 1 /\ attempt'[c] = attempt[c]
        /\ pc'[c] = pc[c]
    BY <1>2
  <2>2. spent[c] \in Nat /\ left[c] \in Nat  BY DEF IInv, TypeOK
  <2>3. spent'[c] + left'[c] = spent[c] + left[c]  BY <2>1, <2>2
  <2> QED  BY <1>1, <1>2, <2>1, <2>3 DEF IInv, TaskOK, Running
<1>3. CASE ~Running(c)
  BY <1>1, <1>3 DEF IInv, TaskOK, Running
<1> QED  BY <1>2, <1>3

LEMMA TickRefresher == ASSUME IInv, Tick PROVE RefresherOK'
<1> USE DEF Tick
<1>1. TaskOK(Refresher)' /\ TypeOK'  BY TickTask, TickTyped, RefresherIsTask
<1>2. pc'[Refresher] = pc[Refresher] /\ (Running(Refresher)' <=> Running(Refresher))
  BY DEF Running
<1>3. CASE phase \in Up /\ Running(Refresher)
  <2>1. due' = due - 1 /\ spent'[Refresher] = spent[Refresher] + 1
    BY <1>3, RefresherIsTask
  <2>2. due + spent[Refresher] = period  BY <1>3 DEF IInv, RefresherOK
  <2>3. spent'[Refresher] <= Floor
    <3>1. PolicyFacts(policy)  BY PolicyLemma DEF IInv, TypeOK
    <3> DEFINE n == attempt[Refresher]
               l == Longest(policy, n)
    <3>2. n \in Nat \ {0} /\ n <= Attempts(policy)
      BY <1>3, RefresherIsTask DEF IInv, TypeOK, TaskOK
    <3>3. l \in Nat /\ l <= Longest(policy, Attempts(policy))
      BY <3>1, <3>2 DEF PolicyFacts
    <3>4. Longest(policy, Attempts(policy)) \in Nat /\ Longest(policy, Attempts(policy)) <= Floor
      BY <3>1 DEF PolicyFacts
    <3>5. left[Refresher] \in Nat \ {0} /\ spent[Refresher] \in Nat
      BY <1>3, RefresherIsTask DEF IInv, TypeOK, TimerDue
    <3>6. CASE pc[Refresher] = "attempt"
      <4>1. spent[Refresher] + left[Refresher] <= l
        BY <3>6, RefresherIsTask DEF IInv, TaskOK
      <4> QED  BY <4>1, <2>1, <3>3, <3>4, <3>5
    <3>7. CASE pc[Refresher] = "backoff"
      <4>1. n \in Nat \ {0} /\ n + 1 \in Nat \ {0} /\ n + 1 <= Attempts(policy)
        <5>1. n < Attempts(policy)  BY <3>7, RefresherIsTask DEF IInv, TaskOK
        <5>2. Attempts(policy) \in Nat \ {0}  BY <3>1 DEF PolicyFacts
        <5> HIDE DEF n, Tick
        <5> QED  BY <3>2, <5>1, <5>2
      <4>2. spent[Refresher] + left[Refresher] <= l + BackoffFor(policy, n - 1)
        BY <3>7, RefresherIsTask DEF IInv, TaskOK
      <4>3. Longest(policy, n + 1) = l + BackoffFor(policy, n - 1) + Timeout
        BY <4>1, <3>1 DEF PolicyFacts
      <4>4. Longest(policy, n + 1) \in Nat /\ BackoffFor(policy, n - 1) \in Nat
            /\ Longest(policy, n + 1) <= Longest(policy, Attempts(policy))
        BY <4>1, <3>1, <3>2 DEF PolicyFacts
      <4> QED  BY <4>2, <4>3, <4>4, <2>1, <3>3, <3>4, <3>5
    <3> QED  BY <3>6, <3>7, <1>3 DEF Running
  <2>4. spent[Refresher] \in Nat /\ period \in Nat /\ due \in Int /\ period >= Floor
    BY RefresherIsTask DEF IInv, TypeOK, RefresherOK
  <2>5. due' >= 0 /\ due' + spent'[Refresher] = period  BY <2>1, <2>2, <2>3, <2>4
  <2> QED  BY <1>2, <1>3, <2>5 DEF IInv, RefresherOK, Up
<1>4. CASE phase \in Up /\ ~Running(Refresher)
  <2>1. due > 0  BY <1>4 DEF IInv, RefresherOK, Busy
  <2>2. due' >= 0  BY <1>4, <2>1 DEF IInv, TypeOK
  <2> QED  BY <1>2, <1>4, <2>2 DEF IInv, RefresherOK, Up
<1>5. CASE phase \notin Up
  BY <1>2, <1>5 DEF IInv, RefresherOK
<1> QED  BY <1>3, <1>4, <1>5

LEMMA TickRequest == ASSUME IInv, Tick, NEW c \in Requests PROVE RequestOK(c)'
<1> USE DEF Tick
<1>1. c \in Tasks /\ c # Refresher  BY DEF Tasks
<1>2. Busy(c)' <=> Busy(c)  BY DEF Busy, Running
<1>3. CASE Busy(c) /\ c \notin sockets
  <2>1. ~Expired(c)  BY <1>1, <1>3 DEF TimerDue
  <2>2. late[c] \in Nat /\ spent[c] \in Nat /\ drain \in Nat  BY <1>1 DEF IInv, TypeOK
  <2>3. late'[c] + spent'[c] = late[c] + spent[c] + 1
    <3>1. CASE pc[c] = "reading"
      <4>1. ~Running(c)  BY <3>1 DEF Running
      <4>2. spent[c] = 0  BY <4>1, <1>1 DEF IInv, TaskOK
      <4> QED  BY <3>1, <4>1, <4>2, <1>1, <2>2
    <3>2. CASE pc[c] # "reading"
      <4>1. Running(c)  BY <1>3, <3>2 DEF Busy
      <4> QED  BY <3>2, <4>1, <1>1, <2>2
    <3> QED  BY <3>1, <3>2
  <2>4. late'[c] + spent'[c] <= Http  BY <1>3, <2>1, <2>2, <2>3 DEF Expired
  <2>5. phase = "draining" => drain' <= late'[c] + spent'[c]
    BY <1>3, <2>2, <2>3 DEF IInv, RequestOK
  <2> QED  BY <1>2, <1>3, <2>4, <2>5 DEF IInv, RequestOK
<1>4. CASE ~Busy(c) \/ c \in sockets
  BY <1>2, <1>4 DEF IInv, RequestOK, Running
<1> QED  BY <1>3, <1>4

LEMMA TickInv == ASSUME IInv, Tick PROVE IInv'
<1>1. TypeOK' /\ RefresherOK' /\ (\A c \in Tasks : TaskOK(c)') /\ \A c \in Requests : RequestOK(c)'
  BY TickTyped, TickRefresher, TickTask, TickRequest
<1>2. phase' = phase /\ drain' = (IF phase = "draining" THEN drain + 1 ELSE 0)  BY DEF Tick
<1>3. drain' <= Http
  <2>1. CASE phase = "draining"
    <3>1. PICK c \in Requests \ sockets : Busy(c)  BY <2>1 DEF Tick, Drained
    <3>2. drain' <= late'[c] + spent'[c] /\ late'[c] + spent'[c] <= Http
      <4>1. Busy(c)' /\ c \notin sockets'  BY <3>1 DEF Tick, Busy, Running
      <4> QED  BY <4>1, <1>1, <1>2, <2>1 DEF RequestOK
    <3>3. drain' \in Nat /\ late'[c] + spent'[c] \in Nat
      BY <1>1 DEF TypeOK, Tasks
    <3> QED  BY <3>2, <3>3
  <2>2. CASE phase # "draining"  BY <1>2, <2>2
  <2> QED  BY <2>1, <2>2
<1> QED  BY <1>1, <1>2, <1>3 DEF IInv

-----------------------------------------------------------------------------
LEMMA NextInv == IInv /\ [Next]_vars => IInv'
<1> SUFFICES ASSUME IInv, [Next]_vars PROVE IInv'  OBVIOUS
<1>1. ASSUME NEW c \in Tasks, Refreshing(c) PROVE IInv'
  <2>1. CASE AttemptOk(c)  BY <2>1, ReturnInv DEF AttemptOk, Running
  <2>2. CASE GiveUp(c)  BY <2>2, ReturnInv DEF GiveUp, Running
  <2>3. CASE Backoff(c)  BY <2>3, BackoffInv
  <2>4. CASE Wake(c)  BY <2>4, WakeInv
  <2> QED  BY <1>1, <2>1, <2>2, <2>3, <2>4 DEF Refreshing
<1>2. ASSUME NEW c \in Requests, Request(c) \/ Resolve(c) \/ Message(c) PROVE IInv'
  BY <1>2, RequestInv, ResolveInv, MessageInv
<1>3. ASSUME NEW c \in Requests, ClientLeaves(c) \/ HttpTimeout(c) PROVE IInv'
  BY <1>3, DroppedInv DEF ClientLeaves, HttpTimeout
<1>4. CASE Periodic \/ PeriodicRefused  BY <1>4, PeriodicInv, PeriodicRefusedInv
<1>5. CASE Signal \/ Kill \/ Exit \/ Restart
  BY <1>5, SignalInv, DeadInv, RestartInv DEF Kill, Exit
<1>6. CASE Tick  BY <1>6, TickInv
<1>7. CASE UNCHANGED vars
  <2> USE <1>7 DEF vars, localVars
  <2>1. TypeOK'  BY DEF IInv, TypeOK
  <2>2. \A c \in Tasks : TaskOK(c)'  BY DEF IInv, TaskOK, Running
  <2>3. RefresherOK'  BY DEF IInv, RefresherOK, Running
  <2>4. \A c \in Requests : RequestOK(c)'  BY DEF IInv, RequestOK, Busy, Running
  <2> QED  BY <2>1, <2>2, <2>3, <2>4 DEF IInv
<1> QED  BY <1>1, <1>2, <1>3, <1>4, <1>5, <1>6, <1>7 DEF Next

LEMMA Invariant == Spec => []IInv
<1>1. Init => IInv  BY InitInv
<1>2. IInv /\ [Next]_vars => IInv'  BY NextInv
<1> QED  BY <1>1, <1>2, PTL DEF Spec

(* The variables of a node keep their types.                               *)
THEOREM TypeCorrect == Spec => []TypeOK
<1>1. IInv => TypeOK  BY DEF IInv
<1> QED  BY <1>1, Invariant, PTL

(* A refresh never takes longer than the slowest one.                      *)
LEMMA SpentBound ==
  ASSUME IInv, NEW c \in Tasks
  PROVE  /\ Longest(policy, Attempts(policy)) \in Nat
         /\ spent[c] \in Nat /\ late[c] \in Nat
         /\ spent[c] <= Longest(policy, Attempts(policy))
<1> DEFINE n == attempt[c]
           l == Longest(policy, n)
           longest == Longest(policy, Attempts(policy))
<1>1. PolicyFacts(policy)  BY PolicyLemma DEF IInv, TypeOK
<1>2. n \in Nat \ {0} /\ spent[c] \in Nat /\ left[c] \in Nat /\ late[c] \in Nat
  BY DEF IInv, TypeOK
<1>3. longest \in Nat /\ l \in Nat  BY <1>1, <1>2 DEF PolicyFacts
<1>4. CASE pc[c] = "attempt"
  <2>1. n <= Attempts(policy) /\ spent[c] + left[c] <= l
    BY <1>4 DEF IInv, TaskOK, Running
  <2>2. l <= longest  BY <2>1, <1>1, <1>2 DEF PolicyFacts
  <2> QED  BY <2>1, <2>2, <1>2, <1>3
<1>5. CASE pc[c] = "backoff"
  <2>1. n \in Nat \ {0} /\ n + 1 \in Nat \ {0} /\ n + 1 <= Attempts(policy)
    <3>1. n < Attempts(policy)  BY <1>5 DEF IInv, TaskOK
    <3>2. Attempts(policy) \in Nat \ {0}  BY <1>1 DEF PolicyFacts
    <3> HIDE DEF n
    <3> QED  BY <1>2, <3>1, <3>2
  <2>2. spent[c] + left[c] <= l + BackoffFor(policy, n - 1)
    BY <1>5 DEF IInv, TaskOK
  <2>3. Longest(policy, n + 1) = l + BackoffFor(policy, n - 1) + Timeout
    BY <2>1, <1>1 DEF PolicyFacts
  <2>4. Longest(policy, n + 1) \in Nat /\ BackoffFor(policy, n - 1) \in Nat
        /\ Longest(policy, n + 1) <= longest
    BY <2>1, <1>1, <1>2 DEF PolicyFacts
  <2> QED  BY <2>2, <2>3, <2>4, <1>2, <1>3
<1>6. CASE ~Running(c)
  <2>1. spent[c] = 0  BY <1>6 DEF IInv, TaskOK
  <2> QED  BY <2>1, <1>2, <1>3
<1> QED  BY <1>2, <1>3, <1>4, <1>5, <1>6 DEF Running

(* The HTTP timeout never cuts off a refresh that was left the time of the *)
(* slowest one, whatever the retry policy and the timeouts.                *)
THEOREM RefreshGetsItsTime == Spec => []NeverCutOff
<1>1. IInv => NeverCutOff
  <2> SUFFICES ASSUME IInv, NEW c \in Requests, Busy(c),
                      late[c] + Longest(policy, Attempts(policy)) < Http
               PROVE  ~Expired(c)
    BY DEF NeverCutOff
  <2>1. c \in Tasks  BY DEF Tasks
  <2> QED  BY <2>1, SpentBound DEF Expired
<1> QED  BY <1>1, Invariant, PTL

(* A node that boots is in the refresh it awaits, ...                      *)
BootRefreshes == phase = "booting" => Running(Refresher)

LEMMA BootStep == IInv /\ BootRefreshes /\ [Next]_vars => BootRefreshes'
<1> SUFFICES ASSUME IInv, BootRefreshes, [Next]_vars, phase' = "booting"
             PROVE  Running(Refresher)'
  BY DEF BootRefreshes
<1> USE RefresherIsTask DEF Running
<1>1. ASSUME NEW c \in Tasks, Return(c) PROVE phase = "booting" /\ c # Refresher
  BY <1>1 DEF Return, Listen
<1>2. ASSUME NEW c \in Tasks, Return(c) PROVE Running(Refresher)'
  BY <1>1, <1>2 DEF Return, End, BootRefreshes, IInv, TypeOK
<1>3. ASSUME NEW c \in Tasks, Refreshing(c) PROVE Running(Refresher)'
  <2>1. CASE AttemptOk(c) \/ GiveUp(c)  BY <1>2, <2>1 DEF AttemptOk, GiveUp
  <2>2. CASE Backoff(c) \/ Wake(c)
    BY <2>2 DEF Backoff, Wake, BootRefreshes, IInv, TypeOK
  <2> QED  BY <1>3, <2>1, <2>2 DEF Refreshing
<1>4. ASSUME NEW c \in Requests,
             \/ Request(c) \/ Resolve(c) \/ Message(c)
             \/ ClientLeaves(c) \/ HttpTimeout(c)
      PROVE  Running(Refresher)'
  BY <1>4 DEF Request, Accepting, Resolve, Message, Up, Begin, ClientLeaves,
              HttpTimeout, End, BootRefreshes, IInv, TypeOK
<1>5. CASE Periodic \/ PeriodicRefused \/ Signal
  BY <1>5 DEF Periodic, PeriodicRefused, Signal, Up
<1>6. CASE Kill \/ Exit \/ Restart
  BY <1>6 DEF Kill, Exit, Dead, Restart, Boot
<1>7. CASE Tick \/ UNCHANGED vars
  BY <1>7 DEF Tick, vars, localVars, BootRefreshes
<1> QED  BY <1>3, <1>4, <1>5, <1>6, <1>7 DEF Next

(* ... so that it listens or gives up within the time of the slowest one,  *)
(* as nothing else may take longer in a refresh.                           *)
BootBounded ==
  /\ phase = "booting" => Running(Refresher)
  /\ \A c \in Tasks : spent[c] <= Longest(policy, Attempts(policy))

(* A boot, like every refresh, takes at most all attempts with their       *)
(* timeouts and the sleeps between them, whatever the endpoint does: serve *)
(* is never held up by its first refresh for longer.                       *)
THEOREM BootEnds == Spec => []BootBounded
<1>1. Init => BootRefreshes
  BY RefresherIsTask DEF Init, BootRefreshes, Running
<1>2. IInv /\ BootRefreshes => BootBounded
  BY SpentBound DEF BootBounded, BootRefreshes
<1> QED  BY <1>1, <1>2, BootStep, Invariant, PTL DEF Spec

(* No tick of the refresher is ever overdue, for every refresh period the  *)
(* command line can give.                                                  *)
THEOREM NeverOverdue == Spec => []OnSchedule
<1>1. IInv => OnSchedule  BY DEF IInv, RefresherOK, OnSchedule
<1> QED  BY <1>1, Invariant, PTL

-----------------------------------------------------------------------------
(* The arithmetic of the backoff, for any number of failed attempts.       *)

LEMMA TimesGrows == \A x, y, z \in Nat : y <= z => x * y <= x * z
<1> SUFFICES ASSUME NEW x \in Nat, NEW y \in Nat, NEW z \in Nat, y <= z
             PROVE  x * y <= x * z
  OBVIOUS
<1>1. z - y \in Nat /\ x * z = x * y + x * (z - y)
  OBVIOUS
<1>2. x * (z - y) \in Nat /\ x * y \in Nat
  BY <1>1, ProductNat
<1> QED
  BY <1>1, <1>2

(* Where the cap is in the reach of the largest factor and of the type, no *)
(* step of the computation shows.                                          *)
LEMMA BackoffOf ==
  ASSUME NEW p \in Policies, NEW k \in Nat,
         p.initial * (U32 - 1) >= p.max, p.max < U64
  PROVE  BackoffFor(p, k) = Least(p.initial * Powers(p.multiplier)[k], p.max)
<1> DEFINE w == Powers(p.multiplier)[k]
           x == p.initial
           s == Saturated(w, U32)
<1>1. x \in Nat /\ p.max \in Nat /\ w \in Nat
  BY PolicyAssumption, PowersDef
<1> HIDE DEF w
<1>2. s \in Nat /\ (s = w \/ (w >= U32 /\ s = U32 - 1))
  <2>1. s \in Nat
    BY SaturatedNat
  <2>2. CASE w \in 0 .. U32 - 1
    BY <2>1, <2>2 DEF Saturated
  <2>3. CASE w \notin 0 .. U32 - 1
    <3>1. s = U32 - 1
      BY <2>3 DEF Saturated
    <3>2. w >= U32
      BY <1>1, <2>3
    <3> QED
      BY <2>1, <3>1, <3>2
  <2> QED
    BY <2>2, <2>3
<1> HIDE DEF s, x
<1>3. x * s \in Nat /\ x * w \in Nat
  BY <1>1, <1>2, ProductNat
<1>4. Least(x * s, p.max) = Least(x * w, p.max)
  <2>1. CASE s = w
    BY <2>1
  <2>2. CASE w >= U32 /\ s = U32 - 1
    <3>1. x * s >= p.max
      BY <2>2 DEF x
    <3>2. s <= w
      BY <1>1, <2>2
    <3>3. x * s <= x * w
      BY <1>1, <1>2, <3>2, TimesGrows
    <3> QED
      BY <1>1, <1>3, <3>1, <3>3 DEF Least
  <2> QED
    BY <1>2, <2>1, <2>2
<1>5. Least(x * w, p.max) \in 0 .. U64 - 1
  BY <1>1, <1>3 DEF Least
<1>6. \A y \in 0 .. U64 - 1 : y % U64 = y
  OBVIOUS
<1> QED
  BY <1>4, <1>5, <1>6 DEF BackoffFor, s, w, x

(* The sleeps are the exponential ones with the cap, whatever the widths   *)
(* of the integers: BackoffExact.                                          *)
THEOREM BackoffSound == Spec => []BackoffExact
<1>1. IInv => BackoffExact
  BY BackoffOf DEF IInv, TypeOK, BackoffExact
<1> QED  BY <1>1, Invariant, PTL

(* A drain is over within the HTTP timeout, however many requests it waits *)
(* for and wherever they are.                                              *)
THEOREM DrainEnds == Spec => []DrainBounded
<1>1. IInv => DrainBounded  BY DEF IInv, DrainBounded
<1> QED  BY <1>1, Invariant, PTL
=============================================================================
