------------------------- MODULE RateLimiterProofs -------------------------
(* Theorems about RateLimiter, for every length of the second in clock     *)
(* units, every configured rate and every window.                          *)
EXTENDS RateLimiter, TLAPS

(* A call admitted in the observed window is still owed, but for the time  *)
(* that has passed in it.                                                  *)
WindowOwed == count * Interval <= elapsed + level

IInv == TypeOK /\ WindowOwed

-----------------------------------------------------------------------------
(* Division by an interval, for numbers that are not constants.            *)
LEMMA Quotient ==
  ASSUME NEW n \in Nat, NEW d \in Nat \ {0}
  PROVE  /\ n \div d \in Nat
         /\ d * (n \div d) <= n
         /\ n < d * (n \div d) + d
<1> QED
  BY SMT

LEMMA QuotientIs ==
  ASSUME NEW n \in Nat, NEW d \in Nat \ {0}, NEW q \in Int,
         d * q <= n, n < d * q + d
  PROVE  n \div d = q
<1> QED
  BY SMT

LEMMA IntervalPositive ==
  ASSUME rate \in 1 .. Second
  PROVE  Interval \in Nat \ {0} /\ Capacity \in Nat
<1>1. Interval \in Nat
  BY RateAssumption, Quotient DEF Interval
<1>2. Interval # 0
  BY RateAssumption, Quotient DEF Interval
<1> QED
  BY <1>1, <1>2 DEF Capacity

-----------------------------------------------------------------------------
LEMMA InitIInv == Init => IInv
<1> SUFFICES ASSUME Init PROVE IInv
  OBVIOUS
<1>1. PICK rps \in Configured : rate = NodeRate(rps)
  BY DEF Init
<1>2. rate \in 1 .. Second
  BY <1>1, RateAssumption DEF NodeRate
<1>3. Interval \in Nat \ {0} /\ Capacity \in Nat
  BY <1>2, IntervalPositive
<1>4. TypeOK
  BY <1>2, <1>3, RateAssumption DEF Init, TypeOK
<1>5. WindowOwed
  BY <1>3 DEF Init, WindowOwed
<1> QED
  BY <1>4, <1>5 DEF IInv

LEMMA NextIInv == IInv /\ [Next]_vars => IInv'
<1> SUFFICES ASSUME IInv, [Next]_vars PROVE IInv'
  OBVIOUS
<1>1. Interval \in Nat \ {0} /\ Capacity \in Nat
  BY IntervalPositive DEF IInv, TypeOK
<1>2. rate' = rate /\ Interval' = Interval /\ Capacity' = Capacity
  BY DEF Next, vars, Admit, Refuse, Tick, Observe, Interval, Capacity
<1>3. CASE Admit
  <2>1. TypeOK'
    BY <1>1, <1>2, <1>3 DEF IInv, TypeOK, Admit, Admissible
  <2>2. (count + 1) * Interval = count * Interval + Interval
    BY <1>1 DEF IInv, TypeOK
  <2>3. WindowOwed'
    BY <1>1, <1>2, <1>3, <2>2 DEF IInv, TypeOK, WindowOwed, Admit
  <2> QED
    BY <2>1, <2>3 DEF IInv
<1>4. CASE Refuse
  BY <1>1, <1>2, <1>4 DEF IInv, TypeOK, WindowOwed, Refuse
<1>5. CASE Tick
  <2>1. level' = IF level = 0 THEN 0 ELSE level - 1
    BY <1>5 DEF Tick, LevelLater
  <2>2. TypeOK'
    BY <1>1, <1>2, <1>5, <2>1, RateAssumption DEF IInv, TypeOK, Tick
  <2>3. CASE elapsed < Window
    <3>1. count' * Interval' = count * Interval /\ count * Interval <= elapsed + level
      BY <1>2, <1>5, <2>3 DEF IInv, WindowOwed, Tick
    <3>2. elapsed' = elapsed + 1
      BY <1>5, <2>3 DEF Tick
    <3>3. count * Interval \in Nat
      BY <1>1 DEF IInv, TypeOK
    <3>4. elapsed \in Nat /\ level \in Nat
      BY <1>1 DEF IInv, TypeOK
    <3> QED
      BY <2>1, <2>2, <3>1, <3>2, <3>3, <3>4 DEF IInv, WindowOwed
  <2>4. CASE ~(elapsed < Window)
    BY <1>1, <1>2, <1>5, <2>2, <2>4 DEF IInv, TypeOK, WindowOwed, Tick
  <2> QED
    BY <2>3, <2>4
<1>6. CASE Observe
  BY <1>1, <1>2, <1>6, RateAssumption DEF IInv, TypeOK, WindowOwed, Observe
<1>7. CASE UNCHANGED vars
  BY <1>2, <1>7 DEF IInv, TypeOK, WindowOwed, vars
<1> QED
  BY <1>3, <1>4, <1>5, <1>6, <1>7 DEF Next

LEMMA Inductive == Spec => []IInv
  BY InitIInv, NextIInv, PTL DEF Spec

(* Whatever rate is configured, the limiter can be built, and the bucket   *)
(* never owes more than its capacity.                                      *)
THEOREM TypeCorrect == Spec => []TypeOK
  BY Inductive, PTL DEF IInv

(* Every window, of any length, admits at most the burst and one call per  *)
(* interval of its length.                                                 *)
THEOREM WindowSound == Spec => []AnyWindow
<1>1. IInv => AnyWindow
  <2> SUFFICES ASSUME IInv PROVE AnyWindow
    OBVIOUS
  <2>1. Interval \in Nat \ {0} /\ Capacity \in Nat
    BY IntervalPositive DEF IInv, TypeOK
  <2>2. count * Interval \in Nat
    BY <2>1 DEF IInv, TypeOK
  <2>3. count * Interval <= elapsed + Capacity
    BY <2>1, <2>2 DEF IInv, TypeOK, WindowOwed
  <2> QED
    BY <2>3 DEF AnyWindow, Capacity
<1> QED
  BY <1>1, Inductive, PTL

-----------------------------------------------------------------------------
(* The permits the bucket of the refinement holds.                         *)
Permits == (Capacity - level) \div Interval

PermitsFit ==
  /\ Permits \in Nat
  /\ Interval * Permits <= Capacity - level
  /\ Capacity - level < Interval * Permits + Interval
  /\ Permits <= rate

LEMMA PermitsAre == IInv => PermitsFit
<1> SUFFICES ASSUME IInv PROVE PermitsFit
  OBVIOUS
<1>1. Interval \in Nat \ {0} /\ Capacity \in Nat
  BY IntervalPositive DEF IInv, TypeOK
<1>2. Capacity - level \in Nat /\ rate \in Nat /\ level \in Nat
  BY <1>1 DEF IInv, TypeOK
<1>3. /\ Permits \in Nat
      /\ Interval * Permits <= Capacity - level
      /\ Capacity - level < Interval * Permits + Interval
  BY <1>1, <1>2, Quotient DEF Permits
<1>4. \A i \in Nat \ {0}, p, r, v \in Nat : i * p <= r * i - v => p <= r
  OBVIOUS
<1>5. Permits <= rate
  BY <1>1, <1>2, <1>3, <1>4 DEF Capacity
<1> QED
  BY <1>3, <1>5 DEF PermitsFit

(* Each step is one of the bucket or leaves it alone.                      *)
LEMMA BucketStep == IInv /\ IInv' /\ [Next]_vars => [Bucket!Next]_(Bucket!vars)
<1> SUFFICES ASSUME IInv, IInv', [Next]_vars PROVE [Bucket!Next]_(Bucket!vars)
  OBVIOUS
<1>1. Interval \in Nat \ {0} /\ Capacity \in Nat /\ rate \in Nat
  BY IntervalPositive DEF IInv, TypeOK
<1>2. rate' = rate /\ Interval' = Interval /\ Capacity' = Capacity
  BY DEF Next, vars, Admit, Refuse, Tick, Observe, Interval, Capacity
<1>3. PermitsFit /\ PermitsFit'
  BY PermitsAre, PTL
<1>4. level \in Nat /\ level <= Capacity
  BY <1>1 DEF IInv, TypeOK
<1>5. Permits' \in Nat /\ Permits' <= rate
  BY <1>2, <1>3 DEF PermitsFit
<1>6. /\ Interval * Permits' <= Capacity - level'
      /\ Capacity - level' < Interval * Permits' + Interval
  BY <1>2, <1>3 DEF PermitsFit
<1>7. CASE Admit
  <2>1. level' = level + Interval /\ answer' = "ok"
    BY <1>7 DEF Admit
  <2>2. \A i \in Nat \ {0}, p, q, n, v \in Nat :
          /\ i * p <= n - v /\ n - v < i * p + i
          /\ i * q <= n - (v + i) /\ n - (v + i) < i * q + i
          => q = p - 1
    <3> TAKE i \in Nat \ {0}, p, q, n, v \in Nat
    <3> HAVE /\ i * p <= n - v /\ n - v < i * p + i
             /\ i * q <= n - (v + i) /\ n - (v + i) < i * q + i
    <3>1. i * (q + 1) = i * q + i /\ n - v \in Int /\ i * q \in Nat
      OBVIOUS
    <3>2. i * (q + 1) <= n - v /\ n - v < i * (q + 1) + i
      BY <3>1
    <3>3. n - v \in Nat
      BY <3>1, <3>2
    <3>4. (n - v) \div i = q + 1 /\ (n - v) \div i = p
      BY <3>2, <3>3, QuotientIs
    <3> QED
      BY <3>4
  <2>3. Permits' = Permits - 1
    BY <1>1, <1>3, <1>4, <1>5, <1>6, <2>1, <2>2 DEF PermitsFit
  <2>4. Permits > 0
    BY <1>3, <1>5, <2>3 DEF PermitsFit
  <2> QED
    BY <1>2, <2>1, <2>3, <2>4 DEF Bucket!Next, Bucket!Take, Permits
<1>8. CASE Refuse
  <2>1. /\ level' = level /\ answer' = "limited"
        /\ Capacity - level < Interval
    BY <1>1, <1>4, <1>8 DEF Refuse, Admissible
  <2>2. \A i \in Nat \ {0}, p, v \in Nat : i * p <= v /\ v < i => p = 0
    OBVIOUS
  <2>3. Capacity - level \in Nat
    BY <1>1, <1>4
  <2>4. Permits = 0
    BY <1>1, <1>3, <2>1, <2>2, <2>3 DEF PermitsFit
  <2>5. Permits' = Permits
    BY <1>2, <2>1 DEF Permits
  <2> QED
    BY <1>2, <2>1, <2>4, <2>5 DEF Bucket!Next, Bucket!Refuse, Permits
<1>9. CASE Tick
  <2>1. level' = level \/ level' = level - 1
    BY <1>9 DEF Tick, LevelLater
  <2>2. answer' = answer
    BY <1>9 DEF Tick
  <2>3. CASE level' = level
    BY <1>2, <2>2, <2>3 DEF Bucket!vars, Permits
  <2>4. CASE level' = level - 1
    <3>1. \A i \in Nat \ {0}, p, q, n, v \in Nat :
            /\ i * p <= n - v /\ n - v < i * p + i
            /\ i * q <= n - (v - 1) /\ n - (v - 1) < i * q + i
            => q = p \/ q = p + 1
      <4> TAKE i \in Nat \ {0}, p, q, n, v \in Nat
      <4> HAVE /\ i * p <= n - v /\ n - v < i * p + i
               /\ i * q <= n - (v - 1) /\ n - (v - 1) < i * q + i
      <4> DEFINE m == n - v + 1
      <4>1. i * p \in Nat /\ i * q \in Nat /\ i * (p + 1) = i * p + i
        OBVIOUS
      <4>2. m \in Nat /\ i * p <= m /\ i * q <= m /\ m < i * q + i
        BY <4>1
      <4>3. m \div i = q
        BY <4>2, QuotientIs
      <4>4. CASE m < i * p + i
        BY <4>2, <4>3, <4>4, QuotientIs
      <4>5. CASE ~(m < i * p + i)
        <5>1. i * (p + 1) <= m /\ m < i * (p + 1) + i
          BY <4>1, <4>2, <4>5
        <5>2. m \div i = p + 1
          BY <4>2, <5>1, QuotientIs
        <5> QED
          BY <4>3, <5>2
      <4> QED
        BY <4>4, <4>5
    <3>2. Permits' = Permits \/ Permits' = Permits + 1
      BY <1>1, <1>3, <1>4, <1>5, <1>6, <2>4, <3>1 DEF PermitsFit
    <3>3. CASE Permits' = Permits
      BY <1>2, <2>2, <3>3 DEF Bucket!vars, Permits
    <3>4. CASE Permits' = Permits + 1
      <4>1. Permits < rate
        BY <1>1, <1>3, <1>5, <3>4 DEF PermitsFit
      <4> QED
        BY <1>2, <2>2, <3>4, <4>1 DEF Bucket!Next, Bucket!Refill, Permits
    <3> QED
      BY <3>2, <3>3, <3>4
  <2> QED
    BY <2>1, <2>3, <2>4
<1>10. CASE Observe \/ UNCHANGED vars
  <2>1. UNCHANGED <<rate, level, answer>>
    BY <1>10 DEF Observe, vars
  <2> QED
    BY <1>2, <2>1 DEF Bucket!vars, Permits
<1> QED
  BY <1>7, <1>8, <1>9, <1>10 DEF Next

(* The limiter is a token bucket whose capacity is the configured rate.    *)
THEOREM RefinesBucket == Spec => ImplementsBucket
<1>1. Init => Bucket!Init
  <2> SUFFICES ASSUME Init PROVE Bucket!Init
    OBVIOUS
  <2>1. IInv
    BY InitIInv
  <2>2. Interval \in Nat \ {0} /\ Capacity \in Nat /\ rate \in Nat \ {0} /\ level = 0
    BY <2>1, IntervalPositive DEF IInv, TypeOK, Init
  <2>3. /\ Interval * rate <= Capacity - level
        /\ Capacity - level < Interval * rate + Interval
    BY <2>2 DEF Capacity
  <2>4. (Capacity - level) \div Interval = rate
    BY <2>2, <2>3, QuotientIs
  <2> QED
    BY <2>2, <2>4 DEF Init, Bucket!Init
<1> QED
  BY <1>1, BucketStep, Inductive, PTL DEF Spec, ImplementsBucket, Bucket!Spec
=============================================================================
