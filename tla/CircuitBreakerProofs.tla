------------------------ MODULE CircuitBreakerProofs ------------------------
(* Theorems about CircuitBreaker, for every set of callers, threshold and  *)
(* cooldown.                                                               *)
EXTENDS CircuitBreaker, TLAPS

(* The type invariant is not inductive alone: that the counter of a closed *)
(* breaker stays within its type needs ClosedCountsStreak.                 *)
IInv == TypeOK /\ ClosedCountsStreak /\ HalfOpenAfterCooldown

-----------------------------------------------------------------------------
(* What bounds the counter: a failure that does not trip the breaker stays *)
(* short of TripAt, and one that trips a breaker short of it reaches it.   *)
LEMMA TripBound ==
  ASSUME failures \in Nat, failures < TripAt
  PROVE  /\ TripAt \in Nat \ {0}
         /\ Trips => failures + 1 = TripAt
         /\ ~Trips => failures + 1 < TripAt
  BY ConfigAssumption DEF TripAt, Trips

LEMMA TripAtPositive == TripAt \in Nat \ {0}
  BY ConfigAssumption DEF TripAt

(* Taking or settling a call leaves the calls well typed.                  *)
LEMMA CallTyped ==
  ASSUME call \in [Callers -> CallState], NEW c \in Callers, NEW s \in CallState,
         call' = [call EXCEPT ![c] = s]
  PROVE  call' \in [Callers -> CallState]
  OBVIOUS

LEMMA InitInvariant == Init => IInv
<1> SUFFICES ASSUME Init PROVE IInv
  OBVIOUS
<1>1. TypeOK
  BY TripAtPositive, ConfigAssumption DEF Init, TypeOK, CircuitState, CallState
<1>2. ClosedCountsStreak
  BY TripAtPositive DEF Init, ClosedCountsStreak
<1>3. HalfOpenAfterCooldown
  BY DEF Init, HalfOpenAfterCooldown
<1> QED
  BY <1>1, <1>2, <1>3 DEF IInv

LEMMA NextInvariant == IInv /\ [Next]_vars => IInv'
<1> SUFFICES ASSUME IInv, [Next]_vars PROVE IInv'
  OBVIOUS
<1> USE DEF IInv
<1>1. ASSUME NEW c \in Callers, Acquire(c) PROVE IInv'
  <2>1. call' \in [Callers -> CallState]
    BY <1>1, CallTyped DEF Acquire, AdmitClosed, AdmitHalfOpen, AdmitCooled,
      Reject, TypeOK, CallState, Running
  <2>2. UNCHANGED <<failures, since, streak>>
    BY <1>1 DEF Acquire
  <2>3. state' = state \/ (state = "Open" /\ Cooled /\ state' = "HalfOpen")
    BY <1>1 DEF Acquire, AdmitClosed, AdmitHalfOpen, AdmitCooled, Reject
  <2> QED
    BY <2>1, <2>2, <2>3 DEF TypeOK, CircuitState, ClosedCountsStreak,
      HalfOpenAfterCooldown, Cooled
<1>2. ASSUME NEW c \in Callers, RecordSuccess(c) PROVE IInv'
  <2>1. call' \in [Callers -> CallState]
    BY <1>2, CallTyped DEF RecordSuccess, Settle, TypeOK, CallState
  <2> QED
    BY <1>2, <2>1, TripAtPositive DEF RecordSuccess, TypeOK, CircuitState,
      ClosedCountsStreak, HalfOpenAfterCooldown
<1>3. ASSUME NEW c \in Callers, RecordFailure(c) PROVE IInv'
  <2>1. call' \in [Callers -> CallState]
    BY <1>3, CallTyped DEF RecordFailure, Settle, TypeOK, CallState
  <2>2. streak' \in 0..TripAt
    BY <1>3, TripAtPositive DEF RecordFailure, TypeOK
  <2>3. CASE state = "HalfOpen"
    BY <1>3, <2>1, <2>2, <2>3, ConfigAssumption DEF RecordFailure, Trip,
      TypeOK, CircuitState, ClosedCountsStreak, HalfOpenAfterCooldown
  <2>4. CASE state = "Closed"
    <3>1. /\ failures \in Nat /\ failures < TripAt
          /\ failures = streak
      BY <2>4, TripAtPositive DEF TypeOK, ClosedCountsStreak
    <3>2. /\ failures' = failures + 1
          /\ streak' = failures + 1
          /\ IF Trips THEN Trip ELSE UNCHANGED <<state, since>>
      BY <1>3, <2>4, <3>1 DEF RecordFailure
    <3>3. CASE Trips
      BY <2>1, <2>2, <3>1, <3>2, <3>3, TripBound, ConfigAssumption DEF Trip,
        TypeOK, CircuitState, ClosedCountsStreak, HalfOpenAfterCooldown
    <3>4. CASE ~Trips
      BY <2>1, <2>2, <2>4, <3>1, <3>2, <3>4, TripBound DEF TypeOK,
        CircuitState, ClosedCountsStreak, HalfOpenAfterCooldown
    <3> QED
      BY <3>3, <3>4
  <2>5. CASE state = "Open"
    BY <1>3, <2>1, <2>2, <2>5 DEF RecordFailure, IgnoreFailure, TypeOK,
      CircuitState, ClosedCountsStreak, HalfOpenAfterCooldown
  <2> QED
    BY <2>3, <2>4, <2>5 DEF TypeOK, CircuitState
<1>4. ASSUME NEW c \in Callers, Drop(c) PROVE IInv'
  <2>1. call' \in [Callers -> CallState]
    BY <1>4, CallTyped DEF Drop, Settle, TypeOK, CallState
  <2> QED
    BY <1>4, <2>1 DEF Drop, TypeOK, ClosedCountsStreak, HalfOpenAfterCooldown,
      Cooled
<1>5. CASE Tick
  BY <1>5, ConfigAssumption DEF Tick, TypeOK, ClosedCountsStreak,
    HalfOpenAfterCooldown, Cooled
<1>6. CASE Restart
  BY <1>6, TripAtPositive, ConfigAssumption DEF Restart, TypeOK, CircuitState,
    CallState, ClosedCountsStreak, HalfOpenAfterCooldown
<1>7. CASE UNCHANGED vars
  BY <1>7 DEF vars, TypeOK, ClosedCountsStreak, HalfOpenAfterCooldown, Cooled
<1> QED
  BY <1>1, <1>2, <1>3, <1>4, <1>5, <1>6, <1>7 DEF Next

(* The inductive invariant holds throughout; the theorems below follow.    *)
THEOREM Invariance == Spec => []IInv
  BY InitInvariant, NextInvariant, PTL DEF Spec

-----------------------------------------------------------------------------
(* Every state of the breaker and of its calls is well typed: the failure  *)
(* counter never passes the threshold, so it never saturates.              *)
THEOREM TypeCorrect == Spec => []TypeOK
  BY Invariance, PTL DEF IInv

(* A closed breaker counts exactly the failures since the last success,    *)
(* and fewer than the threshold, for any number of overlapping calls.      *)
THEOREM CountsStreak == Spec => []ClosedCountsStreak
  BY Invariance, PTL DEF IInv

(* No late verdict makes a breaker half-open before its cooldown.          *)
THEOREM CooledBeforeTrial == Spec => []HalfOpenAfterCooldown
  BY Invariance, PTL DEF IInv

LEMMA OpensOnStreak ==
  IInv /\ [Next]_vars => (state = "Closed" /\ state' = "Open" => streak' = TripAt)
<1> SUFFICES ASSUME IInv, [Next]_vars, state = "Closed", state' = "Open"
             PROVE  streak' = TripAt
  OBVIOUS
<1>1. PICK c \in Callers : RecordFailure(c)
  BY DEF Next, vars, Acquire, AdmitClosed, AdmitHalfOpen, AdmitCooled, Reject,
    RecordSuccess, Drop, Tick, Restart
<1>2. failures \in Nat /\ failures < TripAt /\ failures = streak
  BY TripAtPositive DEF IInv, TypeOK, ClosedCountsStreak
<1>3. Trips
  BY <1>1 DEF RecordFailure
<1> QED
  BY <1>1, <1>2, <1>3, TripBound DEF RecordFailure

(* A closed breaker opens only on a full, uninterrupted run of failures.   *)
THEOREM OpensOnlyOnStreak == Spec => TripsOnlyOnStreak
<1>1. IInv /\ [Next]_vars =>
        [state = "Closed" /\ state' = "Open" => streak' = TripAt]_vars
  BY OpensOnStreak
<1> QED
  BY <1>1, Invariance, PTL DEF Spec, TripsOnlyOnStreak

LEMMA CooldownRuns ==
  IInv /\ [Next]_vars => (state = "Open" /\ state' = "Open" => since' >= since)
<1> SUFFICES ASSUME IInv, [Next]_vars, state = "Open", state' = "Open"
             PROVE  since' >= since
  OBVIOUS
<1>1. since \in Nat
  BY ConfigAssumption DEF IInv, TypeOK
<1>2. UNCHANGED since \/ Tick
  BY DEF Next, vars, Acquire, RecordSuccess, RecordFailure, IgnoreFailure,
    Drop, Restart
<1> QED
  BY <1>1, <1>2 DEF Tick

(* Late failures never restart or prolong the cooldown of an open breaker. *)
THEOREM CooldownNeverProlonged == Spec => CooldownNotProlonged
<1>1. IInv /\ [Next]_vars =>
        [state = "Open" /\ state' = "Open" => since' >= since]_vars
  BY CooldownRuns
<1> QED
  BY <1>1, Invariance, PTL DEF Spec, CooldownNotProlonged
=============================================================================
