-------------------------- MODULE CachedJwksProofs --------------------------
(* Theorems about CachedJwks, for every set of callers, threshold,         *)
(* cooldown, number of attempts and number of key sets.  The breaker's     *)
(* share of the work is CircuitBreakerProofs: every step of the provider   *)
(* is a step of its breaker or leaves the breaker alone.                   *)
EXTENDS CachedJwks, TLAPS

BreakerProofs == INSTANCE CircuitBreakerProofs

(* What a refresh knows of the endpoint: publications only grow, so what   *)
(* was published when its attempt began is a lower bound of the response   *)
(* to it.                                                                  *)
ResponsesCurrent ==
  \A c \in Callers :
    /\ began[c] <= published
    /\ body[c] <= published
    /\ pc[c] \in {"receive", "store", "stored"} => began[c] <= body[c]

(* The attempt of a refresh which no store overlapped began when the       *)
(* cached set was published already.                                       *)
AheadOfCache ==
  /\ cache <= published
  /\ \A c \in Callers :
       pc[c] \notin {"idle", "stored"} /\ c \notin overlap => cache <= began[c]

(* A task that waits to retry has an attempt left, so that attempt stays   *)
(* within its type.                                                        *)
AttemptLeft == \A c \in Callers : pc[c] = "backoff" => attempt[c] < Attempts

IInv ==
  /\ TypeOK
  /\ AttemptLeft
  /\ BreakerProofs!IInv
  /\ AdmittedIffBusy
  /\ ResponsesCurrent
  /\ AheadOfCache

-----------------------------------------------------------------------------
LEMMA AttemptsPositive == Attempts \in Nat \ {0}
  BY ConfigAssumption DEF Attempts

(* The calls of an admitted task.                                          *)
LEMMA RunningOnly == "idle" \notin Breaker!Running /\ "rejected" \notin Breaker!Running
  BY DEF Breaker!Running

(* Every step of the provider is one of its breaker, or none.              *)
LEMMA BreakerStep == [Next]_vars => [Breaker!Next]_breakerVars
<1> SUFFICES ASSUME [Next]_vars PROVE [Breaker!Next]_breakerVars
  OBVIOUS
<1>1. ASSUME NEW c \in Callers, Refresh(c) PROVE Breaker!Acquire(c)
  BY <1>1 DEF Refresh
<1>2. ASSUME NEW c \in Callers, Step(c)
      PROVE  \/ Breaker!RecordSuccess(c)
             \/ Breaker!RecordFailure(c)
             \/ UNCHANGED breakerVars
  BY <1>2 DEF Step, Respond, AttemptOk, AttemptErr, Retry, Store, ReturnOk, ReturnErr
<1>3. ASSUME NEW c \in Callers, Cancel(c) PROVE Breaker!Drop(c)
  BY <1>3 DEF Cancel
<1>4. CASE Rotate \/ NetChange
  BY <1>4 DEF Rotate, NetChange
<1>5. CASE Tick
  BY <1>5 DEF Tick, Breaker!Next
<1>6. CASE Crash
  BY <1>6 DEF Crash, Breaker!Next
<1>7. CASE UNCHANGED vars
  BY <1>7 DEF vars
<1> QED
  BY <1>1, <1>2, <1>3, <1>4, <1>5, <1>6, <1>7 DEF Next, Breaker!Next

(* The two instances of CircuitBreaker are the same specification.         *)
LEMMA SameBreaker ==
  /\ Breaker!Init <=> BreakerProofs!Init
  /\ [Breaker!Next]_breakerVars <=> [BreakerProofs!Next]_(BreakerProofs!vars)
  BY DEF Breaker!Init, BreakerProofs!Init, Breaker!Next, BreakerProofs!Next,
    Breaker!Acquire, BreakerProofs!Acquire,
    Breaker!AdmitClosed, BreakerProofs!AdmitClosed,
    Breaker!AdmitHalfOpen, BreakerProofs!AdmitHalfOpen,
    Breaker!AdmitCooled, BreakerProofs!AdmitCooled,
    Breaker!Reject, BreakerProofs!Reject,
    Breaker!Cooled, BreakerProofs!Cooled,
    Breaker!Running, BreakerProofs!Running,
    Breaker!Settle, BreakerProofs!Settle,
    Breaker!RecordSuccess, BreakerProofs!RecordSuccess,
    Breaker!RecordFailure, BreakerProofs!RecordFailure,
    Breaker!TripAt, BreakerProofs!TripAt,
    Breaker!Trips, BreakerProofs!Trips,
    Breaker!Trip, BreakerProofs!Trip,
    Breaker!IgnoreFailure, BreakerProofs!IgnoreFailure,
    Breaker!Drop, BreakerProofs!Drop,
    Breaker!Tick, BreakerProofs!Tick,
    Breaker!Restart, BreakerProofs!Restart,
    breakerVars, BreakerProofs!vars

LEMMA SameBreakerTypes == BreakerProofs!IInv => Breaker!TypeOK
  BY DEF BreakerProofs!IInv, BreakerProofs!TypeOK, Breaker!TypeOK,
    BreakerProofs!TripAt, Breaker!TripAt,
    BreakerProofs!CircuitState, Breaker!CircuitState,
    BreakerProofs!CallState, Breaker!CallState,
    BreakerProofs!Running, Breaker!Running

LEMMA BreakerInvariant == BreakerProofs!IInv /\ [Next]_vars => BreakerProofs!IInv'
  BY BreakerStep, SameBreaker, BreakerProofs!NextInvariant,
    RefresherAssumption, ConfigAssumption

(* What the breaker's steps do to the calls of the provider's tasks.       *)
LEMMA CallSteps ==
  ASSUME TypeOK, NEW c \in Callers
  PROVE  /\ Breaker!Acquire(c) =>
              \E s \in Breaker!CallState \ {"idle"} : call' = [call EXCEPT ![c] = s]
         /\ \/ Breaker!RecordSuccess(c)
            \/ Breaker!RecordFailure(c)
            \/ Breaker!Drop(c)
            => call' = [call EXCEPT ![c] = "idle"]
  BY DEF Breaker!Acquire, Breaker!AdmitClosed, Breaker!AdmitHalfOpen,
    Breaker!AdmitCooled, Breaker!Reject, Breaker!CallState, Breaker!Running,
    Breaker!RecordSuccess, Breaker!RecordFailure, Breaker!Drop, Breaker!Settle

-----------------------------------------------------------------------------
LEMMA InitInvariant == Init => IInv
<1> SUFFICES ASSUME Init PROVE IInv
  OBVIOUS
<1>1. BreakerProofs!IInv
  BY SameBreaker, BreakerProofs!InitInvariant, RefresherAssumption,
    ConfigAssumption DEF Init
<1>2. TypeOK
  <2>1. "idle" \in Label /\ Seed \in Version /\ 1 \in 1..Attempts /\ 1 \in Version \ {Seed}
    BY AttemptsPositive, ConfigAssumption DEF Label, Seed, Version
  <2>2. Breaker!TypeOK
    BY <1>1, SameBreakerTypes
  <2> QED
    BY <2>1, <2>2 DEF Init, TypeOK
<1>3. AdmittedIffBusy
  BY RunningOnly DEF Init, Breaker!Init, AdmittedIffBusy
<1>4. AttemptLeft /\ ResponsesCurrent /\ AheadOfCache
  BY DEF Init, AttemptLeft, ResponsesCurrent, AheadOfCache, Seed
<1> QED
  BY <1>1, <1>2, <1>3, <1>4 DEF IInv

(* One step down a refresh: pc, and what is busy, change at c alone.       *)
LEMMA GotoTyped ==
  ASSUME TypeOK, NEW c \in Callers, NEW from, NEW to \in Label, Goto(c, from, to)
  PROVE  /\ pc' \in [Callers -> Label]
         /\ to # "idle" => Busy' = Busy \union {c}
         /\ to = "idle" => Busy' = Busy \ {c}
  BY DEF TypeOK, Goto, Busy

(* The locals of a refresh that is over are well typed.                    *)
LEMMA ForgetTyped ==
  ASSUME TypeOK, NEW c \in Callers, Forget(c)
  PROVE  /\ attempt' \in [Callers -> 1..Attempts]
         /\ body' \in [Callers -> Version]
         /\ began' \in [Callers -> Version]
         /\ overlap' = overlap \ {c}
  BY AttemptsPositive, ConfigAssumption DEF TypeOK, Forget, Version, Seed

LEMMA NextTypeOK ==
  ASSUME TypeOK, AttemptLeft, BreakerProofs!IInv, [Next]_vars
  PROVE  TypeOK'
<1>0. Breaker!TypeOK'
  <2>1. BreakerProofs!IInv'
    BY BreakerInvariant
  <2> QED
    BY <2>1, SameBreakerTypes, PTL
<1> USE DEF TypeOK
<1>1. ASSUME NEW c \in Callers, Refresh(c) PROVE TypeOK'
  <2>1. UNCHANGED <<cache, serving, remoteVars, body, overlap>>
    BY <1>1 DEF Refresh
  <2>2. CASE UNCHANGED <<pc, attempt, began>>
    BY <1>0, <2>1, <2>2 DEF remoteVars, Busy
  <2>3. CASE /\ pc' = [pc EXCEPT ![c] = "send"]
             /\ attempt' = [attempt EXCEPT ![c] = 1]
             /\ began' = [began EXCEPT ![c] = published]
    <3>1. pc' \in [Callers -> Label] /\ Busy' = Busy \union {c}
      BY <2>3 DEF Label, Awaiting, Busy
    <3>2. 1 \in 1..Attempts
      BY AttemptsPositive
    <3>3. attempt' \in [Callers -> 1..Attempts] /\ began' \in [Callers -> Version]
      BY <2>3, <3>2
    <3> QED
      BY <1>0, <2>1, <3>1, <3>3 DEF remoteVars
  <2> QED
    BY <1>1, <2>2, <2>3 DEF Refresh
<1>2. ASSUME NEW c \in Callers, Respond(c) PROVE TypeOK'
  BY <1>0, <1>2, GotoTyped DEF Respond, Label, Awaiting, breakerVars, remoteVars
<1>3. ASSUME NEW c \in Callers, AttemptOk(c) PROVE TypeOK'
  BY <1>0, <1>3, GotoTyped DEF AttemptOk, Label, Awaiting, breakerVars, remoteVars
<1>4. ASSUME NEW c \in Callers, AttemptErr(c) PROVE TypeOK'
  BY <1>0, <1>4, GotoTyped DEF AttemptErr, Label, Awaiting, breakerVars, remoteVars
<1>5. ASSUME NEW c \in Callers, Retry(c) PROVE TypeOK'
  <2>1. attempt[c] + 1 \in 1..Attempts
    BY <1>5, AttemptsPositive DEF Retry, Goto, AttemptLeft
  <2>2. attempt' \in [Callers -> 1..Attempts]
    BY <1>5, <2>1 DEF Retry
  <2> QED
    BY <1>0, <1>5, <2>2, GotoTyped DEF Retry, Label, Awaiting, remoteVars
<1>6. ASSUME NEW c \in Callers, Store(c) PROVE TypeOK'
  BY <1>0, <1>6, GotoTyped DEF Store, Label, Awaiting, breakerVars, remoteVars
<1>7. ASSUME NEW c \in Callers, ReturnOk(c) \/ ReturnErr(c) PROVE TypeOK'
  BY <1>0, <1>7, GotoTyped, ForgetTyped
  DEF ReturnOk, ReturnErr, Listen, Label, remoteVars
<1>8. ASSUME NEW c \in Callers, Cancel(c) PROVE TypeOK'
  BY <1>0, <1>8, ForgetTyped DEF Cancel, Label, remoteVars, Busy
<1>9. CASE Rotate
  BY <1>0, <1>9, ConfigAssumption DEF Rotate, Version, Seed, localVars, Busy
<1>10. CASE NetChange
  BY <1>0, <1>10 DEF NetChange, localVars, Busy
<1>11. CASE Tick
  BY <1>0, <1>11 DEF Tick, remoteVars, localVars, Busy
<1>12. CASE Crash
  <2>1. "idle" \in Label /\ Seed \in Version /\ 1 \in 1..Attempts
    BY AttemptsPositive, ConfigAssumption DEF Label, Seed, Version
  <2>2. /\ pc' \in [Callers -> Label]
        /\ attempt' \in [Callers -> 1..Attempts]
        /\ body' \in [Callers -> Version]
        /\ began' \in [Callers -> Version]
        /\ cache' \in Version
    BY <1>12, <2>1 DEF Crash
  <2> QED
    BY <1>0, <1>12, <2>2 DEF Crash, remoteVars
<1>13. CASE UNCHANGED vars
  BY <1>0, <1>13 DEF vars, remoteVars, localVars, Busy
<1> QED
  BY <1>1, <1>2, <1>3, <1>4, <1>5, <1>6, <1>7, <1>8, <1>9, <1>10, <1>11, <1>12,
    <1>13 DEF Next, Step

LEMMA NextAttemptLeft ==
  ASSUME TypeOK, AttemptLeft, [Next]_vars
  PROVE  AttemptLeft'
<1> USE DEF TypeOK, AttemptLeft, Goto
<1>1. ASSUME NEW c \in Callers, Refresh(c) PROVE AttemptLeft'
  BY <1>1 DEF Refresh
<1>2. ASSUME NEW c \in Callers, Step(c) PROVE AttemptLeft'
  BY <1>2 DEF Step, Respond, AttemptOk, AttemptErr, HasNextAttempt, Retry,
    Store, ReturnOk, ReturnErr, Forget
<1>3. ASSUME NEW c \in Callers, Cancel(c) PROVE AttemptLeft'
  BY <1>3 DEF Cancel, Forget
<1>4. CASE Rotate \/ NetChange \/ Tick \/ Crash \/ UNCHANGED vars
  BY <1>4 DEF Rotate, NetChange, Tick, Crash, vars, localVars
<1> QED
  BY <1>1, <1>2, <1>3, <1>4 DEF Next

LEMMA NextAdmittedIffBusy ==
  ASSUME TypeOK, BreakerProofs!IInv, AdmittedIffBusy, [Next]_vars
  PROVE  AdmittedIffBusy'
<1>0. call \in [Callers -> Breaker!CallState]
  BY DEF TypeOK, Breaker!TypeOK
<1> USE DEF AdmittedIffBusy
<1>1. ASSUME NEW c \in Callers, Refresh(c) PROVE AdmittedIffBusy'
  <2>1. PICK s \in Breaker!CallState \ {"idle"} : call' = [call EXCEPT ![c] = s]
    BY <1>1, CallSteps DEF Refresh
  <2>2. call'[c] \in Breaker!Running <=> pc'[c] # "idle"
    BY <1>1 DEF Refresh, TypeOK
  <2>3. \A d \in Callers \ {c} : call'[d] = call[d] /\ pc'[d] = pc[d]
    BY <1>0, <1>1, <2>1 DEF Refresh, TypeOK
  <2> QED
    BY <2>2, <2>3
<1>2. ASSUME NEW c \in Callers,
             Respond(c) \/ AttemptOk(c) \/ AttemptErr(c) \/ Retry(c) \/ Store(c)
      PROVE  AdmittedIffBusy'
  BY <1>2 DEF Respond, AttemptOk, AttemptErr, Retry, Store, Goto, breakerVars, TypeOK
<1>3. ASSUME NEW c \in Callers, ReturnOk(c) \/ ReturnErr(c) \/ Cancel(c)
      PROVE  AdmittedIffBusy'
  <2>1. call' = [call EXCEPT ![c] = "idle"]
    BY <1>3, CallSteps DEF ReturnOk, ReturnErr, Cancel
  <2>2. pc' = [pc EXCEPT ![c] = "idle"]
    BY <1>3 DEF ReturnOk, ReturnErr, Cancel, Goto
  <2> QED
    BY <1>0, <2>1, <2>2, RunningOnly DEF TypeOK
<1>4. CASE Rotate \/ NetChange \/ Tick \/ UNCHANGED vars
  BY <1>4 DEF Rotate, NetChange, Tick, Breaker!Tick, vars, breakerVars, localVars
<1>5. CASE Crash
  BY <1>5, RunningOnly DEF Crash, Breaker!Restart
<1> QED
  BY <1>1, <1>2, <1>3, <1>4, <1>5 DEF Next, Step

LEMMA NextResponsesCurrent ==
  ASSUME TypeOK, ResponsesCurrent, [Next]_vars
  PROVE  ResponsesCurrent'
<1>0. /\ published \in Nat /\ Seed \in Nat /\ Seed <= published
      /\ \A c \in Callers : body[c] \in Nat /\ began[c] \in Nat
  BY ConfigAssumption DEF TypeOK, Version, Seed
<1> USE DEF TypeOK, ResponsesCurrent, Goto
<1>1. ASSUME NEW c \in Callers, Refresh(c) PROVE ResponsesCurrent'
  BY <1>0, <1>1 DEF Refresh, remoteVars
<1>2. ASSUME NEW c \in Callers, Respond(c) PROVE ResponsesCurrent'
  BY <1>0, <1>2 DEF Respond, remoteVars
<1>3. ASSUME NEW c \in Callers,
             AttemptOk(c) \/ AttemptErr(c) \/ Retry(c) \/ Store(c)
      PROVE  ResponsesCurrent'
  BY <1>0, <1>3 DEF AttemptOk, AttemptErr, Retry, Store, remoteVars
<1>4. ASSUME NEW c \in Callers, ReturnOk(c) \/ ReturnErr(c) \/ Cancel(c)
      PROVE  ResponsesCurrent'
  BY <1>0, <1>4 DEF ReturnOk, ReturnErr, Cancel, Forget, remoteVars
<1>5. CASE Rotate
  BY <1>0, <1>5 DEF Rotate, localVars
<1>6. CASE NetChange \/ Tick \/ UNCHANGED vars
  BY <1>6 DEF NetChange, Tick, vars, remoteVars, localVars
<1>7. CASE Crash
  BY <1>0, <1>7 DEF Crash, remoteVars
<1> QED
  BY <1>1, <1>2, <1>3, <1>4, <1>5, <1>6, <1>7 DEF Next, Step

LEMMA NextAheadOfCache ==
  ASSUME TypeOK, ResponsesCurrent, AheadOfCache, [Next]_vars
  PROVE  AheadOfCache'
<1>0. cache \in Nat /\ published \in Nat /\ Seed \in Nat /\ Seed <= published
  BY ConfigAssumption DEF TypeOK, Version, Seed
<1> USE DEF TypeOK, AheadOfCache, Goto
<1>1. ASSUME NEW c \in Callers, Refresh(c) PROVE AheadOfCache'
  BY <1>1 DEF Refresh, remoteVars
<1>2. ASSUME NEW c \in Callers,
             Respond(c) \/ AttemptOk(c) \/ AttemptErr(c) \/ Retry(c)
      PROVE  AheadOfCache'
  BY <1>2 DEF Respond, AttemptOk, AttemptErr, Retry, remoteVars
<1>3. ASSUME NEW c \in Callers, Store(c) PROVE AheadOfCache'
  <2>1. cache' <= published /\ published' = published
    BY <1>3 DEF Store, ResponsesCurrent, remoteVars
  <2>2. pc'[c] = "stored" /\ overlap' = Busy \ {c}
    BY <1>3 DEF Store
  <2>3. \A d \in Callers \ {c} : pc'[d] # "idle" => d \in overlap'
    BY <1>3, <2>2 DEF Store, Busy
  <2> QED
    BY <2>1, <2>2, <2>3
<1>4. ASSUME NEW c \in Callers, ReturnOk(c) \/ ReturnErr(c) \/ Cancel(c)
      PROVE  AheadOfCache'
  BY <1>4 DEF ReturnOk, ReturnErr, Cancel, Forget, remoteVars
<1>5. CASE Rotate
  BY <1>0, <1>5 DEF Rotate, localVars
<1>6. CASE NetChange \/ Tick \/ UNCHANGED vars
  BY <1>6 DEF NetChange, Tick, vars, remoteVars, localVars
<1>7. CASE Crash
  BY <1>0, <1>7 DEF Crash, remoteVars
<1> QED
  BY <1>1, <1>2, <1>3, <1>4, <1>5, <1>6, <1>7 DEF Next, Step

LEMMA NextInvariant == IInv /\ [Next]_vars => IInv'
  BY BreakerInvariant, NextTypeOK, NextAttemptLeft, NextAdmittedIffBusy,
    NextResponsesCurrent, NextAheadOfCache DEF IInv

(* The inductive invariant holds throughout; the theorems below follow.    *)
THEOREM Invariance == Spec => []IInv
  BY InitInvariant, NextInvariant, PTL DEF Spec

-----------------------------------------------------------------------------
(* Every state of the provider is well typed; no task counts attempts      *)
(* beyond RetryPolicy::max_attempts.                                       *)
THEOREM TypeCorrect == Spec => []TypeOK
  BY Invariance, PTL DEF IInv

(* Each admission of the breaker is settled exactly once: a call is in     *)
(* flight while its refresh is under way, and only then.                   *)
THEOREM AdmissionsSettled == Spec => []AdmittedIffBusy
  BY Invariance, PTL DEF IInv

(* What a step that stores a key set, and one that does not, do to cache.  *)
LEMMA CacheSteps ==
  ASSUME [Next]_vars
  PROVE  \/ UNCHANGED cache
         \/ Crash
         \/ \E c \in Callers : Store(c)
  BY DEF Next, Step, Refresh, Respond, AttemptOk, AttemptErr, Retry, ReturnOk,
    ReturnErr, Cancel, Rotate, NetChange, Tick, vars

LEMMA StoreCurrent ==
  ASSUME IInv, NEW c \in Callers, Store(c)
  PROVE  began[c] <= cache' /\ cache' <= published
  BY DEF IInv, ResponsesCurrent, Store, Goto

(* What any refresh stores was published during its last attempt.          *)
THEOREM StoresOnlyCurrent == Spec => StoresCurrentSet
<1>1. IInv => [\A c \in Callers :
                 Store(c) => began[c] <= cache' /\ cache' <= published]_vars
  BY StoreCurrent
<1> QED
  BY <1>1, Invariance, PTL DEF StoresCurrentSet

LEMMA RegressOverlaps ==
  ASSUME IInv, [Next]_vars, cache' < cache, ~Crash
  PROVE  \E c \in overlap : Store(c)
<1>1. PICK c \in Callers : Store(c)
  <2>1. cache \in Nat
    BY ConfigAssumption DEF IInv, TypeOK, Version
  <2> QED
    BY <2>1, CacheSteps
<1>2. pc[c] = "store" /\ began[c] <= cache'
  BY <1>1, StoreCurrent DEF Store, Goto
<1>3. cache \in Nat /\ began[c] \in Nat /\ cache' \in Nat
  BY <1>1, ConfigAssumption DEF IInv, TypeOK, Version, Store
<1>4. c \in overlap
  BY <1>2, <1>3 DEF IInv, AheadOfCache
<1> QED
  BY <1>1, <1>4

(* Refreshes that do not overlap never bring back an older key set.        *)
THEOREM RegressesByOverlapAlone == Spec => RegressesOnlyByOverlap
<1>1. IInv /\ [Next]_vars =>
        [cache' < cache /\ ~Crash => \E c \in overlap : Store(c)]_vars
  BY RegressOverlaps
<1> QED
  BY <1>1, Invariance, PTL DEF Spec, RegressesOnlyByOverlap

LEMMA StoredReturns ==
  ASSUME IInv, [Next]_vars, ~Crash, NEW c \in Callers, pc[c] = "stored", pc'[c] = "idle"
  PROVE  state' = "Closed"
<1> USE DEF IInv, TypeOK, Goto
<1>1. ReturnOk(c)
  BY DEF Next, Step, Refresh, Respond, AttemptOk, AttemptErr, Retry, Store,
    ReturnOk, ReturnErr, Cancel, Awaiting, Rotate, NetChange, Tick, localVars, vars
<1> QED
  BY <1>1 DEF ReturnOk, Breaker!RecordSuccess

(* Between storing a key set and closing the breaker a refresh is never    *)
(* cancelled, and no verdict of another task leaves the breaker open then. *)
THEOREM StoreAlwaysCloses == Spec => StoreClosesBreaker
<1>1. IInv /\ [Next]_vars =>
        [\A c \in Callers :
           pc[c] = "stored" /\ pc'[c] = "idle" /\ ~Crash => state' = "Closed"]_vars
  BY StoredReturns
<1> QED
  BY <1>1, Invariance, PTL DEF Spec, StoreClosesBreaker

-----------------------------------------------------------------------------
(* The provider calls its breaker as CircuitBreaker says callers do: every *)
(* behaviour of the provider is one of the breaker (its safety part).      *)
THEOREM RefinesBreaker == Spec => Breaker!Spec
<1>1. Init => Breaker!Init
  BY DEF Init
<1>2. [Next]_vars => [Breaker!Next]_(Breaker!vars)
  BY BreakerStep DEF breakerVars, Breaker!vars
<1> QED
  BY <1>1, <1>2, PTL DEF Spec, Breaker!Spec

-----------------------------------------------------------------------------
(* Why a refresh ends, as far as single steps tell.                        *)

(* The most steps a refresh can still take: three for each attempt that    *)
(* fails and is repeated, four for one that succeeds.                      *)
StepsLeft(c) ==
  CASE pc[c] = "idle" -> 0
    [] pc[c] \in {"stored", "failed"} -> 1
    [] pc[c] = "store" -> 2
    [] pc[c] = "backoff" -> 3 * (Attempts - attempt[c]) + 2
    [] pc[c] = "receive" -> 3 * (Attempts - attempt[c]) + 3
    [] pc[c] = "send" -> 3 * (Attempts - attempt[c]) + 4

FewStepsLeft ==
  \A c \in Callers :
    /\ StepsLeft(c) \in 0 .. 3 * Attempts + 1
    /\ pc[c] = "idle" <=> StepsLeft(c) = 0

(* Each step is one less, and nothing else prolongs a refresh.             *)
NeverProlonged ==
  \A c \in Callers :
    /\ Step(c) => StepsLeft(c)' < StepsLeft(c)
    /\ pc[c] # "idle" => StepsLeft(c)' <= StepsLeft(c)

LEMMA StepsLeftBounds == IInv => FewStepsLeft
<1> SUFFICES ASSUME IInv, NEW c \in Callers
             PROVE  /\ StepsLeft(c) \in 0 .. 3 * Attempts + 1
                    /\ pc[c] = "idle" <=> StepsLeft(c) = 0
  BY DEF FewStepsLeft
<1>1. pc[c] \in Label /\ attempt[c] \in 1 .. Attempts /\ Attempts \in Nat
  BY AttemptsPositive DEF IInv, TypeOK
<1> QED
  BY <1>1 DEF StepsLeft, Label, Awaiting

LEMMA StepProgress ==
  ASSUME IInv, NEW c \in Callers, Step(c)
  PROVE  StepsLeft(c)' < StepsLeft(c)
<1>1. /\ pc \in [Callers -> Label] /\ attempt \in [Callers -> 1 .. Attempts]
      /\ Attempts \in Nat /\ Attempts' = Attempts
  BY AttemptsPositive DEF IInv, TypeOK, Attempts
<1>2. CASE Respond(c) \/ AttemptOk(c) \/ Store(c)
  BY <1>1, <1>2 DEF Respond, AttemptOk, Store, Goto, StepsLeft
<1>3. CASE AttemptErr(c)
  BY <1>1, <1>3 DEF AttemptErr, Goto, StepsLeft
<1>4. CASE Retry(c)
  BY <1>1, <1>4 DEF Retry, Goto, StepsLeft, IInv, AttemptLeft
<1>5. CASE ReturnOk(c) \/ ReturnErr(c)
  BY <1>1, <1>5 DEF ReturnOk, ReturnErr, Goto, StepsLeft
<1> QED
  BY <1>2, <1>3, <1>4, <1>5 DEF Step

LEMMA OthersKeepSteps == IInv /\ [Next]_vars => [NeverProlonged]_vars
<1> SUFFICES ASSUME IInv, Next, NEW c \in Callers, pc[c] # "idle"
             PROVE  StepsLeft(c)' <= StepsLeft(c)
  <2>1. ASSUME IInv, NEW d \in Callers, Step(d) PROVE StepsLeft(d)' < StepsLeft(d)
    BY <2>1, StepProgress
  <2> QED
    BY <2>1 DEF NeverProlonged
<1>1. /\ pc \in [Callers -> Label] /\ attempt \in [Callers -> 1 .. Attempts]
      /\ Attempts \in Nat /\ Attempts' = Attempts /\ StepsLeft(c) \in Nat
  BY AttemptsPositive, StepsLeftBounds DEF IInv, TypeOK, Attempts, FewStepsLeft
<1>2. CASE Step(c)
  <2>1. StepsLeft(c)' < StepsLeft(c)
    BY <1>2, StepProgress
  <2>2. pc' \in [Callers -> Label] /\ attempt' \in [Callers -> 1 .. Attempts]
    BY NextInvariant, <1>1 DEF IInv, TypeOK
  <2>3. StepsLeft(c)' \in Int
    BY <1>1, <2>2 DEF StepsLeft, Label, Awaiting
  <2> QED
    BY <1>1, <2>1, <2>3
<1>3. CASE pc'[c] = pc[c] /\ attempt'[c] = attempt[c]
  <2>1. StepsLeft(c)' = StepsLeft(c)
    BY <1>1, <1>3 DEF StepsLeft
  <2> QED
    BY <1>1, <2>1
<1>4. CASE pc'[c] = "idle"
  <2>1. StepsLeft(c)' = 0
    BY <1>4 DEF StepsLeft
  <2> QED
    BY <1>1, <2>1
<1>5. Step(c) \/ (pc'[c] = pc[c] /\ attempt'[c] = attempt[c]) \/ pc'[c] = "idle"
  <2>1. ASSUME NEW d \in Callers, d # c, Refresh(d) \/ Step(d) \/ Cancel(d)
        PROVE  pc'[c] = pc[c] /\ attempt'[c] = attempt[c]
    BY <1>1, <2>1 DEF Refresh, Step, Cancel, Respond, AttemptOk, AttemptErr, Retry, Store,
      ReturnOk, ReturnErr, Goto, Forget
  <2>2. ~Refresh(c)
    BY DEF Refresh
  <2>3. ASSUME Cancel(c) PROVE pc'[c] = "idle"
    BY <1>1, <2>3 DEF Cancel
  <2>4. ASSUME Rotate \/ NetChange \/ Tick PROVE UNCHANGED <<pc, attempt>>
    BY <2>4 DEF Rotate, NetChange, Tick, localVars
  <2>5. ASSUME Crash PROVE pc'[c] = "idle"
    BY <2>5 DEF Crash
  <2> QED
    BY <2>1, <2>2, <2>3, <2>4, <2>5 DEF Next
<1> QED
  BY <1>2, <1>3, <1>4, <1>5

(* The steps behind RefreshEnds: however the network fails, a refresh that *)
(* was admitted is over after at most 3 * max_attempts + 1 steps of its    *)
(* own, and nothing any other task does gives it more to do.               *)
THEOREM RefreshRunsOut == Spec => []FewStepsLeft /\ [][NeverProlonged]_vars
  BY Invariance, StepsLeftBounds, OthersKeepSteps, PTL DEF Spec
=============================================================================
