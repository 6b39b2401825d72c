--------------------------- MODULE CircuitBreaker ---------------------------
(***************************************************************************)
(* The circuit breaker of edgeauth-resilience (breaker.rs) and the calls   *)
(* it guards.                                                              *)
(*                                                                         *)
(* The breaker is one mutex around a failure counter and a three-valued    *)
(* state, so each of its methods is one atomic step.  Between acquire and  *)
(* record_* a call holds no lock: any number of calls may be running, and  *)
(* their verdicts arrive in any order, also long after the breaker has     *)
(* changed state under them.  A caller asks acquire once, and an admitted  *)
(* call either records one verdict or is dropped (its future is cancelled) *)
(* and records none.                                                       *)
(***************************************************************************)
EXTENDS Integers

CONSTANTS
  Callers,           \* tasks that may call the guarded dependency
  Refresher,         \* the caller that never stops calling (startup.rs)
  FailureThreshold,  \* BreakerConfig::failure_threshold (u32, may be 0)
  OpenDuration       \* BreakerConfig::open_duration, in clock ticks

ASSUME RefresherAssumption == Refresher \in Callers
ASSUME ConfigAssumption == FailureThreshold \in Nat /\ OpenDuration \in Nat

VARIABLES
  failures,  \* Inner::failures
  state,     \* Inner::state without its payload
  since,     \* clock.now() - opened_at, capped at OpenDuration; state Open
             \* alone reads it, it keeps counting in the other states
  call,      \* what each caller got from acquire and has not yet settled
  streak     \* history: failures recorded since the last success, capped

vars == <<failures, state, since, call, streak>>

CircuitState == {"Closed", "Open", "HalfOpen"}

(* A running call was admitted by a closed breaker, a trial by a half-open *)
(* one; a rejected caller holds Err(CircuitOpen).                          *)
Running == {"running", "trial"}
CallState == {"idle", "rejected"} \union Running

(* The failure that trips a closed breaker; a threshold of 0 acts like 1.  *)
TripAt == IF FailureThreshold = 0 THEN 1 ELSE FailureThreshold

InFlight == {c \in Callers : call[c] \in Running}

(* clock.now().duration_since(opened_at) >= config.open_duration           *)
Cooled == since >= OpenDuration

-----------------------------------------------------------------------------
(* CircuitBreaker::new; no call is running.  The breaker has never opened, *)
(* so the time since it did is beyond every cooldown.                      *)
Init ==
  /\ failures = 0
  /\ state = "Closed"
  /\ since = OpenDuration
  /\ call = [c \in Callers |-> "idle"]
  /\ streak = 0

(* acquire: a closed breaker admits everyone, ...                          *)
AdmitClosed(c) ==
  /\ state = "Closed"
  /\ call' = [call EXCEPT ![c] = "running"]
  /\ state' = state

AdmitNoMoreTrials(c) == FALSE   \* mutant: the first trial is the only one

(* ... so does a half-open one, ...                                        *)
AdmitHalfOpen(c) ==
  /\ state = "HalfOpen"
  /\ call' = [call EXCEPT ![c] = "trial"]
  /\ state' = state

AdmitOpen(c) ==   \* mutant: the cooldown is not checked
  /\ state = "Open"
  /\ state' = "HalfOpen"
  /\ call' = [call EXCEPT ![c] = "trial"]

(* ... an open one turns half-open for the first caller after the          *)
(* cooldown, ...                                                           *)
AdmitCooled(c) ==
  /\ state = "Open"
  /\ Cooled
  /\ state' = "HalfOpen"
  /\ call' = [call EXCEPT ![c] = "trial"]

(* ... and before that it answers Err(CircuitOpen).                        *)
Reject(c) ==
  /\ state = "Open"
  /\ ~Cooled
  /\ call' = [call EXCEPT ![c] = "rejected"]
  /\ state' = state

Acquire(c) ==
  /\ call[c] \notin Running
  /\ \/ AdmitClosed(c)
     \/ AdmitHalfOpen(c)
     \/ AdmitCooled(c)
     \/ Reject(c)
  /\ UNCHANGED <<failures, since, streak>>

Settle(c) ==
  /\ call[c] \in Running
  /\ call' = [call EXCEPT ![c] = "idle"]

RecordSuccessKeepsCount(c) ==   \* mutant: only record_failure's state is undone
  /\ Settle(c)
  /\ state' = "Closed"
  /\ streak' = 0
  /\ UNCHANGED <<failures, since>>

(* record_success: whatever the state, the counter clears and the breaker  *)
(* closes.                                                                 *)
RecordSuccess(c) ==
  /\ Settle(c)
  /\ failures' = 0
  /\ state' = "Closed"
  /\ streak' = 0
  /\ UNCHANGED since

(* State Open { opened_at: clock.now() }                                   *)
Trip == state' = "Open" /\ since' = 0

TripsEarly == failures + 2 >= FailureThreshold   \* mutant: counts from one
TripsLate == failures >= FailureThreshold        \* mutant: tests before counting

(* failures saturates at u32::MAX in the code, which is no bound here: the *)
(* counter never passes the threshold, itself a u32.                       *)
Trips == failures + 1 >= FailureThreshold

RestartCooldown == Trip /\ UNCHANGED failures   \* mutant: every failure reopens

IgnoreFailure == UNCHANGED <<failures, state, since>>

(* record_failure by the state it finds: a half-open breaker reopens, a    *)
(* closed one counts and may trip, an open one ignores it.                 *)
RecordFailure(c) ==
  /\ Settle(c)
  /\ streak' = IF streak < TripAt THEN streak + 1 ELSE streak
  /\ \/ state = "HalfOpen" /\ Trip /\ UNCHANGED failures
     \/ /\ state = "Closed"
        /\ failures' = failures + 1
        /\ IF Trips THEN Trip ELSE UNCHANGED <<state, since>>
     \/ state = "Open" /\ IgnoreFailure

(* The future of an admitted call is dropped at an await point: no verdict *)
(* is recorded.  The background task is never cancelled.                   *)
Drop(c) ==
  /\ c # Refresher
  /\ Settle(c)
  /\ UNCHANGED <<failures, state, since, streak>>

(* The monotonic clock advances.                                           *)
Tick ==
  /\ since < OpenDuration
  /\ since' = since + 1
  /\ UNCHANGED <<failures, state, call, streak>>

(* The process dies (release builds abort on panic) and starts again: the  *)
(* breaker and every call live in memory only.                             *)
Restart ==
  /\ failures' = 0
  /\ state' = "Closed"
  /\ since' = OpenDuration
  /\ call' = [c \in Callers |-> "idle"]
  /\ streak' = 0

Next ==
  \/ \E c \in Callers :
       \/ Acquire(c)
       \/ RecordSuccess(c)
       \/ RecordFailure(c)
       \/ Drop(c)
  \/ Tick
  \/ Restart

Spec == Init /\ [][Next]_vars

(* Time passes, the background refresher keeps asking, and each of its     *)
(* calls ends, because attempts are limited in number and in time.         *)
Fairness ==
  /\ WF_vars(Tick)
  /\ WF_vars(Acquire(Refresher))
  /\ WF_vars(RecordSuccess(Refresher) \/ RecordFailure(Refresher))

FairSpec == Spec /\ Fairness

-----------------------------------------------------------------------------
(* Type invariant of the breaker and its calls.                            *)
TypeOK ==
  /\ failures \in 0..TripAt
  /\ state \in CircuitState
  /\ since \in 0..OpenDuration
  /\ call \in [Callers -> CallState]
  /\ streak \in 0..TripAt

(* "Consecutive failures in the closed state": a closed breaker's counter  *)
(* is exactly the number of failures since the last success, however many  *)
(* overlapping calls recorded them and whichever cycle of open and         *)
(* half-open lies in between, and it is short of the threshold.            *)
ClosedCountsStreak ==
  state = "Closed" => failures = streak /\ streak < TripAt

(* A half-open breaker has seen its whole cooldown pass since it last      *)
(* opened, whatever late verdicts arrived meanwhile.                       *)
HalfOpenAfterCooldown == state = "HalfOpen" => Cooled

(* A closed breaker opens only on a full run of failures, never on a       *)
(* failure that a success interrupted.                                     *)
TripsOnlyOnStreak ==
  [][state = "Closed" /\ state' = "Open" => streak' = TripAt]_vars

(* While the breaker is open, failures of calls admitted earlier neither   *)
(* restart nor prolong the cooldown.                                       *)
CooldownNotProlonged ==
  [][state = "Open" /\ state' = "Open" => since' >= since]_vars

(* Whatever calls are dropped without a verdict, and whenever, the breaker *)
(* goes on admitting calls: a lost trial does not wedge it half-open.      *)
NeverWedged == []<>(InFlight # {})

-----------------------------------------------------------------------------
(* What the comments of breaker.rs say, and overlapping calls refute.      *)

(* "A single trial call is permitted to probe recovery." (HalfOpen)        *)
SingleTrial ==
  state = "HalfOpen" =>
    \A c, d \in Callers : call[c] = "trial" /\ call[d] = "trial" => c = d

(* "How long the breaker stays open before allowing a trial call."         *)
(* (open_duration) -- short of a restart of the process.                   *)
StaysOpen ==
  [][state = "Open" /\ ~Cooled /\ ~Restart => state' = "Open"]_vars
=============================================================================
