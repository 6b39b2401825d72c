---------------------------- MODULE RateLimiter ----------------------------
(***************************************************************************)
(* The limiter every GraphQL mutation asks first (edgeauth-resilience,     *)
(* rate_limit.rs; schema.rs, rate_limit), as build_state sets it up.       *)
(*                                                                         *)
(* The wrapper keeps no count of permits: governor's cell is the time at   *)
(* which the bucket will be full again.  level is how far that lies ahead  *)
(* of the clock, in clock units; a call adds one interval to it, and it    *)
(* runs down as time passes.  check() is one compare-and-swap, hence one   *)
(* action, whichever mutation calls it.                                    *)
(***************************************************************************)
EXTENDS Integers

CONSTANTS
  Second,      \* clock units (nanoseconds in governor) of a second
  Configured,  \* values of --rate-limit-rps to start the node with (a u32)
  Window       \* bound: length of the observed window

(* Above a permit per clock unit governor's interval would be 0.           *)
ASSUME RateAssumption ==
  /\ Second \in Nat \ {0}
  /\ Configured \subseteq 0 .. Second
  /\ Window \in Nat

VARIABLES
  rate,     \* permits per second, and the burst
  level,    \* until the bucket is full again
  answer,   \* what the last try_acquire returned
  count,    \* history: calls admitted in the observed window
  elapsed   \* history: how long it has been open

vars == <<rate, level, answer, count, elapsed>>

(* RateLimiter::per_second(rate_limit_rps.max(1)): it panics on 0.         *)
NodeRate(rps) == IF rps = 0 THEN 1 ELSE rps

(* Quota::per_second: one permit per interval, and rate at once.           *)
Interval == Second \div rate

BurstAbove == (rate + 1) * Interval   \* mutant: a burst of one permit more

Capacity == rate * Interval

Init ==
  /\ \E rps \in Configured : rate = NodeRate(rps)
  /\ level = 0
  /\ answer = "none"
  /\ count = 0
  /\ elapsed = 0

Admissible == level + Interval <= Capacity

(* check() returns Ok and the mutation goes on.                            *)
Admit ==
  /\ Admissible
  /\ level' = level + Interval
  /\ answer' = "ok"
  /\ count' = count + 1
  /\ UNCHANGED <<rate, elapsed>>

RefuseCharged ==   \* mutant: a refused call sets the bucket back
  /\ ~Admissible
  /\ level' = Capacity
  /\ answer' = "limited"
  /\ UNCHANGED <<rate, count, elapsed>>

(* Err(RateLimited): the mutation returns "rate limit exceeded", and       *)
(* neither the limiter nor the service changes.                            *)
Refuse ==
  /\ ~Admissible
  /\ answer' = "limited"
  /\ UNCHANGED <<rate, level, count, elapsed>>

LevelLater == IF level = 0 THEN 0 ELSE level - 1

(* A clock unit passes; at its end the observed window starts anew.        *)
Tick ==
  /\ level' = LevelLater
  /\ IF elapsed < Window
       THEN elapsed' = elapsed + 1 /\ UNCHANGED count
       ELSE elapsed' = 0 /\ count' = 0
  /\ UNCHANGED <<rate, answer>>

(* History: a window opens here.                                           *)
Observe ==
  /\ count' = 0
  /\ elapsed' = 0
  /\ UNCHANGED <<rate, level, answer>>

Next == Admit \/ Refuse \/ Tick \/ Observe

Spec == Init /\ [][Next]_vars

(* The monotonic clock runs; nothing is assumed of the callers.            *)
FairSpec == Spec /\ WF_vars(Tick)

-----------------------------------------------------------------------------
(* Type invariant: whatever rate is configured, the limiter can be built   *)
(* and the bucket never owes more than its capacity.                       *)
TypeOK ==
  /\ rate \in 1 .. Second
  /\ level \in 0 .. Capacity
  /\ answer \in {"none", "ok", "limited"}
  /\ count \in Nat
  /\ elapsed \in 0 .. Window

(* However calls are spread, a window of any length admits at most the     *)
(* burst and one call per interval of its length: after a pause as many as *)
(* twice the configured rate within one second, and never more.            *)
AnyWindow == count * Interval <= elapsed + rate * Interval

(* A limiter that refuses admits again, however many calls it refuses in   *)
(* the meantime.                                                           *)
RefusalsEnd == ~Admissible ~> Admissible

(* The time ahead is a token bucket: a permit is missing for each interval *)
(* of it that has begun, refused calls find no permit, and no call takes   *)
(* one that is not there.                                                  *)
Bucket == INSTANCE TokenBucket WITH
  capacity <- rate,
  permits <- (Capacity - level) \div Interval

ImplementsBucket == Bucket!Spec
=============================================================================
