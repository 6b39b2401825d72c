-------------------------------- MODULE Node --------------------------------
(***************************************************************************)
(* A serving node over time (edgeauth-node, startup.rs, with retry.rs): it *)
(* refreshes its keys once, listens, refreshes them periodically and on    *)
(* request, and drains when it is told to stop.  CachedJwks says what a    *)
(* refresh does to the keys and the breaker; here it is what it costs in   *)
(* time: attempts with a timeout and the sleeps between them, against the  *)
(* period of the refresher, the HTTP timeout and a shutdown.               *)
(*                                                                         *)
(* Time passes in units, and never past a timer that is due: a task whose  *)
(* timer fired runs before the next unit.                                  *)
(***************************************************************************)
EXTENDS Integers

CONSTANTS
  Requests,   \* refreshJwks mutations, over HTTP or a WebSocket
  Refresher,  \* the background task
  Timeout,    \* CachedJwksProvider::per_attempt_timeout
  Policies,   \* retry policies, RetryPolicy::default() among them
  U32, U64,   \* 2^32 and 2^64 in the code
  Periods,    \* values of --jwks-refresh-secs
  Floor,      \* the least period, 10 s
  Http,       \* the limit of TimeoutLayer
  Delays      \* what it may take to read the body of a request

Tasks == Requests \union {Refresher}

Least(m, n) == IF m <= n THEN m ELSE n
Greatest(m, n) == IF m >= n THEN m ELSE n

-----------------------------------------------------------------------------
(* RetryPolicy.                                                            *)

Wrapped(n, width) == n % width   \* mutant: wrapping_pow

(* What does not fit its type becomes the largest value that does.         *)
Saturated(n, width) == IF n \in 0 .. width - 1 THEN n ELSE width - 1

(* The powers of m.                                                        *)
Powers(m) == LET f[k \in Nat] == IF k = 0 THEN 1 ELSE m * f[k - 1] IN f

(* backoff_for: the power saturates as a u32, the product in milliseconds  *)
(* fits a u128, and what is left after the cap is cut down to a u64.       *)
BackoffFor(p, k) ==
  Least(p.initial * Saturated(Powers(p.multiplier)[k], U32), p.max) % U64

(* policy.max_attempts.max(1)                                              *)
Attempts(p) == Greatest(p.attempts, 1)

(* The first k sleeps of a refresh, together.                              *)
Sleeps(p) == LET s[k \in Nat] == IF k = 0 THEN 0 ELSE s[k - 1] + BackoffFor(p, k - 1) IN s

(* Until the end of attempt n, if each runs into its timeout.              *)
Longest(p, n) == n * Timeout + Sleeps(p)[n - 1]

(* The constants of the code fit each other: the slowest refresh under     *)
(* RetryPolicy::default(), which no caller replaces (3 * 3 s + 50 ms + 100 *)
(* ms), is over within the least period.                                   *)
ASSUME PolicyAssumption ==
  \A p \in Policies :
    /\ p.attempts \in Nat /\ p.initial \in Nat /\ p.multiplier \in Nat /\ p.max \in Nat
    /\ Longest(p, Attempts(p)) <= Floor

(* A refresh that begins with its request gets the time of the slowest one *)
(* (9.15 s) before the HTTP timeout (15 s) drops it.                       *)
ASSUME HttpAssumption == \A p \in Policies : Longest(p, Attempts(p)) < Http

ASSUME NodeAssumption ==
  /\ Refresher \notin Requests
  /\ U32 \in Nat \ {0} /\ U64 \in Nat \ {0}
  /\ Timeout \in Nat \ {0} /\ Floor \in Nat \ {0} /\ Http \in Nat
  /\ Periods \subseteq Nat
  /\ Delays \subseteq 0 .. Http

VARIABLES
  phase,    \* "booting", "serving", "draining" or "stopped"
  policy,   \* the provider's retry policy
  period,   \* between two ticks of the refresher
  due,      \* time to its next tick; negative when it is overdue
  pc,       \* where each task is in refresh()
  attempt,  \* the attempt of retry() it is in
  left,     \* time left of its timeout or sleep
  spent,    \* time since its refresh began
  late,     \* time from the request's arrival to that
  sockets,  \* the requests that came over a WebSocket
  drain     \* history: time since the signal

localVars == <<pc, attempt, left, spent, late, sockets>>
vars == <<phase, policy, period, due, localVars, drain>>

Up == {"serving", "draining"}

Running(c) == pc[c] \in {"attempt", "backoff"}   \* in refresh()

Busy(c) == Running(c) \/ pc[c] = "reading"

NominalPeriod(secs) == secs   \* mutant: without max(10)

PeriodOf(secs) == Greatest(secs, Floor)

(* serve: a new provider, and the refresh it awaits before it listens.     *)
Boot ==
  /\ phase' = "booting"
  /\ due' = period
  /\ pc' = [c \in Tasks |-> IF c = Refresher THEN "attempt" ELSE "idle"]
  /\ attempt' = [c \in Tasks |-> 1]
  /\ left' = [c \in Tasks |-> IF c = Refresher THEN Timeout ELSE 0]
  /\ spent' = [c \in Tasks |-> 0]
  /\ late' = [c \in Tasks |-> 0]
  /\ sockets' = {}
  /\ drain' = 0

Init ==
  /\ phase = "booting"
  /\ policy \in Policies
  /\ \E secs \in Periods : period = PeriodOf(secs)
  /\ due = period
  /\ pc = [c \in Tasks |-> IF c = Refresher THEN "attempt" ELSE "idle"]
  /\ attempt = [c \in Tasks |-> 1]
  /\ left = [c \in Tasks |-> IF c = Refresher THEN Timeout ELSE 0]
  /\ spent = [c \in Tasks |-> 0]
  /\ late = [c \in Tasks |-> 0]
  /\ sockets = {}
  /\ drain = 0

-----------------------------------------------------------------------------
(* A refresh.                                                              *)

Begin(c) ==
  /\ pc' = [pc EXCEPT ![c] = "attempt"]
  /\ left' = [left EXCEPT ![c] = Timeout]
  /\ UNCHANGED <<attempt, spent, late>>

(* It ends, or its future is dropped.                                      *)
End(c) ==
  /\ pc' = [pc EXCEPT ![c] = "idle"]
  /\ attempt' = [attempt EXCEPT ![c] = 1]
  /\ left' = [left EXCEPT ![c] = 0]
  /\ spent' = [spent EXCEPT ![c] = 0]
  /\ late' = [late EXCEPT ![c] = 0]
  /\ sockets' = sockets \ {c}

(* After the first one, the node listens, or cannot bind its address; the  *)
(* ticker starts, and its first tick is consumed.                          *)
Listen(c) ==
  IF phase = "booting" /\ c = Refresher
    THEN phase' \in {"serving", "stopped"} /\ due' = period
    ELSE UNCHANGED <<phase, due>>

Return(c) ==
  /\ End(c)
  /\ Listen(c)
  /\ UNCHANGED <<policy, period, drain>>

(* An attempt is answered in time, in its last instant at the latest.      *)
AttemptOk(c) == pc[c] = "attempt" /\ Return(c)

GiveUpNever(c) ==   \* mutant: a node that boots starts over until it has keys
  /\ pc[c] = "attempt"
  /\ attempt[c] >= Attempts(policy)
  /\ IF phase = "booting"
       THEN /\ attempt' = [attempt EXCEPT ![c] = 1]
            /\ left' = [left EXCEPT ![c] = Timeout]
            /\ spent' = [spent EXCEPT ![c] = 0]
            /\ UNCHANGED <<phase, policy, period, due, pc, late, sockets, drain>>
       ELSE Return(c)

(* It fails or times out, ...                                              *)
GiveUp(c) ==
  /\ pc[c] = "attempt"
  /\ attempt[c] >= Attempts(policy)
  /\ Return(c)

(* ... and unless it was the last, retry sleeps, ...                       *)
Backoff(c) ==
  /\ pc[c] = "attempt"
  /\ attempt[c] < Attempts(policy)
  /\ pc' = [pc EXCEPT ![c] = "backoff"]
  /\ left' = [left EXCEPT ![c] = BackoffFor(policy, attempt[c] - 1)]
  /\ UNCHANGED <<phase, policy, period, due, attempt, spent, late, sockets, drain>>

WakeUncounted(c) ==   \* mutant: the attempt is not counted
  /\ pc[c] = "backoff" /\ left[c] = 0
  /\ pc' = [pc EXCEPT ![c] = "attempt"]
  /\ left' = [left EXCEPT ![c] = Timeout]
  /\ UNCHANGED <<phase, policy, period, due, attempt, spent, late, sockets, drain>>

(* ... before it tries again.                                              *)
Wake(c) ==
  /\ pc[c] = "backoff" /\ left[c] = 0
  /\ pc' = [pc EXCEPT ![c] = "attempt"]
  /\ attempt' = [attempt EXCEPT ![c] = @ + 1]
  /\ left' = [left EXCEPT ![c] = Timeout]
  /\ UNCHANGED <<phase, policy, period, due, spent, late, sockets, drain>>

-----------------------------------------------------------------------------
(* The callers.                                                            *)

AcceptingAlways == phase \in Up   \* mutant: the listener outlives the signal

Accepting == phase = "serving"

(* A request arrives over HTTP, its body follows, ...                      *)
Request(c) ==
  /\ Accepting /\ ~Busy(c)
  /\ pc' = [pc EXCEPT ![c] = "reading"]
  /\ UNCHANGED <<phase, policy, period, due, attempt, left, spent, late, sockets, drain>>

(* ... and its resolver runs.  The breaker admits the refresh; one that it *)
(* refuses is over at once, like an attempt that succeeds at once.         *)
Resolve(c) ==
  /\ pc[c] = "reading" /\ late[c] \in Delays
  /\ Begin(c)
  /\ UNCHANGED <<phase, policy, period, due, sockets, drain>>

(* Or it is a message on a WebSocket.  The upgraded connection is a task   *)
(* of its own, outside TimeoutLayer and out of the drain's sight: it goes  *)
(* on until the process exits.                                             *)
Message(c) ==
  /\ phase \in Up /\ ~Busy(c)
  /\ Begin(c)
  /\ sockets' = sockets \union {c}
  /\ UNCHANGED <<phase, policy, period, due, drain>>

(* The client leaves, or its time is up: the future is dropped.            *)
Expired(c) == c \notin sockets /\ late[c] + spent[c] >= Http

ClientLeaves(c) ==
  /\ Busy(c) /\ ~Expired(c)
  /\ End(c)
  /\ UNCHANGED <<phase, policy, period, due, drain>>

HttpTimeout(c) ==
  /\ Busy(c) /\ Expired(c)
  /\ End(c)
  /\ UNCHANGED <<phase, policy, period, due, drain>>

(* The ticker ticks: the next tick is a period after the time this one was *)
(* due, so overdue ticks come at once.  The breaker admits the refresh ... *)
Periodic ==
  /\ phase \in Up /\ ~Busy(Refresher) /\ due <= 0
  /\ due' = due + period
  /\ Begin(Refresher)
  /\ UNCHANGED <<phase, policy, period, sockets, drain>>

(* ... or refuses it.                                                      *)
PeriodicRefused ==
  /\ phase \in Up /\ ~Busy(Refresher) /\ due <= 0
  /\ due' = due + period
  /\ UNCHANGED <<phase, policy, period, localVars, drain>>

-----------------------------------------------------------------------------
(* Ctrl-C drains a serving node.  The handler is installed when the server *)
(* first polls it: before that, the signal ends the process.               *)
Signal ==
  /\ phase = "serving"
  /\ phase' = "draining"
  /\ UNCHANGED <<policy, period, due, localVars, drain>>

Drained == phase = "draining" /\ \A c \in Requests \ sockets : ~Busy(c)

Dead ==
  /\ phase' = "stopped"
  /\ pc' = [c \in Tasks |-> "idle"]
  /\ attempt' = [c \in Tasks |-> 1]
  /\ left' = [c \in Tasks |-> 0]
  /\ spent' = [c \in Tasks |-> 0]
  /\ late' = [c \in Tasks |-> 0]
  /\ sockets' = {}
  /\ drain' = 0
  /\ UNCHANGED <<policy, period, due>>

Kill == phase = "booting" /\ Dead

(* The last HTTP request is answered: serve returns, and the runtime drops *)
(* the background task and the WebSockets wherever they are.               *)
Exit == Drained /\ Dead

Restart ==
  /\ phase = "stopped"
  /\ Boot
  /\ UNCHANGED <<policy, period>>

(* A unit of time passes if nothing is due.                                *)
TimerDue(c) ==
  \/ Running(c) /\ left[c] = 0
  \/ Busy(c) /\ c # Refresher /\ Expired(c)

Tick ==
  /\ phase # "stopped" /\ ~Drained
  /\ \A c \in Tasks : ~TimerDue(c)
  /\ phase \in Up /\ ~Busy(Refresher) => due > 0
  /\ due' = IF phase \in Up THEN due - 1 ELSE due
  /\ left' = [c \in Tasks |-> IF Running(c) THEN left[c] - 1 ELSE 0]
  /\ spent' = [c \in Tasks |-> IF Running(c) THEN spent[c] + 1 ELSE 0]
  /\ late' = [c \in Tasks |-> IF pc[c] = "reading" THEN late[c] + 1 ELSE late[c]]
  /\ drain' = IF phase = "draining" THEN drain + 1 ELSE 0
  /\ UNCHANGED <<phase, policy, period, pc, attempt, sockets>>

Refreshing(c) == AttemptOk(c) \/ GiveUp(c) \/ Backoff(c) \/ Wake(c)

Next ==
  \/ \E c \in Tasks : Refreshing(c)
  \/ \E c \in Requests : Request(c) \/ Resolve(c) \/ Message(c)
  \/ \E c \in Requests : ClientLeaves(c) \/ HttpTimeout(c)
  \/ Periodic \/ PeriodicRefused
  \/ Signal \/ Kill \/ Exit \/ Restart
  \/ Tick

Spec == Init /\ [][Next]_vars

(* Time passes, and what is due happens.  An attempt need not end before   *)
(* its timeout, a client need not leave and nobody need send a signal.     *)
Fairness ==
  /\ WF_vars(Tick)
  /\ \A c \in Tasks : WF_vars(TimerDue(c) /\ Refreshing(c))
  /\ \A c \in Requests : WF_vars(HttpTimeout(c))
  /\ WF_vars(Periodic \/ PeriodicRefused)
  /\ WF_vars(Exit)

FairSpec == Spec /\ Fairness

-----------------------------------------------------------------------------
TypeOK ==
  /\ phase \in Up \union {"booting", "stopped"}
  /\ policy \in Policies
  /\ period \in Nat
  /\ due \in Int
  /\ pc \in [Tasks -> {"idle", "reading", "attempt", "backoff"}]
  /\ attempt \in [Tasks -> Nat \ {0}]
  /\ left \in [Tasks -> Nat]
  /\ spent \in [Tasks -> Nat]
  /\ late \in [Tasks -> Nat]
  /\ sockets \subseteq Requests
  /\ drain \in Nat

(* The HTTP timeout never cuts off a refresh that was left the time of the *)
(* slowest one: the breaker, which hears nothing of a dropped call, gets   *)
(* its verdict (the timeouts of refresh() against that of build_router).   *)
NeverCutOff ==
  \A c \in Requests :
    Busy(c) /\ late[c] + Longest(policy, Attempts(policy)) < Http => ~Expired(c)

(* However slow the endpoint, no tick of the refresher is ever overdue, so *)
(* that none comes in a burst: period.max(10) leaves a refresh its time.   *)
OnSchedule == due >= 0

(* The sleeps are the exponential ones with the cap: what saturation and   *)
(* narrowing do to the numbers on the way never shows.                     *)
BackoffExact ==
  \A k \in 0 .. 4 :
    /\ policy.initial * (U32 - 1) >= policy.max
    /\ policy.max < U64
    => BackoffFor(policy, k) = Least(policy.initial * Powers(policy.multiplier)[k], policy.max)

(* However late in its life a request is when the node is told to stop,    *)
(* the drain takes no longer than the HTTP timeout.                        *)
DrainBounded == drain <= Http

(* Whatever the endpoint does, the node comes to listen or gives up; and   *)
(* whatever its requests wait for, a node that was told to stop does.      *)
PhasesEnd ==
  /\ phase = "booting" ~> phase # "booting"
  /\ phase = "draining" ~> phase = "stopped"
=============================================================================
