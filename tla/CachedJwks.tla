----------------------------- MODULE CachedJwks -----------------------------
(***************************************************************************)
(* CachedJwksProvider (edgeauth-infra, jwks.rs): a cached key set that     *)
(* concurrent refreshes replace from a remote endpoint, behind a circuit   *)
(* breaker, a bounded number of attempts and a timeout on each.            *)
(*                                                                         *)
(* Two kinds of task call refresh: the background refresher spawned at     *)
(* startup (startup.rs), whose first refresh runs before the server        *)
(* listens, and GraphQL refreshJwks requests (schema.rs), over HTTP or a   *)
(* WebSocket, whose future is dropped at an await point when the client    *)
(* leaves (or, were attempts given more time than the default, when the    *)
(* HTTP timeout strikes).  refresh takes no lock across its awaits, so     *)
(* refreshes overlap freely; the breaker's steps are CircuitBreaker's.     *)
(*                                                                         *)
(* A key set is the number of its publication at the endpoint; 0 is the    *)
(* local key the cache is seeded with.                                     *)
(***************************************************************************)
EXTENDS Integers

CONSTANTS
  Callers,           \* the background refresher and the API requests
  Refresher,         \* the background refresher
  FailureThreshold,  \* BreakerConfig::failure_threshold
  OpenDuration,      \* BreakerConfig::open_duration, in clock ticks
  MaxAttempts,       \* RetryPolicy::max_attempts (u32, may be 0)
  MaxVersion         \* bound: key sets the endpoint ever publishes

ASSUME RefresherAssumption == Refresher \in Callers
ASSUME ConfigAssumption ==
  /\ FailureThreshold \in Nat
  /\ OpenDuration \in Nat
  /\ MaxAttempts \in Nat
  /\ MaxVersion \in Nat \ {0}

VARIABLES
  failures, state, since, call, streak,  \* the breaker: see CircuitBreaker
  cache,      \* the key set current() returns
  serving,    \* the HTTP server is accepting requests
  published,  \* the key set the endpoint publishes now
  net,        \* "good": no attempt fails; "bad": any may
  pc,         \* where each caller is in refresh()
  attempt,    \* the attempt of retry() a caller is in
  body,       \* the key set in the last response a caller was sent
  began,      \* history: what was published when a caller's attempt began
  overlap     \* history: the refreshes under way when cache was last stored

breakerVars == <<failures, state, since, call, streak>>
remoteVars == <<published, net>>
localVars == <<pc, attempt, body, began>>
vars == <<breakerVars, cache, serving, remoteVars, localVars, overlap>>

Breaker == INSTANCE CircuitBreaker

Seed == 0
Version == 0..MaxVersion

(* let attempts = policy.max_attempts.max(1)                               *)
Attempts == IF MaxAttempts = 0 THEN 1 ELSE MaxAttempts

AwaitingLock ==   \* mutant: the cache behind an async lock
  {"send", "receive", "backoff", "store", "stored"}

(* The await points of refresh: the request is out, the response is on its *)
(* way, retry sleeps.  The other labels are reached and left in one poll.  *)
Awaiting == {"send", "receive", "backoff"}
Label == {"idle", "store", "stored", "failed"} \union Awaiting

Busy == {c \in Callers : pc[c] # "idle"}

Goto(c, from, to) == pc[c] = from /\ pc' = [pc EXCEPT ![c] = to]

(* refresh returns or is dropped: its locals are gone.                     *)
Forget(c) ==
  /\ attempt' = [attempt EXCEPT ![c] = 1]
  /\ body' = [body EXCEPT ![c] = Seed]
  /\ began' = [began EXCEPT ![c] = Seed]
  /\ overlap' = overlap \ {c}

-----------------------------------------------------------------------------
(* build_state: the cache holds the local key, the breaker is new; the     *)
(* server does not listen yet.                                             *)
Init ==
  /\ Breaker!Init
  /\ cache = Seed
  /\ serving = FALSE
  /\ published = 1
  /\ net \in {"good", "bad"}
  /\ pc = [c \in Callers |-> "idle"]
  /\ attempt = [c \in Callers |-> 1]
  /\ body = [c \in Callers |-> Seed]
  /\ began = [c \in Callers |-> Seed]
  /\ overlap = {}

(* refresh(): ask the breaker; Err(CircuitOpen) returns at once, otherwise *)
(* the first attempt starts.  API requests exist only once the server      *)
(* listens.                                                                *)
Refresh(c) ==
  /\ pc[c] = "idle"
  /\ c = Refresher \/ serving
  /\ Breaker!Acquire(c)
  /\ IF call'[c] \in Breaker!Running
       THEN /\ pc' = [pc EXCEPT ![c] = "send"]
            /\ attempt' = [attempt EXCEPT ![c] = 1]
            /\ began' = [began EXCEPT ![c] = published]
       ELSE UNCHANGED <<pc, attempt, began>>
  /\ UNCHANGED <<cache, serving, remoteVars, body, overlap>>

(* The endpoint answers a request with the key set it publishes now; the   *)
(* answer may take long to arrive.                                         *)
Respond(c) ==
  /\ Goto(c, "send", "receive")
  /\ body' = [body EXCEPT ![c] = published]
  /\ UNCHANGED <<breakerVars, cache, serving, remoteVars, attempt, began, overlap>>

(* fetch_once returns Ok within the timeout, and retry returns its value.  *)
AttemptOk(c) ==
  /\ Goto(c, "receive", "store")
  /\ UNCHANGED <<breakerVars, cache, serving, remoteVars, attempt, body, began, overlap>>

HasOneMoreAttempt(c) == attempt[c] <= Attempts   \* mutant: one too many

HasNextAttempt(c) == attempt[c] < Attempts

AttemptErrRecorded(c) ==   \* mutant: every attempt counts with the breaker
  /\ net = "bad"
  /\ Goto(c, "send", IF HasNextAttempt(c) THEN "backoff" ELSE "failed")
  /\ failures' = failures + 1
  /\ UNCHANGED <<state, since, call, streak, cache, serving, remoteVars>>
  /\ UNCHANGED <<attempt, body, began, overlap>>

(* The attempt fails: connection, HTTP status, body, decoding or timeout.  *)
(* retry sleeps before the next attempt, or gives up after the last.       *)
AttemptErr(c) ==
  /\ net = "bad"
  /\ \E from \in {"send", "receive"} :
       Goto(c, from, IF HasNextAttempt(c) THEN "backoff" ELSE "failed")
  /\ UNCHANGED <<breakerVars, cache, serving, remoteVars, attempt, body, began, overlap>>

RetryTakesLate(c) ==   \* mutant: takes the late response of an attempt given up
  /\ Goto(c, "backoff", IF body[c] = Seed THEN "send" ELSE "receive")
  /\ attempt' = [attempt EXCEPT ![c] = @ + 1]
  /\ began' = [began EXCEPT ![c] = published]
  /\ UNCHANGED <<breakerVars, cache, serving, remoteVars, body, overlap>>

RetryForever(c) ==   \* mutant: the attempt is not counted
  /\ Goto(c, "backoff", "send")
  /\ began' = [began EXCEPT ![c] = published]
  /\ UNCHANGED <<breakerVars, cache, serving, remoteVars, attempt, body, overlap>>

(* The backoff sleep is over.  What the last attempt was sent is lost with *)
(* its future: the next one makes a request of its own.                    *)
Retry(c) ==
  /\ Goto(c, "backoff", "send")
  /\ attempt' = [attempt EXCEPT ![c] = @ + 1]
  /\ began' = [began EXCEPT ![c] = published]
  /\ UNCHANGED <<breakerVars, cache, serving, remoteVars, body, overlap>>

(* *self.cache.write() = jwks                                              *)
Store(c) ==
  /\ Goto(c, "store", "stored")
  /\ cache' = body[c]
  /\ overlap' = Busy \ {c}
  /\ UNCHANGED <<breakerVars, serving, remoteVars, attempt, body, began>>

(* The server starts listening once the refresher's first refresh is over, *)
(* whether it succeeded or not.                                            *)
Listen(c) == serving' = (serving \/ c = Refresher)

(* self.breaker.record_success(); refresh returns Ok.                      *)
ReturnOk(c) ==
  /\ Goto(c, "stored", "idle")
  /\ Breaker!RecordSuccess(c)
  /\ Listen(c)
  /\ Forget(c)
  /\ UNCHANGED <<cache, remoteVars>>

ReturnErrUnrecorded(c) ==   \* mutant: the failure is returned with `?`
  /\ Goto(c, "failed", "idle")
  /\ Listen(c)
  /\ Forget(c)
  /\ UNCHANGED <<breakerVars, cache, remoteVars>>

ReturnErrToSeed(c) ==   \* mutant: a failure falls back to the seed key
  /\ Goto(c, "failed", "idle")
  /\ Breaker!RecordFailure(c)
  /\ Listen(c)
  /\ Forget(c)
  /\ cache' = Seed
  /\ UNCHANGED remoteVars

(* self.breaker.record_failure(); refresh returns the last error.          *)
ReturnErr(c) ==
  /\ Goto(c, "failed", "idle")
  /\ Breaker!RecordFailure(c)
  /\ Listen(c)
  /\ Forget(c)
  /\ UNCHANGED <<cache, remoteVars>>

(* The future of an API request is dropped, which can only happen where it *)
(* awaits.  Neither the cache nor the breaker hears of it.                 *)
Cancel(c) ==
  /\ pc[c] \in Awaiting
  /\ pc' = [pc EXCEPT ![c] = "idle"]
  /\ Breaker!Drop(c)
  /\ Forget(c)
  /\ UNCHANGED <<cache, serving, remoteVars>>

(* The endpoint publishes its next key set.                                *)
Rotate ==
  /\ published < MaxVersion
  /\ published' = published + 1
  /\ UNCHANGED <<breakerVars, cache, serving, net, localVars, overlap>>

(* The network or the endpoint starts or stops failing.                    *)
NetChange ==
  /\ net' \in {"good", "bad"} \ {net}
  /\ UNCHANGED <<breakerVars, cache, serving, published, localVars, overlap>>

Tick ==
  /\ Breaker!Tick
  /\ UNCHANGED <<cache, serving, remoteVars, localVars, overlap>>

(* The process dies and starts again; nothing of it is persisted.          *)
Crash ==
  /\ Breaker!Restart
  /\ cache' = Seed
  /\ serving' = FALSE
  /\ pc' = [c \in Callers |-> "idle"]
  /\ attempt' = [c \in Callers |-> 1]
  /\ body' = [c \in Callers |-> Seed]
  /\ began' = [c \in Callers |-> Seed]
  /\ overlap' = {}
  /\ UNCHANGED remoteVars

(* What a caller's refresh does once it was admitted.                      *)
Step(c) ==
  \/ Respond(c)
  \/ AttemptOk(c)
  \/ AttemptErr(c)
  \/ Retry(c)
  \/ Store(c)
  \/ ReturnOk(c)
  \/ ReturnErr(c)

Next ==
  \/ \E c \in Callers : Refresh(c) \/ Step(c) \/ Cancel(c)
  \/ Rotate
  \/ NetChange
  \/ Tick
  \/ Crash

Spec == Init /\ [][Next]_vars

(* The clock runs; the background loop calls refresh for ever; a refresh   *)
(* always ends, because each attempt has a timeout and attempts are        *)
(* limited.  Nothing is assumed of the API requests or of the endpoint.    *)
Fairness ==
  /\ WF_vars(Tick)
  /\ WF_vars(Refresh(Refresher))
  /\ WF_vars(Step(Refresher))

FairSpec == Spec /\ Fairness

-----------------------------------------------------------------------------
(* Type invariant of the provider.                                         *)
TypeOK ==
  /\ Breaker!TypeOK
  /\ cache \in Version
  /\ serving \in BOOLEAN
  /\ published \in Version \ {Seed}
  /\ net \in {"good", "bad"}
  /\ pc \in [Callers -> Label]
  /\ attempt \in [Callers -> 1..Attempts]
  /\ body \in [Callers -> Version]
  /\ began \in [Callers -> Version]
  /\ overlap \subseteq Busy

(* The breaker's view and the tasks' agree: a call is in flight exactly    *)
(* while its refresh is under way, so that every admission is settled by   *)
(* one verdict, or by a cancellation, on every path out of refresh().      *)
AdmittedIffBusy == \A c \in Callers : call[c] \in Breaker!Running <=> pc[c] # "idle"

(* However long a response is delayed and however often the attempt was    *)
(* repeated, what a refresh stores was published during its last attempt:  *)
(* never what an attempt was sent that it gave up (fetch_once, timed out). *)
StoresCurrentSet ==
  [][\A c \in Callers : Store(c) => began[c] <= cache' /\ cache' <= published]_vars

(* The cache falls back to an older key set only when the refresh storing  *)
(* it overlapped the one that stored the newer set: refreshes that do not  *)
(* overlap never undo each other.                                          *)
RegressesOnlyByOverlap ==
  [][cache' < cache /\ ~Crash => \E c \in overlap : Store(c)]_vars

(* A refresh that stored its key set closes the breaker before it ends: no *)
(* cancellation comes between the two.                                     *)
StoreClosesBreaker ==
  [][\A c \in Callers :
        pc[c] = "stored" /\ pc'[c] = "idle" /\ ~Crash => state' = "Closed"]_vars

(* Every refresh of the background task ends, whatever the network does.   *)
RefreshEnds == pc[Refresher] # "idle" ~> pc[Refresher] = "idle"

(* Once the endpoint stays healthy and the process stays up, the cached    *)
(* key set becomes the published one and remains so: no late response, no  *)
(* cancelled trial and no open breaker keeps the node on old keys.         *)
Converges ==
  <>[](net = "good" /\ serving) => <>[](cache = published)

(* The provider uses its breaker as CircuitBreaker says callers do.        *)
ImplementsBreaker == Breaker!FairSpec
=============================================================================
