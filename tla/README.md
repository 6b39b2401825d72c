# EdgeAuth: formal models

EdgeAuth verifies access credentials (EdDSA JWTs and W3C verifiable
credentials) at the edge: a node holds a cached key set, decides requests
locally and refreshes the keys in the background. This directory models the
parts of it that carry state or decide something: TLA+ modules translated from
the Rust source under `src/`, TLC configurations that check them on small
instances, and TLAPS proofs that hold for every value of the constants.

Paths below are relative to `src/crates/`.

## 1. The system

    host / client ── GraphQL (edgeauth-api) ── EdgeVerifier (edgeauth-infra)
                          │                       │        │        │
                     RateLimiter              JwksProvider AuditSink Clock
                  (edgeauth-resilience)           │          │
                                           CachedJwksProvider  BroadcastAuditSink
                                            │     │     │         │
                                        cache  breaker  retry   subscriptions
    browser / plug-in ── edgeauth-wasm ── edgeauth-verifier (pure engine)

| component | state it keeps | operations | interacts with |
|---|---|---|---|
| circuit breaker (`edgeauth-resilience/src/breaker.rs`) | failure counter and Closed / Open / HalfOpen, one mutex | `acquire`, `record_success`, `record_failure` | called by every refresh; reads the monotonic clock |
| retry and timeout (`edgeauth-resilience/src/retry.rs`) | none; the attempt number of a running call | `retry`, `with_timeout`, `backoff_for` | wraps one HTTP fetch per attempt |
| JWKS provider (`edgeauth-infra/src/jwks.rs`) | the cached key set, one RwLock | `current`, `refresh` | breaker, retry, the remote endpoint |
| verification engine (`edgeauth-verifier`, `edgeauth-types`) | none | `verify_jwt`, `verify_credential` | given the key set, the policy and the time |
| EdgeVerifier service (`edgeauth-infra/src/service.rs`) | four relaxed atomic counters | `verify_jwt`, `verify_credential_json`, `refresh_jwks`, `stats` | provider, engine, clock, audit sink |
| audit stream (`edgeauth-infra/src/audit.rs`) | a broadcast ring of bounded capacity | `emit`, `subscribe` | fed by the service, read by GraphQL subscriptions |
| rate limiter (`edgeauth-resilience/src/rate_limit.rs`) | one token bucket (governor) | `try_acquire` | the three GraphQL mutations |
| GraphQL API (`edgeauth-api/src`) | none of its own | queries, mutations, the subscription | rate limiter, service, sink |
| wasm bindings (`edgeauth-wasm/src/lib.rs`) | none | `verify_jwt`, `verify_credential` | the engine, with the host's inputs |
| node (`edgeauth-node/src/startup.rs`) | none of its own; starts and stops the tasks | `build_state`, `serve`, `spawn_jwks_refresher`, shutdown, `run_verify` | all of the above |
| minting and demo (`edgeauth-node/src/mint.rs`, `demo.rs`) | none | `mint`, `demo` | the engine, with artifacts of their own |

### What is hard about it

* **Overlap.** `refresh` holds no lock across its awaits. The background task
  and any number of `refreshJwks` mutations run it at once; breaker verdicts
  and cache stores arrive in whatever order the network yields, also long
  after the breaker changed state under them.
* **Cancellation.** An API request's future is dropped at an await when its
  client leaves. A dropped refresh has passed `acquire` and never records a
  verdict.
* **Failure and retry.** Attempts time out, responses arrive late, a failed
  attempt is repeated with the endpoint having moved on. The process may die
  and restart with nothing persisted.
* **Stale state.** The breaker's cooldown, the cached set and the response in
  hand are all compared or used after they were read.
* **Arithmetic.** `now - leeway` and `now + leeway` are plain `i64`, which wrap
  in release builds; boundaries are strict on one side (`exp`) and closed on
  the other (`nbf`).
* **Time.** Attempts, backoffs, the period of the refresher, the HTTP timeout and
  the drain of a shutdown are constants in four files that have to fit each
  other: a request that is cut off leaves the breaker without a verdict.
* **Two hosts, one engine.** The node and the WebAssembly module feed the same
  engine from different sources: a clock with fractions of a second, policies and
  key sets as documents that may be empty or cut short.
* **Chains of checks.** Parsing a token, a did or a key fails at the first of
  many steps, and the order of the steps decides the error and, for the
  algorithm and the proof's method, whose key is trusted.
* **Bounded channels.** The audit ring overwrites what a slow subscriber has
  not read; the counters are read one by one while others are being bumped.

### What makes each component correct

* *Breaker*: a closed breaker opens only on an unbroken run of failures; a trial
  starts only after the whole cooldown; late failures do not prolong it; lost
  calls never leave it stuck.
* *Provider*: what a refresh stores was published during its last attempt; the cache goes
  back in time only when stores overlap; every admitted refresh ends with one
  verdict or a cancellation; the cache catches up with a healthy endpoint.
* *Engine*: claims are trusted exactly for artifacts that their issuer's key
  signed; leeway means what it says; an override loosens nothing but the
  audience; a key added ahead of its use disturbs no verdict.
* *Service*: each decision is counted once and published once; a token is accepted
  only by a key that was cached while its request ran; events are out of order
  in time only when their requests overlapped; a number that `stats` reports is
  one the counter had during the query.
* *Audit stream*: a subscriber gets published events in their order, none twice,
  always the oldest one kept; every event is delivered, reported as lost or
  still to be read; being lapped does not end a stream.
* *Rate limiter*: no window admits more than the burst and the rate allow; a
  limiter that refuses admits again, however many calls it refuses.
* *Node*: no tick of the refresher is overdue; a refresh that was left its time is
  never cut off; booting ends whatever the endpoint does, and a drain within the
  HTTP timeout.
* *Texts and hosts*: whatever is accepted was issued as a whole; node and
  WebAssembly module agree on the same documents; fractions of a second do not
  extend a validity; fixtures and demo get the verdicts they are made for.

## 2. What is modelled

| module | models | kind |
|---|---|---|
| `CircuitBreaker` | the breaker and the calls it guards | state machine, and the abstract specification of the provider's use of it |
| `CircuitBreakerProofs` | | theorems |
| `CachedJwks` | `CachedJwksProvider::refresh`, its callers and the endpoint | state machine, composes `CircuitBreaker` |
| `CachedJwksProofs` | | theorems, refinement of `CircuitBreaker` |
| `Verifier` | the decision on a token and on a credential, policies | operators |
| `VerifierCalls` | one artifact decided again and again as the inputs change | state machine over `Verifier` |
| `VerifierProofs` | | theorems |
| `AuditFeed` | what the audit stream promises: a log and each subscriber's place in it | abstract specification |
| `AuditChannel` | `BroadcastAuditSink` and the subscription over it | state machine, implements `AuditFeed` |
| `AuditChannelProofs` | | theorems, refinement of `AuditFeed` |
| `EdgeService` | `EdgeVerifier` under concurrent requests, refreshes and queries | state machine, composes `Verifier` and `AuditFeed` |
| `EdgeServiceProofs` | | theorems |
| `TokenBucket` | what the limiter's documentation promises | abstract specification |
| `RateLimiter` | `RateLimiter` as `build_state` configures it, over governor's cell | state machine, implements `TokenBucket` |
| `RateLimiterProofs` | | theorems, refinement of `TokenBucket` |
| `Node` | `serve`, the refresher's ticker, timeouts, backoff, shutdown and restart, in time | state machine |
| `NodeProofs` | | theorems |
| `Wire` | texts of tokens, credentials, dids and JWKs, how they are parsed and checked, and the error they stop at | operators over `Verifier` |
| `Fixtures` | configuration, `mint` and `demo` | operators over `Wire` |
| `EdgeCalls` | the same text given to a node and to the WebAssembly module | state machine over `Fixtures`, implements `VerifierCalls` |
| `EdgeCallsProofs` | | theorems, refinement of `VerifierCalls` |
| `MCCircuitBreaker`, `MCCachedJwks`, `MCVerifier`, `MCAuditChannel`, `MCEdgeService`, `MCRateLimiter`, `MCNode`, `MCEdgeCalls` | instances for TLC | |

Operators marked `mutant` in the modules are not part of the specification:
each is a definition changed the way a plausible bug would change it, kept to
show that a property notices.

### CircuitBreaker

`failures` and `state` are `Inner`. `since` stands for
`clock.now() - opened_at`, capped at `OpenDuration`, since that is all `acquire`
compares; `Tick` advances it. `call[c]` is what caller `c` holds between
`acquire` and its verdict. Each method is one action because it is one critical
section of one mutex; `Acquire` has one disjunct per arm of the code's match.
`Drop` is a call that is cancelled and records nothing, `Restart` a process that
dies. A caller asks `acquire` again only after its last call settled: a task
that runs several calls at once is several callers. `failure_threshold` may be
0 and then acts like 1, which `TripAt` says and the invariants confirm. The
`Trips` test needs no saturation: the counter never passes the threshold, which
is a `u32` itself.

`streak` is a history variable: failures recorded since the last success in
any state. The code has no such variable; the doc speaks of "consecutive
failures", and `ClosedCountsStreak` says the counter means that.

### CachedJwks

`refresh` is cut at its await points and locks. Its `pc` runs

    idle → send → receive → store → stored → idle        (Ok)
              ↘     ↓
               backoff → send ...      failed → idle     (Err)

A key set is the number of its publication: `published` is what the endpoint
serves now, `body[c]` what the response in `c`'s hands holds, `cache` what
`current()` returns, 0 the local key the cache is seeded with. `Respond` is the
endpoint reading its current set; anything may happen before `AttemptOk`
delivers it. `AttemptErr` covers every failure of `fetch_once` and its timeout.
A timed-out attempt takes its response with it, since `timeout` drops the
future; `Retry` makes a request of its own. `Store` and `ReturnOk`
(`record_success`) are separate steps, because other tasks run on other threads
between the two locks, but no cancellation comes between them: there is no
await, so `Cancel` is only possible in `Awaiting`. The breaker's variables are
the provider's own, and every step on them is a step of `Breaker == INSTANCE
CircuitBreaker`.

`serving` becomes true when the background task's first refresh is over,
successful or not: `serve` awaits it before the listener exists, so no API
request refreshes earlier. `Crash` loses everything but the endpoint.

`began` (what was published when the present attempt began) and `overlap` (the
refreshes under way at the last store) are history variables. That `began` belongs to
the attempt makes `StoresCurrentSet` refuse the late response of an attempt that was
given up, as well as one from before the refresh.

### Verifier and VerifierCalls

Options are sets of at most one element, so `is_none_or` is `\A` and
`is_some_and` is `\E`. An artifact parses or it does not; a signature is the
key that made it over exactly the bytes checked. `I64` and `Wrap` keep the width
of the code's additions (`Half` is 2^63 there, 8 in TLC). The steps of
`VerifierCalls` are what a host can vary between two calls: the time, the key
set (one key more), the request's override.

### AuditFeed and AuditChannel

The sink is a `tokio::sync::broadcast` channel. tokio is not part of the
repository; the ring is modelled from what `audit.rs` and `schema.rs` rely on
and marked external. A slot holds the event written last with its position,
counted from the channel's creation; a receiver has the position it reads next
and compares it with that of the slot: equal is an event (`Receive`), one lap
behind is nothing yet (`Empty`), anything else is an overwritten event (`Lag`),
upon which the receiver moves to the oldest one kept. `schema.rs` drops the
resulting `Lagged` error (`r.ok()`) and keeps the stream, so `Lag` yields
nothing and only `missed` remembers it. `Record` without a receiver keeps
nothing: `send` fails and `record` ignores it. `Attentive` are the clients that
never disconnect and take what they are sent; the others may stop at any point.

`AuditFeed` has no ring. Its `Deliver` gives a subscriber the oldest event it
has not been given among the last `Slots`; a lag is a stutter there. `log`,
`last` and `seen` are history variables of the ring under which it implements
the feed.

### EdgeService

A request runs

    idle → keys → clock → decided → counted → idle
         ↘ (credentials)    ↘ (Err) idle

with one step per access to something shared: `TakeKeys` clones the cached set
under its lock, `Decide` reads the clock and runs the engine on locals, `Count` is
one `fetch_add`, `Emit` one `send`. Between them other threads run. There is no
await between the first and the last, so a request cannot be cancelled there and
the model has no such step. `Result` is `VerifyJwt` or `VerifyCredentialJson` of
`Verifier`, on the request's own key set, effective policy and time; a
credential that does not parse is the Err that nothing counts (`Refuse`).
`StoreKeys` is the `Store` of `CachedJwks`, `SetClock` the operating system's wall
clock, which may be stepped back. `stats` loads four atomics with relaxed
ordering, hence in any order. Everything lives in memory: a restarted process
is a new behaviour, so there is no restart action. A mutation the rate
limiter refuses never reaches the service and changes none of this state.

`began`, `offered`, `instants`, `unheard` and `stepped` are history variables:
how long the log was and which sets were cached since a request arrived, the
values the counters had during a query, the events nobody was subscribed to,
and whether the clock was ever stepped back.

### TokenBucket and RateLimiter

governor is not part of the repository; its cell is modelled from how
`rate_limit.rs` uses it and marked external. The cell is one time: when the
bucket will be full again. `level` is how far that lies ahead of the clock;
`Admissible` compares it with the burst (`Capacity`), `Admit` adds one interval
(`Second / rate`, rounded down to a clock unit, as governor's nanoseconds are),
`Tick` lets it run down. One `check` is one compare-and-swap loop, hence one
action; that governor reads the clock just before the loop, so that a reading may
be older than another thread's, is left out. `NodeRate` is the `.max(1)` of
`build_state`. Rates of more than a permit per nanosecond are excluded
(`RateAssumption`): governor's interval would be 0.

`TokenBucket` has permits and no clock. A permit is missing there for each
interval that `level` has begun. `count` and `elapsed` are history variables, a
window that may open at any time.

### Node

`CachedJwks` says what a refresh does to the keys and the breaker, in any order
and with no clock. `Node` says how long it takes, and leaves the keys out.

    booting → serving → draining → stopped → booting
        ↘───────────────────────────↗

A task is in an `attempt` (an HTTP fetch under its timeout) or in a `backoff`;
`left` is what its timer still runs, and `Tick` lets a unit of time pass only if no
timer is due. A request reads its body (`reading`, for one of `Delays`) before its
resolver refreshes; `HttpTimeout` is `TimeoutLayer`, which covers both, and drops
the future. `/graphql/ws` takes mutations too: `Message` is one. An upgraded
connection is a task of its own, outside `TimeoutLayer`, and the graceful shutdown
does not wait for it, so that requests in `sockets` never expire, do not count in
`Drained`, may still come during a drain and are dropped at the exit. `Periodic` is
a tick of `tokio::time::interval`, whose missed ticks come in a burst: `due` may in
principle be negative, and `OnSchedule` says it never is. `Periodic` and `Resolve`
cover an admission; the breaker's refusal is over at once. `Signal` is SIGINT while
the server is polled; before that the default handler ends the process (`Kill`).
`Exit` needs every HTTP request answered, after which the runtime drops the
background task wherever it is. A connection with no request in hand closes at once
when the drain begins, and a response is taken by its client at once: neither is in
the code's hands.

`BackoffFor` has the arithmetic of `backoff_for` with `U32` and `U64` as the widths:
saturating power, `u128` product, cap, narrowing. The refresher exists here from
the start, as with `--jwks-url`; without it nothing refreshes and the rest is the
same. `drain` is a history variable.

### Wire, Fixtures and EdgeCalls

`Verifier` takes artifacts as parsed or not. `Wire` goes one level down: a token
is a sequence of segments, a key is inside a did or a JWK that may be flawed, a
signature is the key and the exact bytes it was made over. `ParseError`,
`SignatureError`, `DidError`, `JwkError`, `HexError` and `ProofError` are the chains
of `?` and early returns of the code, in its order, and yield the `VerifyError` of
the first step that fails. What a text spells is not modelled: a segment is not
base64url, or is base64url of something else, or of a header, claims or a signature.

`Fixtures` has `build_policy` and `local_jwks`, the artifacts `mint` and `demo`
make from a seed, and the six verdicts of `demo`. The demo reads the clock more
than once; the model takes it as one instant.

`EdgeCalls` gives the same text, key set and time to a node (`Native`, which is
`verify` and, with an override, the service) and to the WebAssembly module
(`Edge`), whose policy and key set are documents: `whole`, `empty` or `cut` short. Time
is in `Instants`, of which a second has several; the node's clock and the
module's cast both cut the fraction off. The steps are those of `VerifierCalls`:
later, one key more, another override.

`ImplementsEngine` maps a text to what it says (`AbsDoc`): a did to its key, or
to itself if flawed, a signature to its signer, an error to a rejection. Then
each call of the node is a step of `VerifierCalls` or, within one second, a
stutter. It is what justifies that `Verifier`, `VerifierCalls` and `EdgeService`
speak of parsed artifacts.

## 3. What TLC checks

| run | question | bounds |
|---|---|---|
| `breaker` | Do counter, cooldown and trials behave under overlap, cancellation and restarts, and is the breaker never wedged? | 3 callers, threshold 2, cooldown 2 |
| `breaker_stays_open` | Does an open breaker stay open for its cooldown? (violated) | as `breaker` |
| `breaker_single_trial` | Is there one trial at a time? (violated) | as `breaker` |
| `jwks` | Is each admission settled once, can a refresh store a set older than its last attempt, does the cache regress by overlap only, does a successful refresh close the breaker, does every refresh end, does the cache converge, does the provider implement the breaker with its fairness? | 2 tasks, 2 attempts, 3 key sets |
| `verifier` | Are claims trusted exactly for authentic artifacts, may keys be added ahead of use, is leeway a tolerance of clock skew, does wrapping never admit, what may an override loosen? | 2 keys and one that does not decode, 2 kids, key sets of up to 2 entries; every window and time of 0..4, an end of -8 and leeways of 0..3, 6 and 7 in 4-bit arithmetic; 2 issuers, audiences, scopes; base policies and overrides over them |
| `audit` | Does the ring give each subscriber what the feed promises, is each event accounted for, does a subscriber that was lapped catch up? | 2 slots, 5 events of 2 kinds, 2 subscribers |
| `audit_every` | Does the stream carry every decision? (violated) | 2 slots, 4 events |
| `service` | Do counters and events agree under overlap, does a revoked key stop working, what may the order of events be, what may a stats query report? | 2 requests, 2 decisions, 2 key sets, 2 times, 3 documents, 1 subscriber, 1 query |
| `service_point_in_time` | Are the four numbers of one instant? (violated) | 2 requests, 3 decisions, 1 query, with and without override |
| `rate` | Is the limiter a token bucket, does any window admit more than burst and rate allow, does refusing end? | rates 0, 2, 4, 5 and 8, a second of 8 units, windows up to 12 units |
| `node` | Are refreshes cut off, ticks overdue, backoffs off, drains or boots without end? | the refresher and 1 request, over HTTP or a WebSocket, 4 retry policies, attempts of 3 units, least period 12, HTTP timeout 18, periods below and above the least |
| `edge_calls` | Do both hosts agree, accept only what was issued, and only in its time; do fixtures and demo get their verdicts; is a text decided as what it says? | 4 keys, 4 tokens and 2 credentials with their parts mixed up, cut and forged, key sets of up to 2 of 5 entries, 6 instants of half seconds, 2 seeds |

Why the bounds are enough. Three callers give one call that trips the breaker,
one late verdict and one trial at the same time. A threshold of 2 distinguishes
a counter that resets from one that does not, a cooldown of 2 a clock that
restarts from one that runs on. Two refreshes suffice to store in either order,
and a regress needs one store to overtake another; two attempts are a first one
that may be repeated and a last one that may not; three key sets allow a
response, a newer one and one published while the cache holds neither. Two slots and five events
lap a reader twice, and in between leave it one or two events to read; a second
subscriber joins while the first is behind. Two requests are enough to put any
step of one between any two of the other, and two decisions to publish them in
either order or one after the other; a key set that shares no key with the
other makes a stale snapshot visible, and a token that expires at the later of
the two times makes the reading of the clock decide.

Key sets of two entries are the smallest with a kid used twice or a further key.
Rates that divide the second, do not, and are one per unit cover the rounding of the
interval; a window of one and a half seconds holds two bursts and what comes
between. The numbers of `node` keep the order of the code's (an attempt 3 s, sleeps
50 and 100 ms, the slowest refresh 9.15 s, least period 10 s, HTTP timeout 15 s);
delays of 5 and 6 units lie on both sides of what leaves a refresh its time. One
request is enough there: requests share nothing but the drain. Its policies include
one without attempts (which act as one) and one without growth, a power that exceeds
`U32` and a product that exceeds `U64` (8 and 64 here). In `edge_calls` every part
of an issued text meets every part of every other, and each flaw of a did occurs;
the validity of the first token begins and ends within the instants; seed 3 of 0..3
wraps around.

`MaxKeys`, `MaxVersion`, `MaxEvents`, `MaxDecisions`, `Window`, `Times` and `Instants`
are the only bounds on otherwise unbounded growth. `MaxVersion` makes `Converges` a statement about
an endpoint that stops rotating, which is the only case in which it can hold of
any cache.

### Fairness

`Tick` is weakly fair: the monotonic clock runs. The background task's
`Acquire`/`Refresh` is: `spawn_jwks_refresher` loops for as long as the process
lives and no one cancels it. Its steps inside `refresh` are, because each
attempt is wrapped in a timeout, sleeps are finite and attempts limited
(`retry` clamps to at least one). Nothing is assumed of API requests, which may
hang for ever or be dropped; of the endpoint; or of the process staying alive:
`Converges` asks that it eventually does, in its premise.
In `CircuitBreaker`, the fairness of recording a verdict is the same argument
seen from the breaker, and `jwks` checks that the provider delivers it.

In `AuditChannel` the reading steps of `Attentive` subscribers are weakly fair:
`send` wakes every task that waits on the channel, and the runtime polls a woken
task. Nothing is assumed of the other clients or of decisions being made.
`MaxEvents` makes `CatchesUp` a statement about a pause in the decisions: with
senders that lap a reader for ever nothing of the kind can hold.

In `RateLimiter` only `Tick` is fair: time passes, and callers may go on asking.
In `Node`, time passes, and what is due happens: a task whose timer ran out is
polled and goes on (`TimerDue(c) /\ Refreshing(c)`), the HTTP timeout drops what it
covers, the ticker fires, and `serve` returns when the last request is gone. That
an attempt ends before its timeout, that a client leaves, that anybody sends a
signal or restarts the node is not assumed. `EdgeService`, `VerifierCalls` and
`EdgeCalls` have no liveness property: their calls run to the end without waiting.

### What the violated runs show

* `SingleTrial`: `breaker.rs:36` says a half-open breaker permits a single
  trial. `acquire` answers Ok to every caller until a verdict arrives. With one
  background task and occasional API refreshes this is a burst of fetches, no
  more.
* `StaysOpen`: `breaker.rs:34` says calls are rejected until the cooldown
  elapses. The success of a call admitted before the trip closes the breaker at
  once.
* `EveryDecision`: `schema.rs` documents `verifications` as streaming every
  decision as it is made. A subscriber more than the capacity behind (1024 in
  `build_state`) loses the oldest ones and is told nothing, since the resolver filters
  the error that would say so.
* `PointInTime`: `service.rs` calls `StatsSnapshot` a point-in-time snapshot. Two
  decisions counted between two loads give four numbers that never held at
  once. `StatsWithinQuery` says what is true of each.

Two more remarks, which no run is spent on. A per-request audience replaces the
configured one instead of narrowing it, which `service.rs:26` says and
`service.rs:23` and `src/README.md:150` ("tightening") do not; `OverrideKeepsRest`
says that it is the audience alone. And `config.rs:73` calls the limit "Maximum
mutations per second": `AnyWindow` says that a second after a pause admits up to
twice as many, the burst and the rate.

## 4. What is proved

Constants are arbitrary within the `ASSUME`s of the modules: any set of
callers with a distinguished refresher, any natural threshold, cooldown and
number of attempts (0 included), any width of integers, any sets of artifacts,
key sets and policies that deserialization can produce, any rates, delays, periods
and timeouts within the stated relations.

**Breaker** (`CircuitBreakerProofs`). `IInv` is the conjunction of `TypeOK`,
`ClosedCountsStreak` and `HalfOpenAfterCooldown`. It is inductive as it stands.
`TypeOK` needs the middle one: `failures + 1` stays within the threshold only
because a closed breaker is short of it. Theorems: `TypeCorrect`,
`CountsStreak`, `CooledBeforeTrial`, and the action properties
`OpensOnlyOnStreak` and `CooldownNeverProlonged`.

**Provider** (`CachedJwksProofs`). The invariant is the breaker's `IInv`, taken
over as an instance and applied to the provider's steps (each is a step of the
breaker or leaves it alone), with

* `AttemptLeft`: a refresh that sleeps in its backoff has an attempt left, so
  that the attempt number stays within its type;
* `AdmittedIffBusy`: needed to see that a verdict is recorded for an admitted
  call, without which the step would not be one of the breaker;
* `ResponsesCurrent`: the response in hand was published between the beginning of
  its attempt and now, which gives `StoresCurrentSet`;
* `AheadOfCache`: the attempt of a refresh that did not overlap the last store began
  with at least what the cache holds, which gives `RegressesOnlyByOverlap`.

Theorems: `TypeCorrect`, `AdmissionsSettled`, `StoresOnlyCurrent`,
`RegressesByOverlapAlone`, `StoreAlwaysCloses`, and `RefinesBreaker`
(`Spec => Breaker!Spec`). `RefreshRunsOut` has what of `RefreshEnds` single steps
can tell: a variant, `StepsLeft`, is at most `3 * Attempts + 1`, each step of a refresh
lowers it (`Retry` does because of `AttemptLeft`) and no other step raises it.

**Engine** (`VerifierProofs`). The invariant is that the inputs keep their types
and the outcome is that of the current inputs; the rest follows state by state:
`SignatureSound`, `SkewSound` (the existence of a tolerated clock reading is
shown by naming it), `OverrideSound`, `NewKeySafe` (`Append` leaves the first
key of a kid first) and `TypeCorrect`.

**Audit stream** (`AuditChannelProofs`). The lemmas on `Slot` say what
`pos % Slots` does: positions less than a lap apart have different slots, and a
lap later the slot is the same. The invariant is `TypeOK`, `Accounted`, and

* `LogLength`: the log is as long as the tail position;
* `RingHolds`: each of the last `Slots` positions is in its slot, with the event
  of the log at that position;
* `RingKeepsWindow`: the ring holds no other position. From it follows that a
  slot which a receiver finds neither equal nor a lap behind was overwritten,
  so that the move of `Lag` to `tail - Slots` goes forward;
* `SkipsOnlyLost`: a receiver whose last event is not the one before its next
  position is lapped or on the oldest event kept. Without it `Deliver`'s choice of
  the oldest event kept could not be shown.

Theorems: `TypeCorrect`, `EveryEventAccounted`, `RefinesFeed` (`Spec =>
Feed!Spec`) and `ReadingCatchesUp`, the steps behind `CatchesUp`: a receiver that
finds its slot empty is at the tail, every read brings it closer, nothing moves it
back.

**Service** (`EdgeServiceProofs`), for any number of requests, queries and
subscribers, any documents, policies and key sets. Besides `TypeOK` and the
checked properties `CountersMatchEvents`, `DisorderOnlyByOverlap` and
`StatsWithinQuery` the invariant has `Shape` (the locals are functions on the
requests), `KeysOffered` (a snapshot is among the sets cached since the request
arrived), `StampsOrdered` (as long as the clock was not stepped back, nothing is
stamped later than the clock, nor a decided request earlier than the events it
found when it arrived) and `PresentAmongInstants` (the present counters are among
the values of a running query). `AcceptedByOfferedKey` follows from `KeysOffered`
and what `VerifyJwt` accepts. `CountersMatchEvents` is proved by
cardinalities: one step moves one request out of a finite set and adds one
index to another. `BaseAlwaysEnforced` needs one more invariant, that a request's policy
is the node's with an override of its own (`PoliciesDerived`). It says for overlapping
requests what `OverrideSound` says of single calls. Theorems: `TypeCorrect`,
`CountersSound`, `RevocationSound`, `OrderSound`, `StatsSound`, `BaseAlwaysEnforced`.

**Rate limiter** (`RateLimiterProofs`), for any number of clock units in a second
and any rate of at most one permit per unit. The invariant is `TypeOK` and
`WindowOwed`: what was admitted in the window is still owed but for the time that
passed in it. `AnyWindow` follows, since `level` never exceeds the capacity. The
refinement needs lemmas on quotients: an interval more or a unit less moves
`(Capacity - level) \div Interval` by one permit or not at all. Theorems:
`TypeCorrect`, `WindowSound`, `RefinesBucket`.

**Node** (`NodeProofs`), for any set of requests, any period, delay and HTTP
timeout, and any retry policies, of any number of attempts, whose slowest refresh is
within the least period (`PolicyAssumption`, true of the code's constants by 9.15 s
against 10 s). `HttpAssumption`, which the proofs do not use, says that the HTTP
timeout leaves the slowest refresh its time: `NeverCutOff` is about requests that
were left it, and if the constants stopped fitting there would be none. The
invariant has `TaskOK` (what a task has spent, with what is left of its timer, is
within the longest time of its attempt), `RefresherOK` (the next tick is a period
after the refresh in progress began) and `RequestOK` (a request over HTTP has not
passed its timeout, and a drain is no older than the youngest in it; one over a
WebSocket is in its refresh). `Delays` are at most `Http`, or there would be nothing
to resolve.

`Powers` and `Sleeps` are recursive functions, and TLA+ says nothing of such a
function until one with that recursion is shown to exist. The library's induction
principles cannot be cited here, but that `<` on the naturals is well-founded can:
a set of naturals that is not empty has a least element (`LeastElement`), so one
that is closed under successors is all of them (`Induction`), and a first value
with a step for each natural make a function (`Recursion`). From there `PowersDef`
and `SleepsDef` give the equations, and with them come the facts on powers
(`BackoffOf`, which is `BackoffExact` for every attempt: where a power saturates a
u32, the sleep is at its cap already) and that each attempt only adds to a refresh
(`PolicyLemma`).

Theorems: `TypeCorrect`, `RefreshGetsItsTime`, `NeverOverdue`, `DrainEnds`,
`BackoffSound`, and `BootEnds`: a booting node is in its refresh, and none takes longer
than `Longest`, which is the safety part of the first half of `PhasesEnd`.

**Texts and hosts** (`EdgeCallsProofs`), for any texts, key sets, configurations,
hosts and instants. The invariant is that both outcomes are those of the current
inputs. `HostsAlwaysAgree` compares the two chains of calls. `RefinesEngine` shows
step by step that names, keys and signers are told apart by what they stand for,
so that each check sees the same, and that an error stays an error; a key is
assumed not to be a name, and a proof to be one (`KeysAssumption`,
`CasesAssumption`). `AcceptsOnlyIssued` rests on `UnforgeableAssumption`: what a key
that texts are checked for has signed is an issued text. From there the proof
is about the code: that the checked key, and the bytes under the signature, are
the ones that settle every part of the text.
`TimeSound` states `ExactTime` for every second, window and leeway whose sums fit an
i64: flooring both sides of a comparison loses nothing when one of them is whole.

`EngineOnTexts` carries the theorems on the engine over to texts, as an instance of
`VerifierProofs`. The constants of the instance are what the texts stand for, so its
assumptions are lemmas here (`EngineAssumptions`), proved from those on texts: an
i64 where the code has one, one date at most, a clock with a day left. That makes
`SignatureSound`, `SkewSound`, `WrapSafe`, `OverrideSound` and `NewKeySafe` facts about
`outcome`, the node's verdict on a text.

`TypeCorrect` follows the two chains to the end: whatever a text says, each comes to
one outcome, whose reason is one of the checks or one of the listed errors.

`OwnArtifactsSound` computes the verdicts on minted and demonstrated artifacts for
every seed, byte arithmetic included, from the assumption that seeds have keys of
their own (`SignerAssumption`). `FixturesAccepted` is stated for leeways that the
clock can add: with one next to the end of i64, `now + leeway` wraps to the past and
a fresh fixture is rejected for `not_before`.

The type invariants of `VerifierCalls`, `AuditChannel`, `EdgeService`, `RateLimiter` and
`Node` are proved (`TypeCorrect` in each) and not repeated in the runs.

Every invariant and every action property that a run checks is a theorem, and so
is every refinement, as far as it is safety. Only model-checked, because liveness
under fairness and ENABLED are out of the prover's reach: `NeverWedged`,
`RefreshEnds`, `Converges`, `CatchesUp`, `RefusalsEnd`, `PhasesEnd`, and that the
provider also gives the breaker its fairness (`ImplementsBreaker`; `RefinesBreaker`
covers its safety part). `RefreshRunsOut`, `ReadingCatchesUp`, `BootEnds` and `DrainEnds`
prove the bounds and variants that three of them rest on. The four violated
statements are counterexamples on small instances.

## 5. What is not modelled

* The spelling of texts: JSON, base64url, base58, hex and what serde makes of
  unknown or misspelled fields. `Wire` has what they say, whether they can be read
  and the error if not. Ed25519 itself, canonical JSON of the signing payload, and
  the bytes of keys and signatures.
* Subject, roles, `iat` and the other claims only copied into an outcome.
* The conversions of outcomes, events and policies to GraphQL types, and the
  `health`, `policy` and `jwks` queries, which copy fields.
* Command-line parsing, the dispatch on a subcommand, printed reports, telemetry, error
  texts: no state that a model would add to. `StaticJwksProvider` never changes.
* The interaction of keys and time: `CachedJwks` has no clock beyond the cooldown,
  `Node` no keys. The composition of the two is not stated, since `Node` allows
  every outcome of a refresh that `CachedJwks` does and asks nothing of the keys.
* HTTP and WebSockets below axum: keep-alive, slow headers and slow readers of a
  response, handshakes and connections without an operation. A mutation over
  `/graphql/ws` is a request like another in `CachedJwks`, `EdgeService` and
  `RateLimiter`; `Node` is where the two differ.

## 6. Plan

Done, in this order. Each module came with an MC module, runs, mutants and, where
the result is worth having for every value of the constants, proofs.

1. `CircuitBreaker`, `CircuitBreakerProofs`.
2. `CachedJwks` over it, `CachedJwksProofs`.
3. `Verifier`, `VerifierCalls`, `VerifierProofs`.
4. `AuditFeed` and `AuditChannel`, `AuditChannelProofs`.
5. `EdgeService`, which composes 3 and 4 with the key sets of 2,
   `EdgeServiceProofs`.
6. `TokenBucket` and `RateLimiter`, `RateLimiterProofs`.
7. `Node`, with the backoff, the refresher's interval, shutdown and restart,
   `NodeProofs`.
8. `Wire`, `Fixtures` and `EdgeCalls`, which implements 3, `EdgeCallsProofs`.

Left: variants for `RefusalsEnd` and for the steps of the breaker; a composition of
`Node` with `CachedJwks`, in which a cut-off request leaves the breaker's half-open
state behind in time as well as in order.
