---------------------------- MODULE EdgeService ----------------------------
(***************************************************************************)
(* EdgeVerifier (edgeauth-infra, service.rs) under concurrent requests:    *)
(* each takes a snapshot of the cached key set, reads the clock, decides,  *)
(* counts the decision and publishes an audit event, while refreshes       *)
(* replace the key set, the wall clock moves and stats queries read the    *)
(* counters one by one.                                                    *)
(*                                                                         *)
(* A request never awaits between its first step and its last, so it is    *)
(* never cancelled there; tasks on other threads run in between.  Requests *)
(* that the rate limiter refuses change nothing and are left out.  The     *)
(* decision is Verifier's, the audit stream is AuditFeed, the key set is   *)
(* what CachedJwks stores.  All of it lives in memory: a restarted process *)
(* is a new behaviour.                                                     *)
(***************************************************************************)
EXTENDS Verifier, FiniteSets

CONSTANTS
  Requests,     \* verifyJwt and verifyCredential mutations being served
  Queries,      \* stats queries being served
  Subscribers,  \* clients of the verifications subscription
  Documents,    \* the artifacts presented, of both kinds
  Overrides,    \* what a verifyJwt request asks on top of the base policy
  BasePolicy,   \* EdgeVerifier::policy
  KeySets,      \* the key sets the provider may hold
  Times,        \* bound: values of the wall clock
  Slots,        \* events the audit stream retains
  MaxDecisions  \* bound: decisions made

ASSUME RequestsAssumption == IsFiniteSet(Requests)
ASSUME TimesAssumption == Times \subseteq I64
ASSUME DocumentsAssumption ==
  Documents # {} /\ \A d \in Documents : d.kind \in {"jwt", "vc"}

VARIABLES
  jwks,      \* JwksProvider::current()
  clock,     \* UnixClock::now_unix()
  pc,        \* where a request is
  doc,       \* the artifact of a request
  policy,    \* its effective policy
  keys,      \* its snapshot of the key set
  now,       \* its reading of the clock
  counters,  \* Counters
  reading,   \* the counters a stats query has yet to load
  snapshot,  \* what it has loaded
  log, live, last, seen,  \* the audit stream: see AuditFeed
  began,     \* history: Len(log) when a request arrived
  offered,   \* history: the key sets cached since a request arrived
  instants,  \* history: the values of counters since a stats query began
  unheard,   \* history: events sent while nobody subscribed
  stepped    \* history: the wall clock was stepped back

requestVars == <<pc, doc, policy, keys, now, began, offered>>
statsVars == <<reading, snapshot, instants>>
feedVars == <<log, live, last, seen>>
vars == <<jwks, clock, stepped, requestVars, counters, statsVars, feedVars, unheard>>

Counter == {"jwt_accepted", "jwt_rejected", "vc_accepted", "vc_rejected"}

CounterOf(kind, valid) ==
  CASE kind = "jwt" /\ valid  -> "jwt_accepted"
    [] kind = "jwt" /\ ~valid -> "jwt_rejected"
    [] kind = "vc" /\ valid   -> "vc_accepted"
    [] kind = "vc" /\ ~valid  -> "vc_rejected"

(* VerificationEvent, with the request's began as a history.               *)
Event ==
  [kind : {"jwt", "vc"}, valid : BOOLEAN, at : Times, began : Nat]

Feed == INSTANCE AuditFeed

AnyDocument == CHOOSE d \in Documents : TRUE
AnyTime == CHOOSE t \in Times : TRUE
Zero == [c \in Counter |-> 0]

InFlight == {r \in Requests : pc[r] # "idle"}

Decisions ==
  counters["jwt_accepted"] + counters["jwt_rejected"]
    + counters["vc_accepted"] + counters["vc_rejected"]

(* The decision on a request; {} is an Err.                                *)
Result(r) ==
  IF doc[r].kind = "jwt"
    THEN {VerifyJwt(doc[r], keys[r], policy[r], now[r])}
    ELSE VerifyCredentialJson(doc[r], policy[r], now[r])

Valid(r) == \E o \in Result(r) : o.valid

-----------------------------------------------------------------------------
(* EdgeVerifier::new                                                       *)
Init ==
  /\ jwks \in KeySets
  /\ clock \in Times
  /\ pc = [r \in Requests |-> "idle"]
  /\ doc = [r \in Requests |-> AnyDocument]
  /\ policy = [r \in Requests |-> BasePolicy]
  /\ keys = [r \in Requests |-> <<>>]
  /\ now = [r \in Requests |-> AnyTime]
  /\ counters = Zero
  /\ reading = [q \in Queries |-> {}]
  /\ snapshot = [q \in Queries |-> Zero]
  /\ Feed!Init
  /\ began = [r \in Requests |-> 0]
  /\ offered = [r \in Requests |-> {}]
  /\ instants = [q \in Queries |-> {}]
  /\ unheard = Zero
  /\ stepped = FALSE

Goto(r, from, to) == pc[r] = from /\ pc' = [pc EXCEPT ![r] = to]

(* A mutation reaches the service; only verifyJwt takes an override and    *)
(* needs the key set.                                                      *)
Arrive(r, d, o) ==
  /\ Decisions + Cardinality(InFlight) < MaxDecisions
  /\ d.kind = "vc" => o = NoOverride
  /\ Goto(r, "idle", IF d.kind = "jwt" THEN "keys" ELSE "clock")
  /\ doc' = [doc EXCEPT ![r] = d]
  /\ policy' = [policy EXCEPT ![r] = EffectivePolicy(BasePolicy, o)]
  /\ began' = [began EXCEPT ![r] = Len(log)]
  /\ offered' = [offered EXCEPT ![r] = {jwks}]
  /\ UNCHANGED <<jwks, clock, stepped, keys, now, counters, statsVars, feedVars, unheard>>

AnyReplica == KeySets   \* mutant: a copy of the key set that may be stale

(* What self.jwks.current() may return.                                    *)
Current == {jwks}

TakeKeys(r) ==
  /\ Goto(r, "keys", "clock")
  /\ \E ks \in Current : keys' = [keys EXCEPT ![r] = ks]
  /\ UNCHANGED <<jwks, clock, stepped, doc, policy, now, began, offered, counters>>
  /\ UNCHANGED <<statsVars, feedVars, unheard>>

PastReadings == {t \in Times : t <= clock}   \* mutant: each thread caches the time

(* What self.clock.now_unix() may return.                                  *)
Readings == {clock}

(* The clock is read and the decision made, a function of what is local.   *)
Decide(r) ==
  /\ Goto(r, "clock", "decided")
  /\ \E t \in Readings : now' = [now EXCEPT ![r] = t]
  /\ UNCHANGED <<jwks, clock, stepped, doc, policy, keys, began, offered, counters>>
  /\ UNCHANGED <<statsVars, feedVars, unheard>>

(* The request is answered: its locals are gone.                           *)
Forget(r) ==
  /\ doc' = [doc EXCEPT ![r] = AnyDocument]
  /\ policy' = [policy EXCEPT ![r] = BasePolicy]
  /\ keys' = [keys EXCEPT ![r] = <<>>]
  /\ now' = [now EXCEPT ![r] = AnyTime]
  /\ began' = [began EXCEPT ![r] = 0]
  /\ offered' = [offered EXCEPT ![r] = {}]

(* verify_credential_json returns Err for a document that does not parse,  *)
(* before anything is recorded.                                            *)
Refuse(r) ==
  /\ Result(r) = {}
  /\ Goto(r, "decided", "idle")
  /\ Forget(r)
  /\ UNCHANGED <<jwks, clock, stepped, counters, statsVars, feedVars, unheard>>

Counted(r) == CounterOf(doc[r].kind, Valid(r))

CountAsJwt(r) ==   \* mutant: a credential is counted as a token
  /\ Result(r) # {}
  /\ Goto(r, "decided", "counted")
  /\ counters' = [counters EXCEPT ![CounterOf("jwt", Valid(r))] = @ + 1]
  /\ UNCHANGED <<jwks, clock, stepped, doc, policy, keys, now, began, offered>>
  /\ UNCHANGED <<reading, snapshot, instants, feedVars, unheard>>

(* record: fetch_add on the counter of this kind and verdict, ...          *)
Count(r) ==
  /\ Result(r) # {}
  /\ Goto(r, "decided", "counted")
  /\ counters' = [counters EXCEPT ![Counted(r)] = @ + 1]
  /\ instants' = [q \in Queries |->
                    IF reading[q] = {} THEN {} ELSE instants[q] \union {counters'}]
  /\ UNCHANGED <<jwks, clock, stepped, doc, policy, keys, now, began, offered>>
  /\ UNCHANGED <<reading, snapshot, feedVars, unheard>>

(* ... then the event, which is the last step of the request.              *)
Emit(r) ==
  /\ Goto(r, "counted", "idle")
  /\ Feed!Publish([kind |-> doc[r].kind, valid |-> Valid(r), at |-> now[r],
                   began |-> began[r]])
  /\ unheard' = IF live = {} THEN [unheard EXCEPT ![Counted(r)] = @ + 1] ELSE unheard
  /\ Forget(r)
  /\ UNCHANGED <<jwks, clock, stepped, counters, statsVars>>

-----------------------------------------------------------------------------
(* A refresh replaces the cached key set.                                  *)
StoreKeys(ks) ==
  /\ ks # jwks
  /\ jwks' = ks
  /\ offered' = [r \in Requests |-> IF pc[r] = "idle" THEN {} ELSE offered[r] \union {ks}]
  /\ UNCHANGED <<clock, stepped, pc, doc, policy, keys, now, began, counters>>
  /\ UNCHANGED <<statsVars, feedVars, unheard>>

(* Time passes, or the operating system steps the wall clock back.         *)
SetClock(t) ==
  /\ t # clock
  /\ clock' = t
  /\ stepped' = (stepped \/ t < clock)
  /\ UNCHANGED <<jwks, requestVars, counters, statsVars, feedVars, unheard>>

(* EdgeVerifier::stats: four relaxed loads of four atomics, which need not *)
(* happen in their order in the program.                                   *)
StatsBegin(q) ==
  /\ reading[q] = {}
  /\ reading' = [reading EXCEPT ![q] = Counter]
  /\ snapshot' = [snapshot EXCEPT ![q] = Zero]
  /\ instants' = [instants EXCEPT ![q] = {counters}]
  /\ UNCHANGED <<jwks, clock, stepped, requestVars, counters, feedVars, unheard>>

StatsDrain(q, c) ==   \* mutant: swap(0) instead of load
  /\ c \in reading[q]
  /\ reading' = [reading EXCEPT ![q] = @ \ {c}]
  /\ snapshot' = [snapshot EXCEPT ![q][c] = counters[c]]
  /\ counters' = [counters EXCEPT ![c] = 0]
  /\ UNCHANGED <<instants, jwks, clock, stepped, requestVars, feedVars, unheard>>

StatsLoad(q, c) ==
  /\ c \in reading[q]
  /\ reading' = [reading EXCEPT ![q] = @ \ {c}]
  /\ snapshot' = [snapshot EXCEPT ![q][c] = counters[c]]
  /\ UNCHANGED <<instants, jwks, clock, stepped, requestVars, counters, feedVars, unheard>>

(* A subscription starts, ends or is given an event.                       *)
Subscription(s) ==
  /\ Feed!Join(s) \/ Feed!Leave(s) \/ Feed!Deliver(s)
  /\ UNCHANGED <<jwks, clock, stepped, requestVars, counters, statsVars, unheard>>

Step(r) ==
  \/ \E d \in Documents, o \in Overrides : Arrive(r, d, o)
  \/ TakeKeys(r)
  \/ Decide(r)
  \/ Refuse(r)
  \/ Count(r)
  \/ Emit(r)

Next ==
  \/ \E r \in Requests : Step(r)
  \/ \E ks \in KeySets : StoreKeys(ks)
  \/ \E t \in Times : SetClock(t)
  \/ \E q \in Queries : StatsBegin(q) \/ \E c \in Counter : StatsLoad(q, c)
  \/ \E s \in Subscribers : Subscription(s)

Spec == Init /\ [][Next]_vars

-----------------------------------------------------------------------------
PC == {"idle", "keys", "clock", "decided", "counted"}

(* Type invariant of the service.                                          *)
TypeOK ==
  /\ jwks \in KeySets
  /\ clock \in Times
  /\ pc \in [Requests -> PC]
  /\ doc \in [Requests -> Documents]
  /\ now \in [Requests -> Times]
  /\ \A r \in Requests : Result(r) = {} => pc[r] # "counted"
  /\ counters \in [Counter -> Nat]
  /\ reading \in [Queries -> SUBSET Counter]
  /\ snapshot \in [Queries -> [Counter -> Nat]]
  /\ log \in Seq(Event)
  /\ live \subseteq Subscribers
  /\ began \in [Requests -> 0..Len(log)]
  /\ unheard \in [Counter -> Nat]
  /\ stepped \in BOOLEAN

EventsOf(c) == {i \in DOMAIN log : CounterOf(log[i].kind, log[i].valid) = c}
ToEmit(c) == {r \in Requests : pc[r] = "counted" /\ Counted(r) = c}

(* The counters and the audit stream agree, whatever overlaps: each number *)
(* is the events of its kind and verdict that were sent, to subscribers or *)
(* to nobody, and those about to be.  In particular a subscriber never     *)
(* knows of more decisions than stats does.                                *)
CountersMatchEvents ==
  \A c \in Counter :
    counters[c] = Cardinality(EventsOf(c)) + unheard[c] + Cardinality(ToEmit(c))

(* Revocation of a key takes effect: a token is accepted only by a key of  *)
(* a set that was cached at some time since its request arrived.           *)
AcceptedByOfferedKey ==
  \A r \in Requests :
    pc[r] \in {"decided", "counted"} /\ doc[r].kind = "jwt" /\ Valid(r)
      => \E ks \in offered[r] : JwtSigned(doc[r], ks)

(* As long as the clock is not stepped back, two events are out of their   *)
(* order in time only if their requests overlapped: the later entry had    *)
(* arrived before the earlier one was published.                           *)
DisorderOnlyByOverlap ==
  ~stepped =>
    \A i, j \in DOMAIN log : i < j /\ log[j].at < log[i].at => log[j].began < i

(* Whatever is counted meanwhile, a stats query returns of each counter a  *)
(* value that it had while the query ran, and no later query less.         *)
StatsWithinQuery ==
  \A q \in Queries : \A c \in Counter \ reading[q] :
    /\ snapshot[q][c] <= counters[c]
    /\ instants[q] # {} => \E v \in instants[q] : v[c] = snapshot[q][c]

-----------------------------------------------------------------------------
(* "A point-in-time snapshot of the service counters." (StatsSnapshot):    *)
(* the four values were the counters' at one instant of the query.         *)
(* Refuted by two decisions counted between its loads.                     *)
PointInTime ==
  \A q \in Queries :
    reading[q] = {} /\ instants[q] # {} => snapshot[q] \in instants[q]
=============================================================================
