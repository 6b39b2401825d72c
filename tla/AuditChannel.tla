---------------------------- MODULE AuditChannel ----------------------------
(***************************************************************************)
(* BroadcastAuditSink (edgeauth-infra, audit.rs) and the verifications     *)
(* subscription that reads it (edgeauth-api, schema.rs): a tokio broadcast *)
(* channel, which is a ring of slots that senders overwrite and receivers  *)
(* read each at its own position.                                          *)
(*                                                                         *)
(* The channel lives in memory and as long as the process.  Sending and    *)
(* receiving are one step each: the channel's locks are held throughout.   *)
(***************************************************************************)
EXTENDS Integers, Sequences

CONSTANTS
  Subscribers,  \* clients of the verifications subscription
  Attentive,    \* those of them that stay connected and keep reading
  Event,        \* VerificationEvent
  Slots,        \* slots of the ring: capacity.max(1), which the channel
                \* rounds up to a power of two; 1024 in build_state
  MaxEvents     \* bound: decisions published

ASSUME SlotsAssumption == Slots \in Nat \ {0}
ASSUME AttentiveAssumption == Attentive \subseteq Subscribers
ASSUME MaxEventsAssumption == MaxEvents \in Nat

VARIABLES
  ring,    \* the slots: the position of the event written last, and the
           \* event (none before the first)
  tail,    \* the position the next event gets
  live,    \* the subscribers whose receiver exists
  next,    \* the position a receiver reads next
  log,     \* history: the events sent to anyone, in order
  last,    \* history: index in log of the event a subscriber got last
  seen,    \* history: the events it got since it joined
  joined,  \* history: tail when it joined
  missed   \* history: the sum of its Lagged errors

receiverVars == <<live, next, last, seen, joined, missed>>
vars == <<ring, tail, log, receiverVars>>

Feed == INSTANCE AuditFeed

(* The slot of a position.                                                 *)
Slot(pos) == pos % Slots

(* BroadcastAuditSink::new; the receiver channel() returns is dropped.     *)
(* Slots start one lap behind, so that none holds the event read next.     *)
Init ==
  /\ ring = [i \in 0..(Slots - 1) |-> [pos |-> i - Slots, event |-> {}]]
  /\ tail = 0
  /\ live = {}
  /\ next = [s \in Subscribers |-> 0]
  /\ log = <<>>
  /\ last = [s \in Subscribers |-> 0]
  /\ seen = [s \in Subscribers |-> <<>>]
  /\ joined = [s \in Subscribers |-> 0]
  /\ missed = [s \in Subscribers |-> 0]

(* AuditSink::record: overwrite the oldest slot; with no receiver, send    *)
(* fails and the error is ignored.                                         *)
Record(e) ==
  /\ tail < MaxEvents
  /\ IF live = {}
       THEN UNCHANGED <<ring, tail, log>>
       ELSE /\ ring' = [ring EXCEPT ![Slot(tail)] = [pos |-> tail, event |-> {e}]]
            /\ tail' = tail + 1
            /\ log' = Append(log, e)
  /\ UNCHANGED receiverVars

(* Where a new receiver starts.                                            *)
FromTail == tail

(* SubscriptionRoot::verifications subscribes.                             *)
Subscribe(s) ==
  /\ s \notin live
  /\ live' = live \union {s}
  /\ next' = [next EXCEPT ![s] = FromTail]
  /\ last' = [last EXCEPT ![s] = tail]
  /\ seen' = [seen EXCEPT ![s] = <<>>]
  /\ joined' = [joined EXCEPT ![s] = tail]
  /\ missed' = [missed EXCEPT ![s] = 0]
  /\ UNCHANGED <<ring, tail, log>>

(* The client disconnects and its stream is dropped.                       *)
Disconnect(s) ==
  /\ s \in live \ Attentive
  /\ live' = live \ {s}
  /\ UNCHANGED <<ring, tail, log, next, last, seen, joined, missed>>

At(s) == ring[Slot(next[s])]

(* The slot holds the event the receiver is to read, ...                   *)
HoldsNext(s) == At(s).pos = next[s]

(* ... or the one a lap before it: nothing to read yet.                    *)
Empty(s) == At(s).pos + Slots = next[s]

(* The stream yields an event.                                             *)
Receive(s) ==
  /\ s \in live
  /\ HoldsNext(s)
  /\ next' = [next EXCEPT ![s] = @ + 1]
  /\ last' = [last EXCEPT ![s] = next[s] + 1]
  /\ \E e \in At(s).event : seen' = [seen EXCEPT ![s] = Append(@, e)]
  /\ UNCHANGED <<ring, tail, log, live, joined, missed>>

LagEndsStream(s) ==   \* mutant: the stream stops at its first error
  /\ s \in live
  /\ ~HoldsNext(s) /\ ~Empty(s)
  /\ live' = live \ {s}
  /\ UNCHANGED <<ring, tail, log, next, last, seen, joined, missed>>

LagToTail(s) ==   \* mutant: what the ring still holds is skipped
  /\ s \in live
  /\ ~HoldsNext(s) /\ ~Empty(s)
  /\ next' = [next EXCEPT ![s] = tail]
  /\ missed' = [missed EXCEPT ![s] = @ + tail - Slots - next[s]]
  /\ UNCHANGED <<ring, tail, log, live, last, seen, joined>>

(* The slot was overwritten: the receiver moves to the oldest event kept   *)
(* and yields Lagged(n), which the resolver filters out (r.ok()).          *)
Lag(s) ==
  /\ s \in live
  /\ ~HoldsNext(s) /\ ~Empty(s)
  /\ next' = [next EXCEPT ![s] = tail - Slots]
  /\ missed' = [missed EXCEPT ![s] = @ + tail - Slots - next[s]]
  /\ UNCHANGED <<ring, tail, log, live, last, seen, joined>>

Next ==
  \/ \E e \in Event : Record(e)
  \/ \E s \in Subscribers : Subscribe(s) \/ Disconnect(s) \/ Receive(s) \/ Lag(s)

Spec == Init /\ [][Next]_vars

(* A sent event wakes the tasks that wait for it, and a task whose client  *)
(* takes what it is sent polls its stream again.                           *)
Fairness == \A s \in Attentive : WF_vars(Receive(s) \/ Lag(s))

FairSpec == Spec /\ Fairness

-----------------------------------------------------------------------------
(* Type invariant of the channel.                                          *)
TypeOK ==
  /\ ring \in [0..(Slots - 1) -> [pos : Int, event : SUBSET Event]]
  /\ tail \in 0..MaxEvents
  /\ live \subseteq Subscribers
  /\ next \in [Subscribers -> 0..tail]
  /\ log \in Seq(Event)
  /\ last \in [Subscribers -> 0..tail]
  /\ seen \in [Subscribers -> Seq(Event)]
  /\ joined \in [Subscribers -> 0..tail]
  /\ missed \in [Subscribers -> Nat]

(* Every event sent since a subscriber joined is accounted for exactly     *)
(* once, however the ring laps it: it was given to the subscriber, or      *)
(* reported in a Lagged error, or is yet to be read.                       *)
Accounted ==
  \A s \in Subscribers : Len(seen[s]) + missed[s] = next[s] - joined[s]

(* The ring behaves like the log of AuditFeed: a subscriber gets published *)
(* events in the order of publication, none twice, none from before it     *)
(* joined, and always the oldest one still kept.                           *)
ImplementsFeed == Feed!Spec

(* A client that stays and reads comes to have read everything, also after *)
(* it was lapped: falling behind never ends or stalls a stream.            *)
CatchesUp ==
  \A s \in Attentive : s \in live ~> s \in live /\ next[s] = tail

-----------------------------------------------------------------------------
(* "Streams every verification decision as it is made." (verifications):   *)
(* a subscriber with nothing left to read has got every event since it     *)
(* joined.  Refuted by one that was lapped.                                *)
EveryDecision ==
  \A s \in live :
    next[s] = tail => seen[s] = SubSeq(log, joined[s] + 1, tail)
=============================================================================
