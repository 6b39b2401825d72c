----------------------------- MODULE AuditFeed -----------------------------
(***************************************************************************)
(* What the audit stream promises a subscriber, without a ring: one log of *)
(* the published decisions, of which each subscriber is given the oldest   *)
(* it has not been given yet among the last Slots.  AuditChannel           *)
(* implements it; EdgeService publishes through it.                        *)
(***************************************************************************)
EXTENDS Integers, Sequences

CONSTANTS
  Subscribers,  \* clients of the verifications subscription
  Event,        \* VerificationEvent
  Slots         \* events the channel retains, at least one

VARIABLES
  log,    \* the events published while anyone subscribed
  live,   \* the subscribers connected now
  last,   \* index in log of the last event a subscriber was given, or of
          \* the last event before it joined
  seen    \* the events a subscriber was given since it joined

feedVars == <<log, live, last, seen>>

Init ==
  /\ log = <<>>
  /\ live = {}
  /\ last = [s \in Subscribers |-> 0]
  /\ seen = [s \in Subscribers |-> <<>>]

(* A decision made while nobody subscribes is kept for nobody.             *)
Publish(e) ==
  /\ log' = IF live = {} THEN log ELSE Append(log, e)
  /\ UNCHANGED <<live, last, seen>>

(* The stream of a subscriber begins with the next event.                  *)
Join(s) ==
  /\ s \notin live
  /\ live' = live \union {s}
  /\ last' = [last EXCEPT ![s] = Len(log)]
  /\ seen' = [seen EXCEPT ![s] = <<>>]
  /\ UNCHANGED log

Leave(s) ==
  /\ s \in live
  /\ live' = live \ {s}
  /\ UNCHANGED <<log, last, seen>>

Oldest(s) ==
  IF last[s] >= Len(log) - Slots THEN last[s] + 1 ELSE Len(log) - Slots + 1

Deliver(s) ==
  /\ s \in live
  /\ last[s] < Len(log)
  /\ last' = [last EXCEPT ![s] = Oldest(s)]
  /\ seen' = [seen EXCEPT ![s] = Append(@, log[Oldest(s)])]
  /\ UNCHANGED <<log, live>>

Next ==
  \/ \E e \in Event : Publish(e)
  \/ \E s \in Subscribers : Join(s) \/ Leave(s) \/ Deliver(s)

Spec == Init /\ [][Next]_feedVars
=============================================================================
