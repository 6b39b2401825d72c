------------------------ MODULE AuditChannelProofs ------------------------
(* Theorems about AuditChannel, for any ring, any subscribers and any      *)
(* events; among them, that the ring implements AuditFeed.                 *)
EXTENDS AuditChannel, TLAPS

(* The positions the ring holds now: the last Slots ones.                  *)
Window == (tail - Slots)..(tail - 1)

(* Each of these positions is in its slot with its event, ...              *)
RingHolds ==
  \A p \in Window :
    ring[Slot(p)].pos = p /\ (p >= 0 => ring[Slot(p)].event = {log[p + 1]})

(* ... and the ring holds no other.                                        *)
RingKeepsWindow == \A i \in 0..(Slots - 1) : ring[i].pos \in Window

LogLength == Len(log) = tail

(* A receiver that skipped events is lapped or on the oldest one kept.     *)
SkipsOnlyLost ==
  \A s \in Subscribers :
    last[s] = next[s] \/ (last[s] < next[s] /\ next[s] <= tail - Slots)

IInv ==
  /\ TypeOK
  /\ LogLength
  /\ RingHolds
  /\ RingKeepsWindow
  /\ SkipsOnlyLost
  /\ Accounted

-----------------------------------------------------------------------------
(* Positions and their slots.                                              *)

LEMMA DivMod ==
  ASSUME NEW a \in Int
  PROVE  \E q \in Int, r \in 0..(Slots - 1) : r = Slot(a) /\ a = Slots * q + r
<1> DEFINE q == a \div Slots
           r == a % Slots
<1>1. q \in Int /\ r \in 0..(Slots - 1)
  BY SlotsAssumption
<1>2. \A x, y \in Int : x = a \div Slots /\ y = a % Slots => a = Slots * x + y
  BY SlotsAssumption
<1> QED
  BY <1>1, <1>2 DEF Slot

LEMMA SlotRange ==
  ASSUME NEW a \in Int
  PROVE  Slot(a) \in 0..(Slots - 1)
  BY SlotsAssumption DEF Slot

(* Two positions less than a lap apart have different slots.               *)
LEMMA SlotsApart ==
  ASSUME NEW a \in Int, NEW b \in Int, a < b, b < a + Slots
  PROVE  Slot(a) # Slot(b)
<1> SUFFICES ASSUME Slot(a) = Slot(b) PROVE FALSE
  OBVIOUS
<1>1. PICK q \in Int, r \in 0..(Slots - 1) : r = Slot(a) /\ a = Slots * q + r
  BY DivMod
<1>2. PICK p \in Int, t \in 0..(Slots - 1) : t = Slot(b) /\ b = Slots * p + t
  BY DivMod
<1>3. b - a = Slots * (p - q)
  BY <1>1, <1>2, SlotsAssumption
<1>4. \A k \in Int : ~(0 < Slots * k /\ Slots * k < Slots)
  BY SlotsAssumption
<1> QED
  BY <1>3, <1>4, SlotsAssumption

(* A position decides its slot by the remainder alone.                     *)
LEMMA SlotOfSum ==
  ASSUME NEW q \in Int, NEW r \in 0..(Slots - 1)
  PROVE  Slot(Slots * q + r) = r
<1> DEFINE a == Slots * q + r
<1>0. a \in Int
  BY SlotsAssumption
<1>1. PICK p \in Int, t \in 0..(Slots - 1) : t = Slot(a) /\ a = Slots * p + t
  BY <1>0, DivMod
<1>2. Slots * (q - p) = t - r
  BY <1>1, SlotsAssumption
<1>3. \A k \in Int : Slots * k < Slots /\ -Slots < Slots * k => k = 0
  BY SlotsAssumption
<1>4. q - p = 0
  BY <1>2, <1>3, SlotsAssumption
<1> QED
  BY <1>1, <1>4, SlotsAssumption

(* A lap leads back to the same slot.                                      *)
LEMMA SlotLap ==
  ASSUME NEW a \in Int
  PROVE  Slot(a - Slots) = Slot(a)
<1>1. PICK q \in Int, r \in 0..(Slots - 1) : r = Slot(a) /\ a = Slots * q + r
  BY DivMod
<1>2. a - Slots = Slots * (q - 1) + r
  BY <1>1, SlotsAssumption
<1>3. \A k \in Int : Slot(Slots * k + r) = r
  BY SlotOfSum
<1>4. q - 1 \in Int
  OBVIOUS
<1> QED
  BY <1>1, <1>2, <1>3, <1>4

LEMMA SlotSmall ==
  ASSUME NEW i \in 0..(Slots - 1)
  PROVE  Slot(i) = i /\ Slot(i - Slots) = i
  BY SlotLap, SlotsAssumption DEF Slot

(* A lap of positions covers every slot: slot i holds the position before  *)
(* tail that is as far from it as the slots are.                           *)
LEMMA WindowCovers ==
  ASSUME NEW i \in 0..(Slots - 1), tail \in Nat
  PROVE  \E p \in Window : Slot(p) = i
<1>0. tail \in Int
  OBVIOUS
<1>1. PICK q \in Int, r \in 0..(Slots - 1) : r = Slot(tail) /\ tail = Slots * q + r
  BY <1>0, DivMod
<1>2. \A k \in Int : Slot(Slots * k + i) = i
  BY SlotOfSum
<1>3. CASE i < r
  <2>1. Slots * q + i \in Window
    BY <1>1, <1>3, SlotsAssumption DEF Window
  <2> QED
    BY <1>2, <2>1
<1>4. CASE i >= r
  <2>1. Slots * (q - 1) + i \in Window /\ q - 1 \in Int
    <3>1. Slots * (q - 1) + i = tail - Slots + (i - r)
      BY <1>1, SlotsAssumption
    <3> QED
      BY <1>1, <1>4, <3>1, SlotsAssumption DEF Window
  <2> QED
    BY <1>2, <2>1
<1> QED
  BY <1>1, <1>3, <1>4

-----------------------------------------------------------------------------
(* What a receiver finds in the slot of its position.                      *)

(* The event it reads next is there if the ring still holds it, ...        *)
LEMMA HoldsNextMeaning ==
  ASSUME IInv, NEW s \in Subscribers, HoldsNext(s)
  PROVE  next[s] \in Window /\ At(s).event = {log[next[s] + 1]}
<1>1. next[s] \in 0..tail /\ tail \in Nat
  BY DEF IInv, TypeOK
<1>2. next[s] \in Window
  BY <1>1, SlotRange DEF IInv, RingKeepsWindow, HoldsNext, At
<1> QED
  BY <1>1, <1>2 DEF IInv, RingHolds, At

(* ... and lapping shows in a position other than the two possible ones.   *)
LEMMA LapMeaning ==
  ASSUME IInv, NEW s \in Subscribers, ~HoldsNext(s), ~Empty(s)
  PROVE  next[s] < tail - Slots
<1>1. next[s] \in 0..tail /\ tail \in Nat
  BY DEF IInv, TypeOK
<1>2. next[s] # tail
  <2> SUFFICES ASSUME next[s] = tail PROVE FALSE
    OBVIOUS
  <2>1. tail - Slots \in Window
    BY <1>1, SlotsAssumption DEF Window
  <2>2. ring[Slot(tail - Slots)].pos = tail - Slots
    BY <2>1 DEF IInv, RingHolds
  <2>3. Slot(tail - Slots) = Slot(tail)
    BY <1>1, SlotLap
  <2> QED
    BY <1>1, <2>2, <2>3, SlotsAssumption DEF Empty, At
<1>3. next[s] \notin Window
  BY DEF IInv, RingHolds, HoldsNext, At
<1> QED
  BY <1>1, <1>2, <1>3, SlotsAssumption DEF Window

-----------------------------------------------------------------------------
LEMMA InitInv == Init => IInv
<1> SUFFICES ASSUME Init PROVE IInv
  OBVIOUS
<1> USE DEF Init
<1>1. TypeOK
  BY SlotsAssumption, MaxEventsAssumption DEF TypeOK
<1>2. LogLength
  BY DEF LogLength
<1>3. RingHolds
  <2> SUFFICES ASSUME NEW p \in Window
               PROVE  ring[Slot(p)].pos = p /\ ~(p >= 0)
    BY DEF RingHolds
  <2>1. p + Slots \in 0..(Slots - 1) /\ p \in Int /\ p < 0
    BY SlotsAssumption DEF Window
  <2>2. Slot(p) = p + Slots
    <3>1. Slot((p + Slots) - Slots) = p + Slots
      BY <2>1, SlotSmall
    <3> QED
      BY <2>1, <3>1, SlotsAssumption
  <2> QED
    BY <2>1, <2>2, SlotsAssumption
<1>4. RingKeepsWindow
  BY SlotsAssumption DEF RingKeepsWindow, Window
<1>5. SkipsOnlyLost
  BY DEF SkipsOnlyLost
<1>6. Accounted
  <2> SUFFICES ASSUME NEW s \in Subscribers
               PROVE  Len(seen[s]) + missed[s] = next[s] - joined[s]
    BY DEF Accounted
  <2>1. Len(seen[s]) = 0 /\ missed[s] = 0 /\ next[s] = 0 /\ joined[s] = 0
    OBVIOUS
  <2> QED
    BY <2>1
<1> QED
  BY <1>1, <1>2, <1>3, <1>4, <1>5, <1>6 DEF IInv

(* A new event takes the slot of the oldest one.                           *)
LEMMA RecordInv ==
  ASSUME IInv, NEW e \in Event, Record(e)
  PROVE  IInv'
<1>1. CASE live = {}
  <2>1. UNCHANGED vars
    BY <1>1 DEF Record, vars
  <2> QED
    BY <2>1 DEF vars, IInv, TypeOK, LogLength, RingHolds, RingKeepsWindow, Window,
                SkipsOnlyLost, Accounted, receiverVars
<1>2. CASE live # {}
  <2>1. /\ ring' = [ring EXCEPT ![Slot(tail)] = [pos |-> tail, event |-> {e}]]
        /\ tail' = tail + 1 /\ tail < MaxEvents
        /\ log' = Append(log, e)
        /\ UNCHANGED receiverVars
    BY <1>2 DEF Record
  <2>2. /\ tail \in Nat /\ log \in Seq(Event) /\ Len(log) = tail
        /\ ring \in [0..(Slots - 1) -> [pos : Int, event : SUBSET Event]]
    BY DEF IInv, TypeOK, LogLength
  <2>3. Slot(tail) \in 0..(Slots - 1)
    BY <2>2, SlotRange
  <2>4. TypeOK'
    BY <2>1, <2>2, <2>3, MaxEventsAssumption DEF IInv, TypeOK, receiverVars
  <2>5. LogLength'
    BY <2>1, <2>2 DEF LogLength
  <2>6. Window' = (tail + 1 - Slots)..tail
    BY <2>1, <2>2, SlotsAssumption DEF Window
  <2>7. RingHolds'
    <3> SUFFICES ASSUME NEW p \in Window'
                 PROVE  /\ ring'[Slot(p)].pos = p
                        /\ p >= 0 => ring'[Slot(p)].event = {log'[p + 1]}
      BY DEF RingHolds, Slot
    <3>1. CASE p = tail
      <4>1. ring'[Slot(p)] = [pos |-> tail, event |-> {e}]
        BY <2>1, <2>2, <2>3, <3>1
      <4>2. log'[p + 1] = e
        BY <2>1, <2>2, <3>1
      <4> QED
        BY <3>1, <4>1, <4>2
    <3>2. CASE p # tail
      <4>1. p \in Int /\ p < tail /\ tail < p + Slots /\ p \in Window
        <5>1. p \in (tail + 1 - Slots)..tail
          BY <2>6
        <5> QED
          BY <2>2, <3>2, <5>1, SlotsAssumption DEF Window
      <4>2. Slot(p) # Slot(tail) /\ Slot(p) \in 0..(Slots - 1)
        BY <2>2, <4>1, SlotsApart, SlotRange
      <4>3. ring'[Slot(p)] = ring[Slot(p)]
        BY <2>1, <2>2, <4>2
      <4>4. p >= 0 => log'[p + 1] = log[p + 1]
        BY <2>1, <2>2, <4>1
      <4> QED
        BY <4>1, <4>3, <4>4 DEF IInv, RingHolds
    <3> QED
      BY <3>1, <3>2
  <2>8. RingKeepsWindow'
    <3> SUFFICES ASSUME NEW i \in 0..(Slots - 1)
                 PROVE  ring'[i].pos \in (tail + 1 - Slots)..tail
      BY <2>6 DEF RingKeepsWindow
    <3>1. CASE i = Slot(tail)
      <4>1. ring'[i].pos = tail
        BY <2>1, <2>2, <3>1
      <4> QED
        BY <2>2, <4>1, SlotsAssumption
    <3>2. CASE i # Slot(tail)
      <4>1. ring'[i] = ring[i] /\ ring[i].pos \in Window
        BY <2>1, <2>2, <3>2 DEF IInv, RingKeepsWindow
      <4>2. ring[i].pos # tail - Slots
        <5> SUFFICES ASSUME ring[i].pos = tail - Slots PROVE FALSE
          OBVIOUS
        <5>1. \E p \in Window : Slot(p) = i
          BY WindowCovers, <2>2
        <5>2. PICK p \in Window : Slot(p) = i
          BY <5>1
        <5>3. p = tail - Slots
          BY <5>2 DEF IInv, RingHolds
        <5>4. Slot(tail - Slots) = Slot(tail)
          BY <2>2, SlotLap
        <5> QED
          BY <3>2, <5>2, <5>3, <5>4
      <4>3. ring[i].pos \in (tail - Slots)..(tail - 1)
        BY <4>1 DEF Window
      <4>4. \A x \in (tail - Slots)..(tail - 1) :
              x # tail - Slots => x \in (tail + 1 - Slots)..tail
        BY <2>2, SlotsAssumption
      <4>5. ring'[i].pos = ring[i].pos
        BY <4>1
      <4> QED
        BY <4>2, <4>3, <4>4, <4>5
    <3> QED
      BY <3>1, <3>2
  <2>9. SkipsOnlyLost'
    BY <2>1, <2>2, SlotsAssumption DEF IInv, TypeOK, SkipsOnlyLost, receiverVars
  <2>10. Accounted'
    BY <2>1 DEF IInv, Accounted, receiverVars
  <2> QED
    BY <2>4, <2>5, <2>7, <2>8, <2>9, <2>10 DEF IInv
<1> QED
  BY <1>1, <1>2

LEMMA SubscribeInv ==
  ASSUME IInv, NEW s \in Subscribers, Subscribe(s)
  PROVE  IInv'
<1>1. /\ live' = live \union {s}
      /\ next' = [next EXCEPT ![s] = tail] /\ last' = [last EXCEPT ![s] = tail]
      /\ seen' = [seen EXCEPT ![s] = <<>>] /\ joined' = [joined EXCEPT ![s] = tail]
      /\ missed' = [missed EXCEPT ![s] = 0]
      /\ UNCHANGED <<ring, tail, log>>
  BY DEF Subscribe, FromTail
<1>2. TypeOK'
  BY <1>1, MaxEventsAssumption DEF IInv, TypeOK
<1>3. LogLength' /\ RingHolds' /\ RingKeepsWindow'
  BY <1>1 DEF IInv, LogLength, RingHolds, RingKeepsWindow, Window, Slot
<1>4. SkipsOnlyLost'
  BY <1>1 DEF IInv, TypeOK, SkipsOnlyLost
<1>5. Accounted'
  <2> SUFFICES ASSUME NEW t \in Subscribers
               PROVE  Len(seen'[t]) + missed'[t] = next'[t] - joined'[t]
    BY DEF Accounted
  <2>1. CASE t = s
    <3>1. seen'[t] = <<>> /\ missed'[t] = 0 /\ next'[t] = tail /\ joined'[t] = tail
      BY <1>1, <2>1 DEF IInv, TypeOK
    <3> QED
      BY <3>1 DEF IInv, TypeOK
  <2>2. CASE t # s
    BY <1>1, <2>2 DEF IInv, TypeOK, Accounted
  <2> QED
    BY <2>1, <2>2
<1> QED
  BY <1>2, <1>3, <1>4, <1>5 DEF IInv

LEMMA DisconnectInv ==
  ASSUME IInv, NEW s \in Subscribers, Disconnect(s)
  PROVE  IInv'
  BY DEF Disconnect, IInv, TypeOK, LogLength, RingHolds, RingKeepsWindow, Window,
         SkipsOnlyLost, Accounted

LEMMA ReceiveInv ==
  ASSUME IInv, NEW s \in Subscribers, Receive(s)
  PROVE  IInv'
<1>1. /\ next[s] \in Window /\ next[s] \in 0..(tail - 1)
      /\ At(s).event = {log[next[s] + 1]}
  <2>1. next[s] \in Window /\ At(s).event = {log[next[s] + 1]}
    BY HoldsNextMeaning DEF Receive
  <2> QED
    BY <2>1 DEF IInv, TypeOK, Window
<1>2. log[next[s] + 1] \in Event
  BY <1>1 DEF IInv, TypeOK, LogLength
<1>3. /\ next' = [next EXCEPT ![s] = next[s] + 1]
      /\ last' = [last EXCEPT ![s] = next[s] + 1]
      /\ seen' = [seen EXCEPT ![s] = Append(seen[s], log[next[s] + 1])]
      /\ UNCHANGED <<ring, tail, log, live, joined, missed>>
  BY <1>1 DEF Receive
<1>4. TypeOK'
  BY <1>1, <1>2, <1>3, MaxEventsAssumption DEF IInv, TypeOK
<1>5. LogLength' /\ RingHolds' /\ RingKeepsWindow'
  BY <1>3 DEF IInv, LogLength, RingHolds, RingKeepsWindow, Window, Slot
<1>6. SkipsOnlyLost'
  BY <1>3 DEF IInv, TypeOK, SkipsOnlyLost
<1>7. Accounted'
  <2> SUFFICES ASSUME NEW t \in Subscribers
               PROVE  Len(seen'[t]) + missed'[t] = next'[t] - joined'[t]
    BY DEF Accounted
  <2>1. CASE t = s
    <3>1. Len(seen'[t]) = Len(seen[t]) + 1 /\ next'[t] = next[t] + 1
      BY <1>2, <1>3, <2>1 DEF IInv, TypeOK
    <3>2. missed' = missed /\ joined' = joined
      BY <1>3
    <3>3. /\ Len(seen[t]) \in Nat /\ missed[t] \in Nat
          /\ next[t] \in Nat /\ joined[t] \in Nat
      BY DEF IInv, TypeOK
    <3>4. Len(seen[t]) + missed[t] = next[t] - joined[t]
      BY DEF IInv, Accounted
    <3>5. (Len(seen[t]) + 1) + missed[t] = (next[t] + 1) - joined[t]
      BY <3>3, <3>4
    <3> QED
      BY <3>1, <3>2, <3>5
  <2>2. CASE t # s
    <3>1. seen'[t] = seen[t] /\ next'[t] = next[t]
      BY <1>3, <2>2 DEF IInv, TypeOK
    <3>2. missed' = missed /\ joined' = joined
      BY <1>3
    <3>3. Len(seen[t]) + missed[t] = next[t] - joined[t]
      BY DEF IInv, Accounted
    <3> QED
      BY <3>1, <3>2, <3>3
  <2> QED
    BY <2>1, <2>2
<1> QED
  BY <1>4, <1>5, <1>6, <1>7 DEF IInv

LEMMA LagInv ==
  ASSUME IInv, NEW s \in Subscribers, Lag(s)
  PROVE  IInv'
<1>1. /\ tail \in Nat /\ next[s] \in Nat /\ next[s] < tail - Slots
      /\ Slots \in Nat \ {0}
  BY LapMeaning, SlotsAssumption DEF Lag, IInv, TypeOK
<1>2. /\ next' = [next EXCEPT ![s] = tail - Slots]
      /\ missed' = [missed EXCEPT ![s] = missed[s] + tail - Slots - next[s]]
      /\ UNCHANGED <<ring, tail, log, live, last, seen, joined>>
  BY DEF Lag
<1>3. TypeOK'
  <2>1. tail - Slots \in 0..tail
    BY <1>1
  <2>2. missed[s] + tail - Slots - next[s] \in Nat
    BY <1>1 DEF IInv, TypeOK
  <2> QED
    BY <1>2, <2>1, <2>2 DEF IInv, TypeOK
<1>4. LogLength' /\ RingHolds' /\ RingKeepsWindow'
  BY <1>2 DEF IInv, LogLength, RingHolds, RingKeepsWindow, Window, Slot
<1>5. SkipsOnlyLost'
  BY <1>1, <1>2 DEF IInv, TypeOK, SkipsOnlyLost
<1>6. Accounted'
  <2> SUFFICES ASSUME NEW t \in Subscribers
               PROVE  Len(seen[t]) + missed'[t] = next'[t] - joined[t]
    BY <1>2 DEF Accounted
  <2>1. /\ Len(seen[t]) \in Nat /\ missed[t] \in Nat
        /\ next[t] \in Nat /\ joined[t] \in Nat
        /\ Len(seen[t]) + missed[t] = next[t] - joined[t]
    BY DEF IInv, TypeOK, Accounted
  <2>2. CASE t = s
    <3>1. next'[t] = tail - Slots /\ missed'[t] = missed[t] + tail - Slots - next[t]
      BY <1>2, <2>2 DEF IInv, TypeOK
    <3>2. \A l, m, n, j \in Nat :
            l + m = n - j => l + (m + tail - Slots - n) = (tail - Slots) - j
      BY <1>1
    <3> QED
      BY <2>1, <3>1, <3>2
  <2>3. CASE t # s
    BY <1>2, <2>1, <2>3 DEF IInv, TypeOK
  <2> QED
    BY <2>2, <2>3
<1> QED
  BY <1>3, <1>4, <1>5, <1>6 DEF IInv

LEMMA StepInv == IInv /\ [Next]_vars => IInv'
<1> SUFFICES ASSUME IInv, [Next]_vars PROVE IInv'
  OBVIOUS
<1>1. ASSUME NEW e \in Event, Record(e) PROVE IInv'
  BY <1>1, RecordInv
<1>2. ASSUME NEW s \in Subscribers, Subscribe(s) \/ Disconnect(s) \/ Receive(s) \/ Lag(s)
      PROVE  IInv'
  BY <1>2, SubscribeInv, DisconnectInv, ReceiveInv, LagInv
<1>3. CASE UNCHANGED vars
  BY <1>3 DEF vars, receiverVars, IInv, TypeOK, LogLength, RingHolds, RingKeepsWindow,
              Window, SkipsOnlyLost, Accounted
<1> QED
  BY <1>1, <1>2, <1>3 DEF Next

LEMMA Invariance == Spec => []IInv
  BY InitInv, StepInv, PTL DEF Spec

(* Every reachable state of the channel is well typed.                     *)
THEOREM TypeCorrect == Spec => []TypeOK
<1>1. IInv => TypeOK
  BY DEF IInv
<1> QED
  BY Invariance, <1>1, PTL

(* Every event sent since a subscriber joined was given to it, reported    *)
(* as missed, or is yet to be read.                                        *)
THEOREM EveryEventAccounted == Spec => []Accounted
<1>1. IInv => Accounted
  BY DEF IInv
<1> QED
  BY Invariance, <1>1, PTL

-----------------------------------------------------------------------------
(* The refinement.                                                         *)

LEMMA RecordRefines ==
  ASSUME NEW e \in Event, Record(e)
  PROVE  Feed!Publish(e)
  BY DEF Record, receiverVars, Feed!Publish

LEMMA SubscribeRefines ==
  ASSUME IInv, NEW s \in Subscribers, Subscribe(s)
  PROVE  Feed!Join(s)
  BY DEF Subscribe, IInv, LogLength, Feed!Join

(* The event received is the oldest one not yet given to the subscriber    *)
(* that the log still counts among its last Slots.                         *)
LEMMA ReceiveRefines ==
  ASSUME IInv, NEW s \in Subscribers, Receive(s)
  PROVE  Feed!Deliver(s)
<1>1. next[s] \in (tail - Slots)..(tail - 1) /\ At(s).event = {log[next[s] + 1]}
  BY HoldsNextMeaning DEF Receive, Window
<1>2. /\ tail \in Nat /\ next[s] \in Nat /\ last[s] \in Nat /\ Len(log) = tail
      /\ last[s] = next[s] \/ (last[s] < next[s] /\ next[s] <= tail - Slots)
  BY DEF IInv, TypeOK, LogLength, SkipsOnlyLost
<1>3. Feed!Oldest(s) = next[s] + 1 /\ last[s] < Len(log)
  BY <1>1, <1>2, SlotsAssumption DEF Feed!Oldest
<1>4. /\ s \in live
      /\ last' = [last EXCEPT ![s] = next[s] + 1]
      /\ seen' = [seen EXCEPT ![s] = Append(seen[s], log[next[s] + 1])]
      /\ UNCHANGED <<log, live>>
  BY <1>1 DEF Receive
<1> QED
  BY <1>3, <1>4 DEF Feed!Deliver

(* The ring implements the log: whatever is overwritten, and however far   *)
(* a subscriber falls behind, it is given published events in their order, *)
(* each at most once, and always the oldest one kept.                      *)
THEOREM RefinesFeed == Spec => ImplementsFeed
<1>1. Init => Feed!Init
  BY DEF Init, Feed!Init
<1>2. IInv /\ [Next]_vars => [Feed!Next]_(Feed!feedVars)
  <2> SUFFICES ASSUME IInv, [Next]_vars PROVE [Feed!Next]_(Feed!feedVars)
    OBVIOUS
  <2>1. ASSUME NEW e \in Event, Record(e) PROVE Feed!Next
    BY <2>1, RecordRefines DEF Feed!Next
  <2>2. ASSUME NEW s \in Subscribers, Subscribe(s) PROVE Feed!Next
    BY <2>2, SubscribeRefines DEF Feed!Next
  <2>3. ASSUME NEW s \in Subscribers, Disconnect(s) PROVE Feed!Next
    <3>1. Feed!Leave(s)
      BY <2>3 DEF Disconnect, Feed!Leave
    <3> QED
      BY <3>1 DEF Feed!Next
  <2>4. ASSUME NEW s \in Subscribers, Receive(s) PROVE Feed!Next
    BY <2>4, ReceiveRefines DEF Feed!Next
  <2>5. ASSUME NEW s \in Subscribers, Lag(s) PROVE UNCHANGED Feed!feedVars
    BY <2>5 DEF Lag, Feed!feedVars
  <2>6. CASE UNCHANGED vars
    BY <2>6 DEF vars, receiverVars, Feed!feedVars
  <2> QED
    BY <2>1, <2>2, <2>3, <2>4, <2>5, <2>6 DEF Next
<1> QED
  BY Invariance, <1>1, <1>2, PTL DEF Spec, ImplementsFeed, Feed!Spec

-----------------------------------------------------------------------------
(* Why a subscriber that reads catches up, as far as single steps tell.    *)

(* A receiver finds nothing to read exactly when it has read everything.   *)
EmptyAtTail == \A s \in Subscribers : Empty(s) <=> next[s] = tail

(* Every read brings it closer to the tail; nothing moves it back.         *)
MovesForward ==
  \A s \in Subscribers :
    /\ s \in live => next[s] <= next'[s]
    /\ Receive(s) \/ Lag(s) => next[s] < next'[s] /\ next'[s] <= tail

LEMMA EmptyMeaning == IInv => EmptyAtTail
<1> SUFFICES ASSUME IInv, NEW s \in Subscribers
             PROVE  Empty(s) <=> next[s] = tail
  BY DEF EmptyAtTail
<1>1. next[s] \in 0..tail /\ tail \in Nat
  BY DEF IInv, TypeOK
<1>2. Slot(next[s]) \in 0..(Slots - 1)
  BY <1>1, SlotRange
<1>3. ASSUME Empty(s) PROVE next[s] = tail
  <2>1. ring[Slot(next[s])].pos \in Window /\ ring[Slot(next[s])].pos + Slots = next[s]
    BY <1>2, <1>3 DEF IInv, RingKeepsWindow, Empty, At
  <2> QED
    BY <1>1, <2>1, SlotsAssumption DEF Window
<1>4. ASSUME next[s] = tail PROVE Empty(s)
  <2>1. tail \notin Window
    BY <1>1 DEF Window
  <2>2. ~HoldsNext(s)
    BY <1>4, <2>1, HoldsNextMeaning
  <2> QED
    BY <1>1, <1>4, <2>2, LapMeaning, SlotsAssumption
<1> QED
  BY <1>3, <1>4

LEMMA ReadMoves == IInv /\ [Next]_vars => [MovesForward]_vars
<1> SUFFICES ASSUME IInv, Next, NEW s \in Subscribers
             PROVE  /\ s \in live => next[s] <= next'[s]
                    /\ Receive(s) \/ Lag(s) => next[s] < next'[s] /\ next'[s] <= tail
  BY DEF MovesForward
<1>1. next \in [Subscribers -> 0..tail] /\ tail \in Nat
  BY DEF IInv, TypeOK
<1>2. ASSUME NEW r \in Subscribers, Receive(r)
      PROVE  next' = [next EXCEPT ![r] = next[r] + 1] /\ next[r] < tail
  BY <1>1, <1>2, HoldsNextMeaning DEF Receive, Window
<1>3. ASSUME NEW r \in Subscribers, Lag(r)
      PROVE  next' = [next EXCEPT ![r] = tail - Slots] /\ next[r] < tail - Slots
  BY <1>3, LapMeaning DEF Lag
<1>4. Receive(s) \/ Lag(s) => next[s] < next'[s] /\ next'[s] <= tail
  BY <1>1, <1>2, <1>3, SlotsAssumption
<1>5. ASSUME s \in live PROVE next[s] <= next'[s]
  <2>1. ASSUME NEW e \in Event, Record(e) PROVE next' = next
    BY <2>1 DEF Record, receiverVars
  <2>2. ASSUME NEW r \in Subscribers, Subscribe(r) PROVE next'[s] = next[s]
    BY <1>1, <1>5, <2>2 DEF Subscribe
  <2>3. ASSUME NEW r \in Subscribers, Disconnect(r) PROVE next' = next
    BY <2>3 DEF Disconnect
  <2>4. ASSUME NEW r \in Subscribers, Receive(r) \/ Lag(r) PROVE next[s] <= next'[s]
    BY <1>1, <1>2, <1>3, <2>4, SlotsAssumption
  <2> QED
    BY <1>1, <2>1, <2>2, <2>3, <2>4 DEF Next
<1> QED
  BY <1>4, <1>5

(* The steps behind CatchesUp: a stream with nothing to read has read all  *)
(* that was sent, every other one is moved towards the tail by its next    *)
(* read, also by the one that reports a lag, and nothing moves it back.    *)
THEOREM ReadingCatchesUp == Spec => []EmptyAtTail /\ [][MovesForward]_vars
  BY Invariance, EmptyMeaning, ReadMoves, PTL DEF Spec
=============================================================================
