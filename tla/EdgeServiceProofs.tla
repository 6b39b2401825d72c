------------------------- MODULE EdgeServiceProofs -------------------------
(* Theorems about EdgeService, for any number of requests, queries and     *)
(* subscribers, any documents, key sets and times.                         *)
EXTENDS EdgeService, FiniteSetTheorems, TLAPS

(* The locals that TypeOK leaves untyped are functions on Requests.        *)
Shape ==
  /\ policy = [r \in Requests |-> policy[r]]
  /\ keys = [r \in Requests |-> keys[r]]
  /\ offered = [r \in Requests |-> offered[r]]
  /\ instants = [q \in Queries |-> instants[q]]

(* The cached key set, and a request's snapshot of it, are among those     *)
(* offered since the request arrived.                                      *)
KeysOffered ==
  \A r \in Requests :
    /\ pc[r] # "idle" => jwks \in offered[r]
    /\ pc[r] \in {"clock", "decided", "counted"} /\ doc[r].kind = "jwt"
         => keys[r] \in offered[r]

(* Nothing is stamped later than the clock, and a decided request not      *)
(* before the events it found when it arrived.                             *)
StampsOrdered ==
  ~stepped =>
    /\ \A i \in DOMAIN log : log[i].at <= clock
    /\ \A r \in Requests :
         pc[r] \in {"decided", "counted"} =>
           now[r] <= clock /\ \A i \in 1..began[r] : log[i].at <= now[r]

(* A running query has the present counters among its instants.            *)
PresentAmongInstants ==
  \A q \in Queries : reading[q] # {} => counters \in instants[q]

IInv ==
  /\ TypeOK
  /\ Shape
  /\ CountersMatchEvents
  /\ KeysOffered
  /\ StampsOrdered
  /\ DisorderOnlyByOverlap
  /\ PresentAmongInstants
  /\ StatsWithinQuery

-----------------------------------------------------------------------------
(* Every kind and verdict has its counter.                                 *)
LEMMA CounterTyped ==
  ASSUME NEW k \in {"jwt", "vc"}, NEW v \in BOOLEAN
  PROVE  CounterOf(k, v) \in Counter
  BY DEF CounterOf, Counter

LEMMA CountedTyped ==
  ASSUME TypeOK, NEW r \in Requests
  PROVE  Counted(r) \in Counter
<1>1. doc[r].kind \in {"jwt", "vc"}
  BY DocumentsAssumption DEF TypeOK
<1>2. Valid(r) \in BOOLEAN
  BY DEF Valid
<1> QED
  BY <1>1, <1>2, CounterTyped DEF Counted

LEMMA TimesInt == Times \subseteq Int
  BY TimesAssumption, HalfAssumption DEF I64

LEMMA DefaultsTyped ==
  ASSUME TypeOK
  PROVE  AnyDocument \in Documents /\ AnyTime \in Times
<1>1. AnyDocument \in Documents
  BY DocumentsAssumption DEF AnyDocument
<1>2. AnyTime \in Times
  BY DEF TypeOK, AnyTime
<1> QED
  BY <1>1, <1>2

(* The sets whose cardinalities the counters are, are finite.              *)
LEMMA Finite ==
  ASSUME TypeOK, NEW c
  PROVE  IsFiniteSet(ToEmit(c)) /\ IsFiniteSet(EventsOf(c))
<1>1. IsFiniteSet(ToEmit(c))
  BY RequestsAssumption, FS_Subset DEF ToEmit
<1>2. Len(log) \in Nat /\ DOMAIN log = 1..Len(log)
  BY DEF TypeOK
<1>3. IsFiniteSet(1..Len(log))
  BY <1>2, FS_Interval
<1> QED
  BY <1>1, <1>2, <1>3, FS_Subset DEF EventsOf

(* A step that moves no request into or out of "counted", and changes no   *)
(* local of those there, leaves what is to be emitted alone.               *)
LEMMA ToEmitSame ==
  ASSUME NEW c,
         \A r \in Requests :
           /\ pc'[r] = "counted" <=> pc[r] = "counted"
           /\ pc[r] = "counted" =>
                /\ doc'[r] = doc[r] /\ policy'[r] = policy[r]
                /\ keys'[r] = keys[r] /\ now'[r] = now[r]
  PROVE  ToEmit(c)' = ToEmit(c)
<1>1. \A r \in Requests : pc[r] = "counted" => Counted(r)' = Counted(r)
  BY DEF Counted, Valid, Result
<1> QED
  BY <1>1 DEF ToEmit

-----------------------------------------------------------------------------
LEMMA InitInv == Init => IInv
<1> SUFFICES ASSUME Init PROVE IInv
  OBVIOUS
<1> USE DEF Init, Feed!Init
<1>1. AnyDocument \in Documents /\ AnyTime \in Times
  BY DocumentsAssumption DEF AnyDocument, AnyTime
<1>2. TypeOK
  <2>1. /\ jwks \in KeySets /\ clock \in Times /\ live \subseteq Subscribers
        /\ stepped \in BOOLEAN
        /\ pc \in [Requests -> PC] /\ doc \in [Requests -> Documents]
        /\ now \in [Requests -> Times]
    BY <1>1 DEF PC
  <2>2. \A r \in Requests : Result(r) = {} => pc[r] # "counted"
    OBVIOUS
  <2>3. Zero \in [Counter -> Nat]
    BY DEF Zero
  <2>4. /\ counters \in [Counter -> Nat] /\ unheard \in [Counter -> Nat]
        /\ reading \in [Queries -> SUBSET Counter]
        /\ snapshot \in [Queries -> [Counter -> Nat]]
    BY <2>3
  <2>5. log \in Seq(Event) /\ began \in [Requests -> 0..Len(log)]
    BY DEF Event
  <2> QED
    BY <2>1, <2>2, <2>4, <2>5 DEF TypeOK
<1>3. Shape
  BY DEF Shape
<1>4. CountersMatchEvents
  <2> SUFFICES ASSUME NEW c \in Counter
               PROVE  counters[c] = Cardinality(EventsOf(c)) + unheard[c] + Cardinality(ToEmit(c))
    BY DEF CountersMatchEvents
  <2>1. EventsOf(c) = {} /\ ToEmit(c) = {}
    BY DEF EventsOf, ToEmit
  <2>2. counters[c] = 0 /\ unheard[c] = 0
    BY DEF Zero
  <2> QED
    BY <2>1, <2>2, FS_EmptySet
<1>5. KeysOffered /\ StampsOrdered /\ DisorderOnlyByOverlap
  BY DEF KeysOffered, StampsOrdered, DisorderOnlyByOverlap
<1>6. PresentAmongInstants
  BY DEF PresentAmongInstants
<1>7. StatsWithinQuery
  BY DEF StatsWithinQuery, Zero
<1> QED
  BY <1>2, <1>3, <1>4, <1>5, <1>6, <1>7 DEF IInv

-----------------------------------------------------------------------------
(* The steps of a request.                                                 *)

LEMMA ArriveInv ==
  ASSUME IInv, NEW r \in Requests, NEW d \in Documents, NEW o \in Overrides, Arrive(r, d, o)
  PROVE  IInv'
<1> USE DEF IInv
<1>1. /\ pc[r] = "idle"
      /\ pc' = [pc EXCEPT ![r] = IF d.kind = "jwt" THEN "keys" ELSE "clock"]
      /\ doc' = [doc EXCEPT ![r] = d]
      /\ policy' = [policy EXCEPT ![r] = EffectivePolicy(BasePolicy, o)]
      /\ began' = [began EXCEPT ![r] = Len(log)]
      /\ offered' = [offered EXCEPT ![r] = {jwks}]
      /\ UNCHANGED <<jwks, clock, stepped, keys, now, counters, reading, snapshot, instants>>
      /\ UNCHANGED <<log, live, last, seen, unheard>>
  BY DEF Arrive, Goto, statsVars, feedVars
<1>2. pc'[r] \in {"keys", "clock"} /\ \A x \in Requests \ {r} :
        pc'[x] = pc[x] /\ doc'[x] = doc[x] /\ policy'[x] = policy[x]
  BY <1>1 DEF TypeOK, Shape
<1>3. TypeOK'
  <2>1. \A x \in Requests : Result(x)' = {} => pc'[x] # "counted"
    BY <1>1, <1>2 DEF TypeOK, Result
  <2>2. Len(log) \in 0..Len(log)
    BY DEF TypeOK
  <2>3. pc' \in [Requests -> PC]
    BY <1>1 DEF TypeOK, PC
  <2> QED
    BY <1>1, <2>1, <2>2, <2>3 DEF TypeOK
<1>4. Shape'
  BY <1>1 DEF Shape
<1>5. CountersMatchEvents'
  <2>1. \A c : ToEmit(c)' = ToEmit(c)
    BY <1>1, <1>2, ToEmitSame
  <2> QED
    BY <1>1, <2>1 DEF CountersMatchEvents, EventsOf
<1>6. KeysOffered'
  <2> SUFFICES ASSUME NEW x \in Requests
               PROVE  /\ pc'[x] # "idle" => jwks' \in offered'[x]
                      /\ pc'[x] \in {"clock", "decided", "counted"} /\ doc'[x].kind = "jwt"
                           => keys'[x] \in offered'[x]
    BY DEF KeysOffered
  <2>1. CASE x = r
    <3>1. offered'[x] = {jwks} /\ doc'[x] = d /\ jwks' = jwks
      BY <1>1, <2>1 DEF TypeOK, Shape
    <3>2. d.kind = "jwt" => pc'[x] = "keys"
      BY <1>1, <2>1 DEF TypeOK
    <3> QED
      BY <3>1, <3>2
  <2>2. CASE x # r
    BY <1>1, <1>2, <2>2 DEF KeysOffered, Shape
  <2> QED
    BY <2>1, <2>2
<1>7. StampsOrdered'
  BY <1>1, <1>2 DEF StampsOrdered, TypeOK
<1>8. DisorderOnlyByOverlap' /\ PresentAmongInstants' /\ StatsWithinQuery'
  BY <1>1 DEF DisorderOnlyByOverlap, PresentAmongInstants, StatsWithinQuery
<1> QED
  BY <1>3, <1>4, <1>5, <1>6, <1>7, <1>8

LEMMA TakeKeysInv ==
  ASSUME IInv, NEW r \in Requests, TakeKeys(r)
  PROVE  IInv'
<1> USE DEF IInv
<1>1. /\ pc[r] = "keys"
      /\ pc' = [pc EXCEPT ![r] = "clock"]
      /\ keys' = [keys EXCEPT ![r] = jwks]
      /\ UNCHANGED <<jwks, clock, stepped, doc, policy, now, began, offered, counters>>
      /\ UNCHANGED <<reading, snapshot, instants, log, live, last, seen, unheard>>
  BY DEF TakeKeys, Goto, Current, statsVars, feedVars
<1>2. pc'[r] = "clock" /\ keys'[r] = jwks
      /\ \A x \in Requests \ {r} : pc'[x] = pc[x] /\ keys'[x] = keys[x]
  BY <1>1 DEF TypeOK, Shape
<1>3. TypeOK'
  <2>1. \A x \in Requests : Result(x)' = {} => pc'[x] # "counted"
    BY <1>1, <1>2 DEF TypeOK, Result
  <2>2. pc' \in [Requests -> PC]
    BY <1>1 DEF TypeOK, PC
  <2> QED
    BY <1>1, <2>1, <2>2 DEF TypeOK
<1>4. Shape'
  BY <1>1 DEF Shape
<1>5. CountersMatchEvents'
  <2>1. \A c : ToEmit(c)' = ToEmit(c)
    BY <1>1, <1>2, ToEmitSame
  <2> QED
    BY <1>1, <2>1 DEF CountersMatchEvents, EventsOf
<1>6. KeysOffered'
  BY <1>1, <1>2 DEF KeysOffered
<1>7. StampsOrdered'
  BY <1>1, <1>2 DEF StampsOrdered
<1>8. DisorderOnlyByOverlap' /\ PresentAmongInstants' /\ StatsWithinQuery'
  BY <1>1 DEF DisorderOnlyByOverlap, PresentAmongInstants, StatsWithinQuery
<1> QED
  BY <1>3, <1>4, <1>5, <1>6, <1>7, <1>8

LEMMA DecideInv ==
  ASSUME IInv, NEW r \in Requests, Decide(r)
  PROVE  IInv'
<1> USE DEF IInv
<1>1. /\ pc[r] = "clock"
      /\ pc' = [pc EXCEPT ![r] = "decided"]
      /\ now' = [now EXCEPT ![r] = clock]
      /\ UNCHANGED <<jwks, clock, stepped, doc, policy, keys, began, offered, counters>>
      /\ UNCHANGED <<reading, snapshot, instants, log, live, last, seen, unheard>>
  BY DEF Decide, Goto, Readings, statsVars, feedVars
<1>2. pc'[r] = "decided" /\ now'[r] = clock
      /\ \A x \in Requests \ {r} : pc'[x] = pc[x] /\ now'[x] = now[x]
  BY <1>1 DEF TypeOK
<1>3. TypeOK'
  <2>1. \A x \in Requests : Result(x)' = {} => pc'[x] # "counted"
    BY <1>1, <1>2 DEF TypeOK, Result
  <2>2. pc' \in [Requests -> PC]
    BY <1>1 DEF TypeOK, PC
  <2> QED
    BY <1>1, <2>1, <2>2 DEF TypeOK
<1>4. Shape'
  BY <1>1 DEF Shape
<1>5. CountersMatchEvents'
  <2>1. \A c : ToEmit(c)' = ToEmit(c)
    BY <1>1, <1>2, ToEmitSame
  <2> QED
    BY <1>1, <2>1 DEF CountersMatchEvents, EventsOf
<1>6. KeysOffered'
  BY <1>1, <1>2 DEF KeysOffered
<1>7. StampsOrdered'
  <2> SUFFICES ASSUME ~stepped, NEW x \in Requests, pc'[x] \in {"decided", "counted"}
               PROVE  now'[x] <= clock /\ \A i \in 1..began[x] : log[i].at <= now'[x]
    BY <1>1 DEF StampsOrdered
  <2>1. CASE x = r
    <3>1. clock \in Int /\ now'[x] = clock
      BY <1>2, <2>1, TimesInt DEF TypeOK
    <3>2. 1..began[x] \subseteq DOMAIN log
      BY DEF TypeOK
    <3> QED
      BY <3>1, <3>2 DEF StampsOrdered
  <2>2. CASE x # r
    BY <1>2, <2>2 DEF StampsOrdered
  <2> QED
    BY <2>1, <2>2
<1>8. DisorderOnlyByOverlap' /\ PresentAmongInstants' /\ StatsWithinQuery'
  BY <1>1 DEF DisorderOnlyByOverlap, PresentAmongInstants, StatsWithinQuery
<1> QED
  BY <1>3, <1>4, <1>5, <1>6, <1>7, <1>8

(* A request that is forgotten leaves the others as they were.             *)
LEMMA ForgetOthers ==
  ASSUME TypeOK, Shape, NEW r \in Requests, Forget(r), pc' = [pc EXCEPT ![r] = "idle"]
  PROVE  /\ pc'[r] = "idle" /\ pc' \in [Requests -> PC]
         /\ doc' \in [Requests -> Documents] /\ now' \in [Requests -> Times]
         /\ began'[r] = 0 /\ began' = [began EXCEPT ![r] = 0]
         /\ \A x \in Requests \ {r} :
              /\ pc'[x] = pc[x] /\ doc'[x] = doc[x] /\ policy'[x] = policy[x]
              /\ keys'[x] = keys[x] /\ now'[x] = now[x]
              /\ began'[x] = began[x] /\ offered'[x] = offered[x]
         /\ instants' = instants => Shape'
<1>1. AnyDocument \in Documents /\ AnyTime \in Times
  BY DefaultsTyped
<1>2. /\ pc'[r] = "idle" /\ pc' \in [Requests -> PC]
      /\ doc' \in [Requests -> Documents] /\ now' \in [Requests -> Times]
      /\ began'[r] = 0 /\ began' = [began EXCEPT ![r] = 0]
  BY <1>1 DEF Forget, TypeOK, PC
<1>3. \A x \in Requests \ {r} :
        /\ pc'[x] = pc[x] /\ doc'[x] = doc[x] /\ policy'[x] = policy[x]
        /\ keys'[x] = keys[x] /\ now'[x] = now[x]
        /\ began'[x] = began[x] /\ offered'[x] = offered[x]
  BY DEF Forget, TypeOK, Shape
<1>4. instants' = instants => Shape'
  BY DEF Forget, Shape
<1> QED
  BY <1>2, <1>3, <1>4

LEMMA RefuseInv ==
  ASSUME IInv, NEW r \in Requests, Refuse(r)
  PROVE  IInv'
<1> USE DEF IInv
<1>1. /\ pc[r] = "decided" /\ pc' = [pc EXCEPT ![r] = "idle"] /\ Forget(r)
      /\ UNCHANGED <<jwks, clock, stepped, counters, reading, snapshot, instants>>
      /\ UNCHANGED <<log, live, last, seen, unheard>>
  BY DEF Refuse, Goto, statsVars, feedVars
<1>2. /\ pc'[r] = "idle" /\ pc' \in [Requests -> PC]
      /\ doc' \in [Requests -> Documents] /\ now' \in [Requests -> Times]
      /\ began' = [began EXCEPT ![r] = 0]
      /\ \A x \in Requests \ {r} :
           /\ pc'[x] = pc[x] /\ doc'[x] = doc[x] /\ policy'[x] = policy[x]
           /\ keys'[x] = keys[x] /\ now'[x] = now[x]
           /\ began'[x] = began[x] /\ offered'[x] = offered[x]
      /\ Shape'
  BY <1>1, ForgetOthers
<1>3. TypeOK'
  <2>1. \A x \in Requests : Result(x)' = {} => pc'[x] # "counted"
    BY <1>2 DEF TypeOK, Result
  <2>2. began' \in [Requests -> 0..Len(log)]
    BY <1>2 DEF TypeOK
  <2> QED
    BY <1>1, <1>2, <2>1, <2>2 DEF TypeOK
<1>5. CountersMatchEvents'
  <2>1. \A c : ToEmit(c)' = ToEmit(c)
    BY <1>1, <1>2, ToEmitSame
  <2> QED
    BY <1>1, <2>1 DEF CountersMatchEvents, EventsOf
<1>6. KeysOffered'
  BY <1>1, <1>2 DEF KeysOffered
<1>7. StampsOrdered'
  BY <1>1, <1>2 DEF StampsOrdered
<1>8. DisorderOnlyByOverlap' /\ PresentAmongInstants' /\ StatsWithinQuery'
  BY <1>1 DEF DisorderOnlyByOverlap, PresentAmongInstants, StatsWithinQuery
<1> QED
  BY <1>2, <1>3, <1>5, <1>6, <1>7, <1>8

(* Counting moves the request to those whose event is to be sent.          *)
LEMMA CountInv ==
  ASSUME IInv, NEW r \in Requests, Count(r)
  PROVE  IInv'
<1> USE DEF IInv
<1>0. Counted(r) \in Counter
  BY CountedTyped
<1>1. /\ Result(r) # {}
      /\ pc[r] = "decided" /\ pc' = [pc EXCEPT ![r] = "counted"]
      /\ counters' = [counters EXCEPT ![Counted(r)] = counters[Counted(r)] + 1]
      /\ instants' = [q \in Queries |->
                        IF reading[q] = {} THEN {} ELSE instants[q] \union {counters'}]
      /\ UNCHANGED <<jwks, clock, stepped, doc, policy, keys, now, began, offered>>
      /\ UNCHANGED <<reading, snapshot, log, live, last, seen, unheard>>
  BY DEF Count, Goto, feedVars
<1>2. pc'[r] = "counted" /\ \A x \in Requests \ {r} : pc'[x] = pc[x]
  BY <1>1 DEF TypeOK
<1>3. /\ counters' \in [Counter -> Nat]
      /\ counters'[Counted(r)] = counters[Counted(r)] + 1
      /\ \A c \in Counter \ {Counted(r)} : counters'[c] = counters[c]
  BY <1>0, <1>1 DEF TypeOK
<1>4. TypeOK'
  <2>1. \A x \in Requests : Result(x)' = Result(x)
    BY <1>1 DEF Result
  <2>2. \A x \in Requests : Result(x)' = {} => pc'[x] # "counted"
    BY <1>1, <1>2, <2>1 DEF TypeOK
  <2>3. pc' \in [Requests -> PC]
    BY <1>1 DEF TypeOK, PC
  <2> QED
    BY <1>1, <1>3, <2>2, <2>3 DEF TypeOK
<1>5. Shape'
  BY <1>1 DEF Shape
<1>6. CountersMatchEvents'
  <2> SUFFICES ASSUME NEW c \in Counter
               PROVE  counters'[c] = Cardinality(EventsOf(c)') + unheard'[c]
                                       + Cardinality(ToEmit(c)')
    BY DEF CountersMatchEvents
  <2>0. EventsOf(c)' = EventsOf(c) /\ unheard' = unheard
    BY <1>1 DEF EventsOf
  <2>1. \A x \in Requests : Counted(x)' = Counted(x)
    BY <1>1 DEF Counted, Valid, Result
  <2>2. /\ IsFiniteSet(ToEmit(c)) /\ Cardinality(ToEmit(c)) \in Nat
        /\ Cardinality(EventsOf(c)) \in Nat
    BY Finite, FS_CardinalityType
  <2>3. /\ counters[c] \in Nat /\ unheard[c] \in Nat
        /\ counters[c] = Cardinality(EventsOf(c)) + unheard[c] + Cardinality(ToEmit(c))
    BY DEF TypeOK, CountersMatchEvents
  <2>4. CASE c = Counted(r)
    <3>1. ToEmit(c)' = ToEmit(c) \union {r} /\ r \notin ToEmit(c)
      BY <1>1, <1>2, <2>1, <2>4 DEF ToEmit
    <3>2. Cardinality(ToEmit(c)') = Cardinality(ToEmit(c)) + 1
      BY <2>2, <3>1, FS_AddElement
    <3> QED
      BY <1>3, <2>0, <2>2, <2>3, <2>4, <3>2
  <2>5. CASE c # Counted(r)
    <3>1. ToEmit(c)' = ToEmit(c)
      BY <1>1, <1>2, <2>1, <2>5 DEF ToEmit
    <3> QED
      BY <1>3, <2>0, <2>3, <2>5, <3>1
  <2> QED
    BY <2>4, <2>5
<1>7. KeysOffered'
  BY <1>1, <1>2 DEF KeysOffered
<1>8. StampsOrdered'
  BY <1>1, <1>2 DEF StampsOrdered
<1>9. DisorderOnlyByOverlap'
  BY <1>1 DEF DisorderOnlyByOverlap
<1>10. PresentAmongInstants'
  BY <1>1 DEF PresentAmongInstants
<1>11. StatsWithinQuery'
  <2> SUFFICES ASSUME NEW q \in Queries, NEW c \in Counter, c \notin reading[q]
               PROVE  /\ snapshot[q][c] <= counters'[c]
                      /\ instants'[q] # {} => \E v \in instants'[q] : v[c] = snapshot[q][c]
    BY <1>1 DEF StatsWithinQuery
  <2>1. counters[c] <= counters'[c] /\ counters[c] \in Nat /\ counters'[c] \in Nat
    <3>1. counters[c] \in Nat /\ counters'[c] \in Nat
      BY <1>3 DEF TypeOK
    <3>2. CASE c = Counted(r)
      BY <1>3, <3>1, <3>2
    <3>3. CASE c # Counted(r)
      BY <1>3, <3>1, <3>3
    <3> QED
      BY <3>1, <3>2, <3>3
  <2>2. snapshot[q][c] \in Nat /\ snapshot[q][c] <= counters[c]
    BY DEF TypeOK, StatsWithinQuery
  <2>3. instants'[q] # {} => instants[q] # {} /\ instants[q] \subseteq instants'[q]
    BY <1>1 DEF PresentAmongInstants
  <2>4. instants[q] # {} => \E v \in instants[q] : v[c] = snapshot[q][c]
    BY DEF StatsWithinQuery
  <2> QED
    BY <2>1, <2>2, <2>3, <2>4
<1> QED
  BY <1>4, <1>5, <1>6, <1>7, <1>8, <1>9, <1>10, <1>11

(* Sending moves it to the log, or to the events nobody hears.             *)
LEMMA EmitInv ==
  ASSUME IInv, NEW r \in Requests, Emit(r)
  PROVE  IInv'
<1> USE DEF IInv
<1> DEFINE ev == [kind |-> doc[r].kind, valid |-> Valid(r), at |-> now[r], began |-> began[r]]
<1>0. /\ Counted(r) \in Counter /\ ev \in Event
      /\ CounterOf(ev.kind, ev.valid) = Counted(r)
      /\ log \in Seq(Event) /\ Len(log) \in Nat /\ DOMAIN log = 1..Len(log)
  <2>1. doc[r].kind \in {"jwt", "vc"} /\ Valid(r) \in BOOLEAN
    BY DocumentsAssumption DEF TypeOK, Valid
  <2>2. now[r] \in Times /\ began[r] \in Nat
    BY DEF TypeOK
  <2> QED
    BY <2>1, <2>2, CountedTyped DEF Event, Counted, TypeOK
<1>1. /\ pc[r] = "counted" /\ pc' = [pc EXCEPT ![r] = "idle"] /\ Forget(r)
      /\ log' = IF live = {} THEN log ELSE Append(log, ev)
      /\ unheard' = IF live = {} THEN [unheard EXCEPT ![Counted(r)] = @ + 1] ELSE unheard
      /\ UNCHANGED <<jwks, clock, stepped, counters, reading, snapshot, instants>>
      /\ UNCHANGED <<live, last, seen>>
  BY DEF Emit, Goto, statsVars, Feed!Publish
<1>2. /\ pc'[r] = "idle" /\ pc' \in [Requests -> PC]
      /\ doc' \in [Requests -> Documents] /\ now' \in [Requests -> Times]
      /\ began' = [began EXCEPT ![r] = 0] /\ began'[r] = 0
      /\ \A x \in Requests \ {r} :
           /\ pc'[x] = pc[x] /\ doc'[x] = doc[x] /\ policy'[x] = policy[x]
           /\ keys'[x] = keys[x] /\ now'[x] = now[x]
           /\ began'[x] = began[x] /\ offered'[x] = offered[x]
      /\ Shape'
  BY <1>1, ForgetOthers
<1>3. /\ log' \in Seq(Event) /\ Len(log') \in {Len(log), Len(log) + 1}
      /\ \A i \in DOMAIN log : i \in DOMAIN log' /\ log'[i] = log[i]
      /\ \A i \in DOMAIN log' : i \in DOMAIN log \/ (i = Len(log) + 1 /\ log'[i] = ev)
  BY <1>0, <1>1
<1>4. TypeOK'
  <2>1. \A x \in Requests : Result(x)' = {} => pc'[x] # "counted"
    BY <1>2 DEF TypeOK, Result
  <2>2. began' \in [Requests -> 0..Len(log')]
    BY <1>0, <1>2, <1>3 DEF TypeOK
  <2>3. unheard' \in [Counter -> Nat]
    BY <1>0, <1>1 DEF TypeOK
  <2> QED
    BY <1>1, <1>2, <1>3, <2>1, <2>2, <2>3 DEF TypeOK
<1>5. CountersMatchEvents'
  <2> SUFFICES ASSUME NEW c \in Counter
               PROVE  counters[c] = Cardinality(EventsOf(c)') + unheard'[c]
                                      + Cardinality(ToEmit(c)')
    BY <1>1 DEF CountersMatchEvents
  <2>1. /\ IsFiniteSet(ToEmit(c)) /\ Cardinality(ToEmit(c)) \in Nat
        /\ IsFiniteSet(EventsOf(c)) /\ Cardinality(EventsOf(c)) \in Nat
    BY Finite, FS_CardinalityType
  <2>2. /\ counters[c] \in Nat /\ unheard[c] \in Nat
        /\ counters[c] = Cardinality(EventsOf(c)) + unheard[c] + Cardinality(ToEmit(c))
    BY DEF TypeOK, CountersMatchEvents
  <2>3. \A x \in Requests \ {r} : Counted(x)' = Counted(x)
    BY <1>2 DEF Counted, Valid, Result
  <2>4. CASE c = Counted(r)
    <3>1. ToEmit(c)' = ToEmit(c) \ {r} /\ r \in ToEmit(c)
      BY <1>1, <1>2, <2>3, <2>4 DEF ToEmit
    <3>2. Cardinality(ToEmit(c)') = Cardinality(ToEmit(c)) - 1
      BY <2>1, <3>1, FS_RemoveElement
    <3>3. CASE live = {}
      <4>1. EventsOf(c)' = EventsOf(c)
        BY <1>1, <3>3 DEF EventsOf
      <4>2. unheard'[c] = unheard[c] + 1
        BY <1>1, <2>4, <3>3 DEF TypeOK
      <4> QED
        BY <2>1, <2>2, <3>2, <4>1, <4>2
    <3>4. CASE live # {}
      <4>1. log' = Append(log, ev) /\ DOMAIN log' = 1..(Len(log) + 1)
        BY <1>0, <1>1, <3>4
      <4>2. EventsOf(c)' = EventsOf(c) \union {Len(log) + 1}
        <5>1. log'[Len(log) + 1] = ev
          BY <1>0, <4>1
        <5> QED
          BY <1>0, <1>3, <2>4, <4>1, <5>1 DEF EventsOf
      <4>3. Len(log) + 1 \notin EventsOf(c)
        BY <1>0 DEF EventsOf
      <4>4. Cardinality(EventsOf(c)') = Cardinality(EventsOf(c)) + 1
        BY <2>1, <4>2, <4>3, FS_AddElement
      <4>5. unheard'[c] = unheard[c]
        BY <1>1, <3>4
      <4> QED
        BY <2>1, <2>2, <3>2, <4>4, <4>5
    <3> QED
      BY <3>3, <3>4
  <2>5. CASE c # Counted(r)
    <3>1. ToEmit(c)' = ToEmit(c)
      BY <1>1, <1>2, <2>3, <2>5 DEF ToEmit
    <3>2. EventsOf(c)' = EventsOf(c)
      BY <1>0, <1>3, <2>5 DEF EventsOf
    <3>3. unheard'[c] = unheard[c]
      BY <1>1, <2>5 DEF TypeOK
    <3> QED
      BY <2>2, <3>1, <3>2, <3>3
  <2> QED
    BY <2>4, <2>5
<1>6. KeysOffered'
  BY <1>1, <1>2 DEF KeysOffered
<1>7. StampsOrdered'
  <2> SUFFICES ASSUME ~stepped
               PROVE  /\ \A i \in DOMAIN log' : log'[i].at <= clock
                      /\ \A x \in Requests :
                           pc'[x] \in {"decided", "counted"} =>
                             /\ now'[x] <= clock
                             /\ \A i \in 1..began'[x] : log'[i].at <= now'[x]
    BY <1>1 DEF StampsOrdered
  <2>1. ev.at <= clock
    BY <1>1 DEF StampsOrdered
  <2>2. \A i \in DOMAIN log' : log'[i].at <= clock
    BY <1>3, <2>1 DEF StampsOrdered
  <2>3. ASSUME NEW x \in Requests, pc'[x] \in {"decided", "counted"}
        PROVE  now'[x] <= clock /\ \A i \in 1..began'[x] : log'[i].at <= now'[x]
    <3>1. x # r
      BY <1>2, <2>3
    <3>2. 1..began[x] \subseteq DOMAIN log
      BY <1>0 DEF TypeOK
    <3> QED
      BY <1>2, <1>3, <2>3, <3>1, <3>2 DEF StampsOrdered
  <2> QED
    BY <2>2, <2>3
<1>8. DisorderOnlyByOverlap'
  <2> SUFFICES ASSUME ~stepped, NEW i \in DOMAIN log', NEW j \in DOMAIN log',
                      i < j, log'[j].at < log'[i].at
               PROVE  log'[j].began < i
    BY <1>1 DEF DisorderOnlyByOverlap
  <2>1. CASE j \in DOMAIN log
    <3>1. i \in DOMAIN log
      BY <1>0, <1>3, <2>1
    <3> QED
      BY <1>3, <2>1, <3>1 DEF DisorderOnlyByOverlap
  <2>2. CASE j = Len(log) + 1 /\ log'[j] = ev
    <3>1. i \in DOMAIN log /\ log'[i] = log[i] /\ now[r] < log[i].at
      BY <1>0, <1>3, <2>2
    <3>2. \A k \in 1..began[r] : log[k].at <= now[r]
      BY <1>1 DEF StampsOrdered
    <3>3. log[i].at \in Int /\ now[r] \in Int
      <4>1. log[i] \in Event
        BY <1>0, <3>1
      <4>2. log[i].at \in Times /\ now[r] \in Times
        BY <4>1 DEF Event, TypeOK
      <4> QED
        BY <4>2, TimesInt
    <3>4. i \notin 1..began[r]
      BY <3>1, <3>2, <3>3
    <3> QED
      BY <1>0, <2>2, <3>1, <3>4 DEF TypeOK
  <2> QED
    BY <1>3, <2>1, <2>2
<1>9. PresentAmongInstants' /\ StatsWithinQuery'
  BY <1>1 DEF PresentAmongInstants, StatsWithinQuery
<1> QED
  BY <1>2, <1>4, <1>5, <1>6, <1>7, <1>8, <1>9

-----------------------------------------------------------------------------
(* The steps around the requests.                                          *)

LEMMA StoreKeysInv ==
  ASSUME IInv, NEW ks \in KeySets, StoreKeys(ks)
  PROVE  IInv'
<1> USE DEF IInv
<1>1. /\ jwks' = ks
      /\ offered' = [r \in Requests |->
                       IF pc[r] = "idle" THEN {} ELSE offered[r] \union {ks}]
      /\ UNCHANGED <<clock, stepped, pc, doc, policy, keys, now, began, counters>>
      /\ UNCHANGED <<reading, snapshot, instants, log, live, last, seen, unheard>>
  BY DEF StoreKeys, statsVars, feedVars
<1>2. TypeOK'
  <2>1. \A x \in Requests : Result(x)' = Result(x)
    BY <1>1 DEF Result
  <2> QED
    BY <1>1, <2>1 DEF TypeOK
<1>3. Shape'
  BY <1>1 DEF Shape
<1>4. CountersMatchEvents'
  <2>1. \A c : ToEmit(c)' = ToEmit(c)
    BY <1>1, ToEmitSame
  <2> QED
    BY <1>1, <2>1 DEF CountersMatchEvents, EventsOf
<1>5. KeysOffered'
  BY <1>1 DEF KeysOffered
<1>6. StampsOrdered' /\ DisorderOnlyByOverlap' /\ PresentAmongInstants' /\ StatsWithinQuery'
  BY <1>1 DEF StampsOrdered, DisorderOnlyByOverlap, PresentAmongInstants, StatsWithinQuery
<1> QED
  BY <1>2, <1>3, <1>4, <1>5, <1>6

(* Steps that leave the requests, their locals and the log alone.          *)
LEMMA RequestsUntouched ==
  ASSUME TypeOK, Shape, CountersMatchEvents, KeysOffered,
         UNCHANGED <<jwks, requestVars, counters, unheard, log>>
  PROVE  /\ CountersMatchEvents' /\ KeysOffered'
         /\ \A r \in Requests : Result(r)' = Result(r)
<1>1. \A r \in Requests : Result(r)' = Result(r)
  BY DEF Result, requestVars
<1>2. CountersMatchEvents'
  <2>1. \A c : ToEmit(c)' = ToEmit(c)
    BY ToEmitSame DEF requestVars
  <2> QED
    BY <2>1 DEF CountersMatchEvents, EventsOf
<1>3. KeysOffered'
  BY DEF KeysOffered, requestVars
<1> QED
  BY <1>1, <1>2, <1>3

LEMMA SetClockInv ==
  ASSUME IInv, NEW t \in Times, SetClock(t)
  PROVE  IInv'
<1> USE DEF IInv
<1>1. /\ clock' = t /\ stepped' = (stepped \/ t < clock)
      /\ UNCHANGED <<jwks, requestVars, counters, reading, snapshot, instants>>
      /\ UNCHANGED <<log, live, last, seen, unheard>>
  BY DEF SetClock, statsVars, feedVars
<1>2. /\ CountersMatchEvents' /\ KeysOffered'
      /\ \A r \in Requests : Result(r)' = Result(r)
  BY <1>1, RequestsUntouched
<1>3. TypeOK' /\ Shape'
  BY <1>1, <1>2 DEF TypeOK, Shape, requestVars
<1>4. StampsOrdered'
  <2> SUFFICES ASSUME ~stepped'
               PROVE  /\ \A i \in DOMAIN log : log[i].at <= t
                      /\ \A r \in Requests :
                           pc[r] \in {"decided", "counted"} =>
                             /\ now[r] <= t
                             /\ \A i \in 1..began[r] : log[i].at <= now[r]
    BY <1>1 DEF StampsOrdered, requestVars
  <2>1. ~stepped /\ clock <= t /\ clock \in Int /\ t \in Int
    <3>1. ~stepped /\ ~(t < clock)
      BY <1>1, Zenon
    <3>2. clock \in Int /\ t \in Int
      BY TimesInt DEF TypeOK
    <3> QED
      BY <3>1, <3>2
  <2>2. \A i \in DOMAIN log : log[i].at \in Int /\ log[i].at <= clock
    <3>1. \A i \in DOMAIN log : log[i] \in Event
      BY DEF TypeOK
    <3>2. \A i \in DOMAIN log : log[i].at \in Times
      BY <3>1 DEF Event
    <3> QED
      BY <2>1, <3>2, TimesInt DEF StampsOrdered
  <2>3. \A r \in Requests : now[r] \in Int
    BY TimesInt DEF TypeOK
  <2> QED
    BY <2>1, <2>2, <2>3 DEF StampsOrdered
<1>5. DisorderOnlyByOverlap' /\ PresentAmongInstants' /\ StatsWithinQuery'
  BY <1>1 DEF DisorderOnlyByOverlap, PresentAmongInstants, StatsWithinQuery, requestVars
<1> QED
  BY <1>2, <1>3, <1>4, <1>5

LEMMA StatsBeginInv ==
  ASSUME IInv, NEW q \in Queries, StatsBegin(q)
  PROVE  IInv'
<1> USE DEF IInv
<1>1. /\ reading' = [reading EXCEPT ![q] = Counter]
      /\ snapshot' = [snapshot EXCEPT ![q] = Zero]
      /\ instants' = [instants EXCEPT ![q] = {counters}]
      /\ UNCHANGED <<jwks, clock, stepped, requestVars, counters>>
      /\ UNCHANGED <<log, live, last, seen, unheard>>
  BY DEF StatsBegin, feedVars
<1>2. /\ CountersMatchEvents' /\ KeysOffered'
      /\ \A r \in Requests : Result(r)' = Result(r)
  BY <1>1, RequestsUntouched
<1>3. TypeOK'
  <2>1. Zero \in [Counter -> Nat]
    BY DEF Zero
  <2>2. reading' \in [Queries -> SUBSET Counter] /\ snapshot' \in [Queries -> [Counter -> Nat]]
    BY <1>1, <2>1 DEF TypeOK
  <2> QED
    BY <1>1, <1>2, <2>2 DEF TypeOK, requestVars
<1>4. Shape'
  BY <1>1 DEF Shape, requestVars
<1>5. StampsOrdered' /\ DisorderOnlyByOverlap'
  BY <1>1 DEF StampsOrdered, DisorderOnlyByOverlap, requestVars
<1>6. PresentAmongInstants'
  BY <1>1 DEF PresentAmongInstants, TypeOK, Shape
<1>7. StatsWithinQuery'
  <2> SUFFICES ASSUME NEW p \in Queries, NEW c \in Counter, c \notin reading'[p]
               PROVE  /\ snapshot'[p][c] <= counters[c]
                      /\ instants'[p] # {} => \E v \in instants'[p] : v[c] = snapshot'[p][c]
    BY <1>1 DEF StatsWithinQuery
  <2>1. p # q
    BY <1>1 DEF TypeOK
  <2>2. reading'[p] = reading[p] /\ snapshot'[p] = snapshot[p] /\ instants'[p] = instants[p]
    BY <1>1, <2>1 DEF TypeOK, Shape
  <2> QED
    BY <2>2 DEF StatsWithinQuery
<1> QED
  BY <1>2, <1>3, <1>4, <1>5, <1>6, <1>7

LEMMA StatsLoadInv ==
  ASSUME IInv, NEW q \in Queries, NEW d \in Counter, StatsLoad(q, d)
  PROVE  IInv'
<1> USE DEF IInv
<1>1. /\ d \in reading[q]
      /\ reading' = [reading EXCEPT ![q] = reading[q] \ {d}]
      /\ snapshot' = [snapshot EXCEPT ![q][d] = counters[d]]
      /\ UNCHANGED <<instants, jwks, clock, stepped, requestVars, counters>>
      /\ UNCHANGED <<log, live, last, seen, unheard>>
  BY DEF StatsLoad, feedVars
<1>2. /\ CountersMatchEvents' /\ KeysOffered'
      /\ \A r \in Requests : Result(r)' = Result(r)
  BY <1>1, RequestsUntouched
<1>3. TypeOK'
  <2>1. reading' \in [Queries -> SUBSET Counter] /\ snapshot' \in [Queries -> [Counter -> Nat]]
    BY <1>1 DEF TypeOK
  <2> QED
    BY <1>1, <1>2, <2>1 DEF TypeOK, requestVars
<1>4. Shape'
  BY <1>1 DEF Shape, requestVars
<1>5. StampsOrdered' /\ DisorderOnlyByOverlap'
  BY <1>1 DEF StampsOrdered, DisorderOnlyByOverlap, requestVars
<1>6. PresentAmongInstants'
  BY <1>1 DEF PresentAmongInstants, TypeOK
<1>7. StatsWithinQuery'
  <2> SUFFICES ASSUME NEW p \in Queries, NEW c \in Counter, c \notin reading'[p]
               PROVE  /\ snapshot'[p][c] <= counters[c]
                      /\ instants[p] # {} => \E v \in instants[p] : v[c] = snapshot'[p][c]
    BY <1>1 DEF StatsWithinQuery
  <2>1. CASE p = q /\ c = d
    <3>1. snapshot'[p][c] = counters[c] /\ counters[c] \in Nat
      BY <1>1, <2>1 DEF TypeOK
    <3>2. counters \in instants[p]
      BY <1>1, <2>1 DEF PresentAmongInstants
    <3> QED
      BY <3>1, <3>2
  <2>2. CASE ~(p = q /\ c = d)
    <3>1. snapshot'[p][c] = snapshot[p][c] /\ c \notin reading[p]
      BY <1>1, <2>2 DEF TypeOK
    <3> QED
      BY <3>1 DEF StatsWithinQuery
  <2> QED
    BY <2>1, <2>2
<1> QED
  BY <1>2, <1>3, <1>4, <1>5, <1>6, <1>7

LEMMA SubscriptionInv ==
  ASSUME IInv, NEW s \in Subscribers, Subscription(s)
  PROVE  IInv'
<1> USE DEF IInv
<1>1. /\ log' = log /\ live' \subseteq Subscribers
      /\ UNCHANGED <<jwks, clock, stepped, requestVars, counters, statsVars, unheard>>
  BY DEF Subscription, Feed!Join, Feed!Leave, Feed!Deliver, TypeOK
<1>2. /\ CountersMatchEvents' /\ KeysOffered'
      /\ \A r \in Requests : Result(r)' = Result(r)
  BY <1>1, RequestsUntouched
<1>3. TypeOK' /\ Shape'
  BY <1>1, <1>2 DEF TypeOK, Shape, requestVars, statsVars
<1>4. StampsOrdered' /\ DisorderOnlyByOverlap'
  BY <1>1 DEF StampsOrdered, DisorderOnlyByOverlap, requestVars
<1>5. PresentAmongInstants' /\ StatsWithinQuery'
  BY <1>1 DEF PresentAmongInstants, StatsWithinQuery, statsVars
<1> QED
  BY <1>2, <1>3, <1>4, <1>5

LEMMA StutterInv ==
  ASSUME IInv, UNCHANGED vars
  PROVE  IInv'
<1> USE DEF IInv
<1>1. UNCHANGED <<jwks, requestVars, counters, unheard, log>>
  BY DEF vars, feedVars
<1>2. /\ CountersMatchEvents' /\ KeysOffered'
      /\ \A r \in Requests : Result(r)' = Result(r)
  BY <1>1, RequestsUntouched
<1>3. TypeOK' /\ Shape' /\ StampsOrdered' /\ DisorderOnlyByOverlap'
      /\ PresentAmongInstants' /\ StatsWithinQuery'
  BY <1>2 DEF vars, requestVars, statsVars, feedVars, TypeOK, Shape, StampsOrdered,
              DisorderOnlyByOverlap, PresentAmongInstants, StatsWithinQuery
<1> QED
  BY <1>2, <1>3

LEMMA StepInv == IInv /\ [Next]_vars => IInv'
<1> SUFFICES ASSUME IInv, [Next]_vars PROVE IInv'
  OBVIOUS
<1>1. ASSUME NEW r \in Requests, Step(r) PROVE IInv'
  BY <1>1, ArriveInv, TakeKeysInv, DecideInv, RefuseInv, CountInv, EmitInv DEF Step
<1>2. ASSUME NEW ks \in KeySets, StoreKeys(ks) PROVE IInv'
  BY <1>2, StoreKeysInv
<1>3. ASSUME NEW t \in Times, SetClock(t) PROVE IInv'
  BY <1>3, SetClockInv
<1>4. ASSUME NEW q \in Queries, StatsBegin(q) \/ \E c \in Counter : StatsLoad(q, c) PROVE IInv'
  BY <1>4, StatsBeginInv, StatsLoadInv
<1>5. ASSUME NEW s \in Subscribers, Subscription(s) PROVE IInv'
  BY <1>5, SubscriptionInv
<1>6. CASE UNCHANGED vars
  BY <1>6, StutterInv
<1> QED
  BY <1>1, <1>2, <1>3, <1>4, <1>5, <1>6 DEF Next

LEMMA Invariance == Spec => []IInv
  BY InitInv, StepInv, PTL DEF Spec

-----------------------------------------------------------------------------
(* Every reachable state of the service is well typed, and nothing that is *)
(* answered with an Err is ever recorded.                                  *)
THEOREM TypeCorrect == Spec => []TypeOK
<1>1. IInv => TypeOK
  BY DEF IInv
<1> QED
  BY Invariance, <1>1, PTL

(* The counters are exactly the decisions whose events were or will be     *)
(* sent, for any number of concurrent requests.                            *)
THEOREM CountersSound == Spec => []CountersMatchEvents
<1>1. IInv => CountersMatchEvents
  BY DEF IInv
<1> QED
  BY Invariance, <1>1, PTL

(* No token is accepted by a key that was in no key set cached since its   *)
(* request arrived.                                                        *)
THEOREM RevocationSound == Spec => []AcceptedByOfferedKey
<1>1. IInv => AcceptedByOfferedKey
  <2> SUFFICES ASSUME IInv, NEW r \in Requests,
                      pc[r] \in {"decided", "counted"}, doc[r].kind = "jwt", Valid(r)
               PROVE  \E ks \in offered[r] : JwtSigned(doc[r], ks)
    BY DEF AcceptedByOfferedKey
  <2>1. keys[r] \in offered[r]
    BY DEF IInv, KeysOffered
  <2>2. VerifyJwt(doc[r], keys[r], policy[r], now[r]).valid
    BY DEF Valid, Result
  <2>3. JwtSigned(doc[r], keys[r])
    BY <2>2 DEF VerifyJwt, Rejected
  <2> QED
    BY <2>1, <2>3
<1> QED
  BY Invariance, <1>1, PTL

(* Events out of their order in time come from overlapping requests, as    *)
(* long as the clock is not stepped back.                                  *)
THEOREM OrderSound == Spec => []DisorderOnlyByOverlap
<1>1. IInv => DisorderOnlyByOverlap
  BY DEF IInv
<1> QED
  BY Invariance, <1>1, PTL

(* Each number that stats reports was current while the query ran, and is  *)
(* never more than a later one.                                            *)
THEOREM StatsSound == Spec => []StatsWithinQuery
<1>1. IInv => StatsWithinQuery
  BY DEF IInv
<1> QED
  BY Invariance, <1>1, PTL

-----------------------------------------------------------------------------
(* Overrides of concurrent requests.                                       *)

(* A request's policy is the base policy with an override of its own.      *)
PoliciesDerived ==
  \A r \in Requests :
    policy[r] = BasePolicy \/ \E o : policy[r] = EffectivePolicy(BasePolicy, o)

(* What is accepted passes every check of the base policy, but maybe that  *)
(* of the audience of a token.                                             *)
BaseEnforced ==
  \A r \in Requests :
    pc[r] \in {"decided", "counted"} /\ Valid(r) =>
      /\ doc[r].kind = "jwt" =>
           \A c \in Check \ {"audience"} : JwtChecks(doc[r], BasePolicy, now[r])[c]
      /\ doc[r].kind = "vc" => All(VcChecks(doc[r], BasePolicy, now[r]))

LEMMA PoliciesStep == IInv /\ PoliciesDerived /\ [Next]_vars => PoliciesDerived'
<1> SUFFICES ASSUME IInv, PoliciesDerived, [Next]_vars, NEW r \in Requests
             PROVE  \/ policy'[r] = BasePolicy
                    \/ \E o : policy'[r] = EffectivePolicy(BasePolicy, o)
  BY DEF PoliciesDerived
<1>1. policy = [q \in Requests |-> policy[q]]
  BY DEF IInv, Shape
<1>2. ASSUME policy'[r] = policy[r]
      PROVE  \/ policy'[r] = BasePolicy
             \/ \E o : policy'[r] = EffectivePolicy(BasePolicy, o)
  BY <1>2 DEF PoliciesDerived
<1>3. ASSUME NEW q \in Requests, NEW d, NEW o, Arrive(q, d, o)
      PROVE  policy'[r] = policy[r] \/ policy'[r] = EffectivePolicy(BasePolicy, o)
  BY <1>1, <1>3 DEF Arrive
<1>4. ASSUME NEW q \in Requests, Refuse(q) \/ Emit(q)
      PROVE  policy'[r] = policy[r] \/ policy'[r] = BasePolicy
  BY <1>1, <1>4 DEF Refuse, Emit, Forget
<1>5. ASSUME NEW q \in Requests, TakeKeys(q) \/ Decide(q) \/ Count(q) PROVE policy' = policy
  BY <1>5 DEF TakeKeys, Decide, Count
<1>6. ASSUME \/ \E ks \in KeySets : StoreKeys(ks)
             \/ \E t \in Times : SetClock(t)
             \/ \E q \in Queries : StatsBegin(q) \/ \E c \in Counter : StatsLoad(q, c)
             \/ \E s \in Subscribers : Subscription(s)
             \/ UNCHANGED vars
      PROVE  policy' = policy
  BY <1>6 DEF StoreKeys, SetClock, StatsBegin, StatsLoad, Subscription, requestVars, vars
<1> QED
  BY <1>2, <1>3, <1>4, <1>5, <1>6 DEF Next, Step

(* An override leaves the rest of a policy alone and only adds scopes.     *)
LEMMA OverrideShares ==
  ASSUME NEW p, NEW o
  PROVE  LET q == EffectivePolicy(p, o)
         IN  /\ q.trusted = p.trusted /\ q.revoked = p.revoked /\ q.leeway = p.leeway
             /\ p.scopes \subseteq q.scopes
  BY DEF EffectivePolicy

LEMMA BaseFact == IInv /\ PoliciesDerived => BaseEnforced
<1> SUFFICES ASSUME IInv, PoliciesDerived, NEW r \in Requests, Valid(r)
             PROVE  /\ doc[r].kind = "jwt" =>
                         \A c \in Check \ {"audience"} :
                            JwtChecks(doc[r], BasePolicy, now[r])[c]
                    /\ doc[r].kind = "vc" => All(VcChecks(doc[r], BasePolicy, now[r]))
  BY DEF BaseEnforced
<1> DEFINE d == doc[r]
           p == policy[r]
           t == now[r]
<1>1. /\ p.trusted = BasePolicy.trusted /\ p.revoked = BasePolicy.revoked
      /\ p.leeway = BasePolicy.leeway /\ BasePolicy.scopes \subseteq p.scopes
  <2>1. CASE p = BasePolicy
    BY <2>1
  <2>2. ASSUME NEW o, p = EffectivePolicy(BasePolicy, o)
        PROVE  /\ p.trusted = BasePolicy.trusted /\ p.revoked = BasePolicy.revoked
               /\ p.leeway = BasePolicy.leeway /\ BasePolicy.scopes \subseteq p.scopes
    BY <2>2, OverrideShares
  <2> QED
    BY <2>1, <2>2 DEF PoliciesDerived
<1>2. Check = {"signature", "issuer_trusted", "not_before", "not_expired",
               "audience", "scopes", "not_revoked"}
  BY DEF Check, CheckOrder
<1> HIDE DEF p
<1>3. ASSUME d.kind = "jwt", NEW c \in Check \ {"audience"}
      PROVE  JwtChecks(d, BasePolicy, t)[c]
  <2>1. VerifyJwt(d, keys[r], p, t).valid
    BY <1>3 DEF Valid, Result, p
  <2>2. All(JwtChecks(d, p, t))
    BY <2>1 DEF VerifyJwt, Rejected, Outcome
  <2>3. /\ NotExpired(d.exp, p.leeway, t) /\ NotBefore(d.nbf, p.leeway, t)
        /\ IssuerTrusted(p, d.iss) /\ p.scopes \subseteq d.scope
        /\ d.jti \cap p.revoked = {}
    BY <1>2, <2>2 DEF All, JwtChecks
  <2>4. /\ NotExpired(d.exp, BasePolicy.leeway, t) /\ NotBefore(d.nbf, BasePolicy.leeway, t)
        /\ IssuerTrusted(BasePolicy, d.iss) /\ BasePolicy.scopes \subseteq d.scope
        /\ d.jti \cap BasePolicy.revoked = {}
    BY <1>1, <2>3 DEF IssuerTrusted
  <2> DEFINE checks == JwtChecks(d, BasePolicy, t)
  <2>5. /\ checks["signature"] /\ checks["not_expired"] /\ checks["not_before"]
        /\ checks["issuer_trusted"] /\ checks["scopes"] /\ checks["not_revoked"]
    <3>1. checks["signature"] /\ checks["not_expired"] /\ checks["not_before"]
      BY <2>4 DEF JwtChecks
    <3>2. checks["issuer_trusted"] /\ checks["scopes"]
      BY <2>4 DEF JwtChecks
    <3>3. checks["not_revoked"]
      BY <2>4 DEF JwtChecks
    <3> QED
      BY <3>1, <3>2, <3>3
  <2> HIDE DEF checks
  <2>6. checks[c]
    BY <1>2, <1>3, <2>5
  <2> QED
    BY <2>6 DEF checks
<1>4. ASSUME d.kind = "vc" PROVE All(VcChecks(d, BasePolicy, t))
  <2>1. VerifyCredential(d, p, t).valid
    BY <1>4 DEF Valid, Result, VerifyCredentialJson, p
  <2>2. All(VcChecks(d, p, t))
    BY <2>1 DEF VerifyCredential, Rejected, Outcome
  <2>3. VcChecks(d, p, t) = VcChecks(d, BasePolicy, t)
    BY <1>1 DEF VcChecks, IssuerTrusted
  <2> QED
    BY <2>2, <2>3
<1> QED
  BY <1>3, <1>4

(* However many requests overlap, each with an override of its own, none   *)
(* is accepted that the node's own policy would reject for more than the   *)
(* audience: issuers, times, scopes and revocations always apply.          *)
THEOREM BaseAlwaysEnforced == Spec => []BaseEnforced
<1>1. Init => PoliciesDerived
  BY DEF Init, PoliciesDerived
<1> QED
  BY <1>1, Invariance, PoliciesStep, BaseFact, PTL DEF Spec
=============================================================================
