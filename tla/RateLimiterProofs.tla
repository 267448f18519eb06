-------------------------- MODULE RateLimiterProofs --------------------------
(***************************************************************************)
(* The limits of the authentication rate limiter, for any number of keys   *)
(* and requests, any policies, and any lag between the hosts.              *)
(***************************************************************************)
EXTENDS RateLimiter, FiniteSetTheorems, WellFoundedInduction, TLAPS

\* An admission still counts: its event cannot have expired for any host.
Recent(a) == clock < decided[a].at + Window[request[a].key] - Lag

Own(a) == NewEvent(a, request[a].key, request[a].now)

\* What a request knows of the time, before and after its decision.
Timely(a) ==
    /\ pc[a] # "idle" => request[a].now <= clock
    /\ pc[a] = "waiting" => request[a].now >= clock - Lag
    /\ pc[a] # "done" => verdict[a] = "none"
    /\ pc[a] = "done" => /\ decided[a].at <= clock
                         /\ request[a].now >= decided[a].at - Lag
                         /\ decided[a].epoch <= epoch[request[a].key]

\* The event of an admission is stored as long as it is recent, unless its key
\* was reset since.
Remembered(a) ==
    verdict[a] = "allowed" /\ decided[a].epoch = epoch[request[a].key] /\ Recent(a)
        => Own(a) \in events

\* Once what was promised to a client has come, its key has room.
Lasting(k, time) == {e \in EventsOf(events, k) : e.expires > time}

RoomAsPromised ==
    \A k \in Key : promise[k] # Never => Cardinality(Lasting(k, promise[k])) < Limit[k]

Inv ==
    /\ TypeOK
    /\ IsFiniteSet(events)
    /\ \A a \in Attempt : Timely(a) /\ Remembered(a)
    /\ StoredBound
    /\ RoomAsPromised
    /\ AdmissionsBounded

-----------------------------------------------------------------------------
(* Earliest times *)

LEMMA LeastNatural == ASSUME NEW S \in SUBSET Nat, S # {} PROVE \E m \in S : \A n \in S : m <= n
<1> DEFINE R == OpToRel(<, Nat)
<1>1. IsWellFoundedOn(R, Nat)
  BY NatLessThanWellFounded, Zenon
<1>2. \A m, n \in Nat : n < m => <<n, m>> \in R
  BY DEF OpToRel
<1> HIDE DEF R
<1>3. PICK m \in S : \A n \in S : ~(<<n, m>> \in R)
  BY <1>1, WFMin
<1>4. \A n \in S : ~(n < m)
  BY <1>2, <1>3
<1> QED BY <1>4

LEMMA EarliestOfLater ==
    ASSUME NEW now \in Int, NEW S \in SUBSET {n \in Int : n > now}, S # {}
    PROVE  Min(S) \in S /\ \A n \in S : Min(S) <= n
<1> DEFINE T == {n - now : n \in S}
<1>1. T \in SUBSET Nat /\ T # {}
  OBVIOUS
<1>2. PICK m \in T : \A n \in T : m <= n
  BY <1>1, LeastNatural
<1>3. PICK x \in S : m = x - now
  BY <1>2
<1>4. ASSUME NEW n \in S PROVE x <= n
  <2>1. n - now \in T /\ n \in Int /\ x \in Int
    OBVIOUS
  <2>2. x - now <= n - now
    BY <1>2, <1>3, <2>1
  <2> QED BY <2>1, <2>2
<1> QED BY <1>4 DEF Min

LEMMA MaxOfTwo == \A x, y \in Int : Max({x, y}) \in {x, y} /\ Max({x, y}) >= x /\ Max({x, y}) >= y
<1> SUFFICES ASSUME NEW x \in Int, NEW y \in Int
             PROVE  Max({x, y}) \in {x, y} /\ Max({x, y}) >= x /\ Max({x, y}) >= y
  OBVIOUS
<1>1. \E z \in {x, y} : \A n \in {x, y} : z >= n
  OBVIOUS
<1> QED BY <1>1 DEF Max

LEMMA MinOfTwo == \A x, y \in Int : Min({x, y}) \in {x, y}
<1> SUFFICES ASSUME NEW x \in Int, NEW y \in Int PROVE Min({x, y}) \in {x, y}
  OBVIOUS
<1>1. \E z \in {x, y} : \A n \in {x, y} : z <= n
  OBVIOUS
<1> QED BY <1>1 DEF Min

-----------------------------------------------------------------------------
(* One check of one key *)

\* A check leaves the live events of its key, with its own if there is room.
LEMMA CheckedKey ==
    ASSUME Inv, NEW a \in Attempt, NEW k \in Key, NEW now \in Int
    PROVE  /\ Checked(events, a, k, now) \subseteq RateEvent
           /\ IsFiniteSet(Checked(events, a, k, now))
           /\ Cardinality(EventsOf(Checked(events, a, k, now), k)) <= Limit[k]
           /\ \A j \in Key \ {k} :
                  EventsOf(Checked(events, a, k, now), j) = EventsOf(events, j)
           /\ \A e \in events : e.key # k \/ e.expires > now => e \in Checked(events, a, k, now)
           /\ Allowed(events, k, now) => NewEvent(a, k, now) \in Checked(events, a, k, now)
           /\ ~Allowed(events, k, now) => Checked(events, a, k, now) \subseteq events
<1> DEFINE live == DeleteExpired(events, k, now)
           left == Active(live, k, now)
<1>1. /\ events \subseteq RateEvent /\ IsFiniteSet(events)
      /\ Window[k] \in Nat /\ Limit[k] \in Nat \ {0}
  BY PolicyAssumption DEF Inv, TypeOK
<1>2. live \subseteq events /\ live \subseteq RateEvent /\ IsFiniteSet(live)
  BY <1>1, FS_Subset DEF DeleteExpired
<1>3. NewEvent(a, k, now) \in RateEvent /\ NewEvent(a, k, now).key = k
  BY <1>1 DEF NewEvent, RateEvent
<1>4. EventsOf(live, k) = left
  BY <1>1 DEF DeleteExpired, ExpiredForKey, EventsOf, Active, RateEvent
<1>5. \A j \in Key \ {k} : EventsOf(live, j) = EventsOf(events, j)
  BY DEF DeleteExpired, ExpiredForKey, EventsOf
<1>6. \A e \in events : e.key # k \/ e.expires > now => e \in live
  BY <1>1 DEF DeleteExpired, ExpiredForKey, EventsOf, RateEvent
<1>7. IsFiniteSet(left) /\ Cardinality(left) \in Nat
  BY <1>2, FS_Subset, FS_CardinalityType DEF Active, EventsOf
<1>8. CASE Exhausted(live, k, now)
  <2>1. Checked(events, a, k, now) = live /\ ~Allowed(events, k, now)
    BY <1>8 DEF Checked, Allowed
  <2>2. left \subseteq EventsOf(events, k) /\ IsFiniteSet(EventsOf(events, k))
    BY <1>1, <1>2, FS_Subset DEF Active, EventsOf
  <2>3. Cardinality(left) <= Limit[k]
    BY <1>7, <2>2, <1>1, FS_Subset, FS_CardinalityType DEF Inv, StoredBound
  <2> QED BY <1>2, <1>4, <1>5, <1>6, <2>1, <2>3
<1>9. CASE ~Exhausted(live, k, now)
  <2>1. Checked(events, a, k, now) = live \cup {NewEvent(a, k, now)} /\ Allowed(events, k, now)
    BY <1>9 DEF Checked, Allowed
  <2>2. EventsOf(live \cup {NewEvent(a, k, now)}, k) = left \cup {NewEvent(a, k, now)}
    BY <1>3, <1>4 DEF EventsOf
  <2>3. Cardinality(left) < Limit[k]
    BY <1>9, <1>7, <1>1 DEF Exhausted
  <2>4. Cardinality(left \cup {NewEvent(a, k, now)}) <= Limit[k]
    <3>1. Cardinality(left \cup {NewEvent(a, k, now)}) \in {Cardinality(left), Cardinality(left) + 1}
      BY <1>7, FS_AddElement
    <3> HIDE DEF left
    <3> QED BY <1>1, <1>7, <2>3, <3>1
  <2>5. \A j \in Key \ {k} : EventsOf(live \cup {NewEvent(a, k, now)}, j) = EventsOf(live, j)
    BY <1>3 DEF EventsOf
  <2>6. IsFiniteSet(live \cup {NewEvent(a, k, now)})
    BY <1>2, FS_AddElement
  <2> QED BY <1>2, <1>3, <1>5, <1>6, <2>1, <2>2, <2>4, <2>5, <2>6
<1> QED BY <1>8, <1>9

\* When a check is denied, its key has room as of the time that is promised.
LEMMA DenialPromises ==
    ASSUME Inv, NEW k \in Key, NEW now \in Int, ~Allowed(events, k, now)
    PROVE  LET time == now + RetryAfter(events, k, now)
           IN  time \in Int /\ Cardinality(Lasting(k, time)) < Limit[k]
<1> DEFINE time == now + RetryAfter(events, k, now)
           active == Active(events, k, now)
           ends == {e.expires : e \in active}
<1>1. /\ events \subseteq RateEvent /\ IsFiniteSet(events)
      /\ Limit[k] \in Nat \ {0}
  BY PolicyAssumption DEF Inv, TypeOK
<1>2. active = Active(DeleteExpired(events, k, now), k, now)
  BY <1>1 DEF Active, EventsOf, DeleteExpired, ExpiredForKey, RateEvent
<1>3. IsFiniteSet(active) /\ Cardinality(active) \in Nat
  BY <1>1, FS_Subset, FS_CardinalityType DEF Active, EventsOf
<1>4. Cardinality(active) >= Limit[k]
  BY <1>2 DEF Allowed, Exhausted
<1>5. active # {}
  BY <1>1, <1>3, <1>4, FS_EmptySet
<1>6. ends \in SUBSET {n \in Int : n > now} /\ ends # {}
  BY <1>1, <1>5 DEF Active, EventsOf, RateEvent
<1>7. Min(ends) \in ends
  BY <1>6, EarliestOfLater
<1>8. PICK e \in active : e.expires = Min(ends)
  BY <1>7
<1>9. Min(ends) \in Int /\ Min(ends) > now
  BY <1>6, <1>7
<1>10. time \in Int /\ time >= e.expires
  <2>1. /\ RetryAfter(events, k, now) \in {Min(ends) - now, 1}
        /\ RetryAfter(events, k, now) >= Min(ends) - now
    <3>1. RetryAfter(events, k, now) = Max({Min(ends) - now, 1})
      BY DEF RetryAfter, EarliestExpiry
    <3> HIDE DEF ends
    <3>2. Min(ends) - now \in Int /\ 1 \in Int
      BY <1>9
    <3> QED BY <3>1, <3>2, MaxOfTwo
  <2> HIDE DEF ends
  <2> QED BY <1>8, <1>9, <2>1
<1>11. /\ Lasting(k, time) \subseteq EventsOf(events, k) \ {e}
       /\ e \in EventsOf(events, k) /\ IsFiniteSet(EventsOf(events, k))
  BY <1>1, <1>8, <1>9, <1>10, FS_Subset DEF Lasting, Active, EventsOf, RateEvent
<1>12. /\ IsFiniteSet(EventsOf(events, k) \ {e})
       /\ Cardinality(EventsOf(events, k) \ {e}) = Cardinality(EventsOf(events, k)) - 1
  BY <1>11, FS_RemoveElement
<1>13. Cardinality(EventsOf(events, k)) <= Limit[k]
  BY DEF Inv, StoredBound
<1>14. Cardinality(EventsOf(events, k)) \in Nat
  BY <1>11, FS_CardinalityType
<1>15. /\ Cardinality(Lasting(k, time)) <= Cardinality(EventsOf(events, k) \ {e})
       /\ Cardinality(Lasting(k, time)) \in Nat
  BY <1>11, <1>12, FS_Subset, FS_CardinalityType
<1> HIDE DEF time
<1>16. time \in Int /\ Cardinality(Lasting(k, time)) < Limit[k]
  BY <1>1, <1>10, <1>12, <1>13, <1>14, <1>15
<1> QED BY <1>16 DEF time

-----------------------------------------------------------------------------
(* The steps *)

LEMMA InitInv == Init => Inv
<1> SUFFICES ASSUME Init PROVE Inv
  OBVIOUS
<1>1. TypeOK
  BY BoundAssumption DEF Init, TypeOK, PC, Verdict
<1>2. IsFiniteSet(events) /\ StoredBound
  <2>1. events = {} /\ IsFiniteSet(events)
    BY FS_EmptySet DEF Init
  <2>2. ASSUME NEW k \in Key PROVE Cardinality(EventsOf(events, k)) <= Limit[k]
    <3>1. EventsOf(events, k) = {}
      BY <2>1 DEF EventsOf
    <3>2. Limit[k] \in Nat \ {0}
      BY PolicyAssumption
    <3>3. Cardinality(EventsOf(events, k)) = 0
      BY <3>1, FS_EmptySet
    <3> QED BY <3>2, <3>3
  <2> QED BY <2>1, <2>2 DEF StoredBound
<1>3. RoomAsPromised
  BY DEF Init, RoomAsPromised
<1>4. ASSUME NEW a \in Attempt PROVE Timely(a) /\ Remembered(a)
  BY BoundAssumption DEF Init, Timely, Remembered
<1>5. AdmissionsBounded
  BY DEF Init, AdmissionsBounded, Admitted
<1> QED BY <1>1, <1>2, <1>3, <1>4, <1>5 DEF Inv

\* The admissions of a request's key from its own on, over what is certain of
\* the window.
Near(k, a) ==
    {b \in Admitted(k, decided[a].epoch) :
        decided[b].at \in decided[a].at..(decided[a].at + Window[k] - Lag - 1)}

\* Requests that are admitted near one another are remembered together, and the
\* store has room for Limit.
LEMMA AdmissionsStayBounded ==
    ASSUME Inv, TypeOK', IsFiniteSet(events)', StoredBound',
           \A a \in Attempt : Timely(a)' /\ Remembered(a)',
           \A a \in Attempt :
               IF pc[a] = "done"
               THEN /\ verdict'[a] = verdict[a]
                    /\ request'[a] = request[a]
                    /\ decided'[a] = decided[a]
               ELSE \/ verdict'[a] # "allowed"
                    \/ /\ clock' = decided'[a].at
                       /\ epoch'[request'[a].key] = decided'[a].epoch
    PROVE  AdmissionsBounded'
<1> SUFFICES ASSUME NEW k \in Key, NEW a \in Attempt, (a \in Admitted(k, decided[a].epoch))'
             PROVE  Cardinality(Near(k, a)') <= Limit[k]
  BY DEF AdmissionsBounded, Near
<1> DEFINE from == decided'[a].at
           era == decided'[a].epoch
           near == Near(k, a)'
<1>1. /\ Window[k] \in Nat \ {0} /\ Limit[k] \in Nat \ {0} /\ Lag \in Nat
      /\ clock' \in Nat /\ from \in Nat
  BY PolicyAssumption, BoundAssumption DEF TypeOK
<1>2. \A b \in near : /\ b \in Attempt /\ verdict'[b] = "allowed" /\ request'[b].key = k
                      /\ decided'[b].epoch = era
                      /\ decided'[b].at \in Nat
                      /\ from <= decided'[b].at
                      /\ decided'[b].at < from + Window[k] - Lag
  BY <1>1 DEF Near, Admitted, TypeOK
<1>3. CASE era = epoch'[k] /\ clock' < from + Window[k] - Lag
  <2> DEFINE stored == EventsOf(events, k)'
             f == [b \in near |-> Own(b)']
  <2>1. ASSUME NEW b \in near PROVE Own(b)' \in stored /\ Own(b)'.id = b
    <3>1. Recent(b)'
      BY <1>1, <1>2, <1>3 DEF Recent
    <3>2. Own(b)' \in events'
      BY <1>2, <1>3, <3>1 DEF Remembered
    <3> QED BY <1>2, <3>2 DEF Own, NewEvent, EventsOf
  <2>2. f \in Injection(near, stored)
    BY <2>1 DEF Injection, IsInjective
  <2>3. IsFiniteSet(stored) /\ Cardinality(stored) <= Limit[k]
    BY FS_Subset DEF EventsOf, StoredBound
  <2>4. IsFiniteSet(near) /\ Cardinality(near) <= Cardinality(stored)
    BY <2>2, <2>3, FS_Injection
  <2>5. Cardinality(near) \in Nat /\ Cardinality(stored) \in Nat
    BY <2>3, <2>4, FS_CardinalityType
  <2> HIDE DEF near, stored
  <2>6. Cardinality(near) <= Limit[k]
    BY <1>1, <2>3, <2>4, <2>5
  <2> QED BY <2>6 DEF near
<1>4. CASE ~(era = epoch'[k] /\ clock' < from + Window[k] - Lag)
  <2>1. \A b \in near : pc[b] = "done"
    BY <1>1, <1>2, <1>4
  <2>2. CASE pc[a] = "done"
    <3> DEFINE before == Near(k, a)
    <3>1. verdict'[a] = verdict[a] /\ request'[a] = request[a] /\ decided'[a] = decided[a]
      BY <2>2
    <3>2. ASSUME NEW b \in Attempt PROVE b \in near <=> b \in before
      <4>1. b \in near => b \in before
        BY <2>1, <3>1 DEF Near, Admitted
      <4>2. verdict[b] = "allowed" => pc[b] = "done"
        BY DEF Inv, Timely
      <4>3. b \in before => b \in near
        BY <4>2, <3>1 DEF Near, Admitted
      <4> QED BY <4>1, <4>3
    <3>3. near \subseteq Attempt /\ before \subseteq Attempt
      BY DEF Near, Admitted
    <3>4. near = before
      BY <3>2, <3>3
    <3>5. a \in Admitted(k, decided[a].epoch)
      BY <3>1 DEF Admitted
    <3>6. Cardinality(before) <= Limit[k]
      BY <3>5 DEF Inv, AdmissionsBounded, Near
    <3> QED BY <3>4, <3>6
  <2>3. CASE pc[a] # "done"
    <3>1. clock' = from /\ epoch'[k] = era
      BY <2>3 DEF Admitted
    <3>2. from + Window[k] - Lag <= from
      BY <3>1, <1>1, <1>4
    <3>3. near = {}
      BY <1>1, <1>2, <3>2
    <3> HIDE DEF near
    <3>4. Cardinality(near) = 0
      BY <3>3, FS_EmptySet
    <3>5. Cardinality(near) <= Limit[k]
      BY <1>1, <3>4
    <3> QED BY <3>5 DEF near
  <2> QED BY <2>2, <2>3
<1> QED BY <1>3, <1>4

\* A key that gains no event stays within its limit, and keeps its promises.
LEMMA FewerEvents ==
    ASSUME Inv, NEW k \in Key, NEW kept, kept \subseteq EventsOf(events, k)
    PROVE  /\ Cardinality(kept) <= Limit[k]
           /\ \A time : Cardinality(Lasting(k, time)) < Limit[k]
                            => Cardinality({e \in kept : e.expires > time}) < Limit[k]
<1>1. IsFiniteSet(EventsOf(events, k)) /\ Limit[k] \in Nat \ {0}
  BY PolicyAssumption, FS_Subset DEF Inv, EventsOf
<1>2. /\ Cardinality(kept) <= Cardinality(EventsOf(events, k))
      /\ Cardinality(kept) \in Nat /\ Cardinality(EventsOf(events, k)) \in Nat
  BY <1>1, FS_Subset, FS_CardinalityType
<1>3. Cardinality(EventsOf(events, k)) <= Limit[k]
  BY DEF Inv, StoredBound
<1>4. Cardinality(kept) <= Limit[k]
  BY <1>1, <1>2, <1>3
<1>5. ASSUME NEW time, Cardinality(Lasting(k, time)) < Limit[k]
      PROVE  Cardinality({e \in kept : e.expires > time}) < Limit[k]
  <2> DEFINE later == {e \in kept : e.expires > time}
  <2>1. later \subseteq Lasting(k, time) /\ IsFiniteSet(Lasting(k, time))
    BY <1>1, FS_Subset DEF Lasting
  <2>2. /\ Cardinality(later) <= Cardinality(Lasting(k, time))
        /\ Cardinality(later) \in Nat /\ Cardinality(Lasting(k, time)) \in Nat
    BY <2>1, FS_Subset, FS_CardinalityType
  <2> HIDE DEF later
  <2>3. Cardinality(later) < Limit[k]
    BY <1>1, <1>5, <2>2
  <2> QED BY <2>3 DEF later
<1> QED BY <1>4, <1>5

\* What is remembered cannot have expired for any host.
LEMMA LivesOn ==
    ASSUME Inv, NEW b \in Attempt, verdict[b] = "allowed",
           decided[b].epoch = epoch[request[b].key], Recent(b)
    PROVE  /\ Own(b) \in events
           /\ Own(b).key = request[b].key
           /\ Own(b).expires > clock
<1>1. Own(b) \in events
  BY DEF Inv, Remembered
<1>2. pc[b] = "done"
  BY DEF Inv, Timely
<1>3. request[b].now >= decided[b].at - Lag
  BY <1>2 DEF Inv, Timely
<1>4. /\ request[b].key \in Key /\ request[b].now \in Int /\ decided[b].at \in Nat
      /\ clock \in Nat /\ Lag \in Nat
  BY BoundAssumption DEF Inv, TypeOK
<1>5. Window[request[b].key] \in Nat
  BY <1>4, PolicyAssumption
<1>6. request[b].now + Window[request[b].key] > clock
  BY <1>3, <1>4, <1>5 DEF Recent
<1> QED BY <1>1, <1>6 DEF Own, NewEvent

\* A request is answered.
LEMMA Answered ==
    ASSUME Inv, NEW a \in Attempt, pc[a] = "waiting",
           NEW answer \in {"allowed", "denied", "unavailable", "cleared"}, Answer(a, answer),
           clock' = clock, request' = request,
           events' \subseteq RateEvent, IsFiniteSet(events'), StoredBound', RoomAsPromised',
           epoch' \in [Key -> Nat], promise' \in [Key -> Int \cup {Never}],
           \A k \in Key : epoch'[k] >= epoch[k],
           \A b \in Attempt :
               /\ verdict[b] = "allowed" /\ Recent(b)
               /\ decided[b].epoch = epoch'[request[b].key]
               => Own(b) \in events',
           answer = "allowed" => Own(a) \in events' /\ epoch' = epoch
    PROVE  Inv'
<1>1. TypeOK
  BY DEF Inv
<1>2. /\ request[a].key \in Key /\ request[a].now \in Int /\ clock \in Nat
      /\ epoch[request[a].key] \in Nat
  BY <1>1 DEF TypeOK
<1>3. /\ pc' = [pc EXCEPT ![a] = "done"]
      /\ verdict' = [verdict EXCEPT ![a] = answer]
      /\ decided' = [decided EXCEPT ![a] = [at |-> clock, epoch |-> epoch[request[a].key]]]
  BY DEF Answer
<1>4. TypeOK'
  <2>1. pc' \in [Attempt -> PC] /\ verdict' \in [Attempt -> Verdict]
    BY <1>1, <1>3 DEF TypeOK, PC, Verdict
  <2>2. decided' \in [Attempt -> [at : Nat, epoch : Nat]]
    BY <1>1, <1>2, <1>3 DEF TypeOK
  <2> QED BY <1>1, <2>1, <2>2 DEF TypeOK
<1>5. /\ pc'[a] = "done" /\ verdict'[a] = answer
      /\ decided'[a].at = clock /\ decided'[a].epoch = epoch[request[a].key]
  BY <1>1, <1>3 DEF TypeOK
<1>6. \A b \in Attempt \ {a} :
          pc'[b] = pc[b] /\ verdict'[b] = verdict[b] /\ decided'[b] = decided[b]
  BY <1>1, <1>3 DEF TypeOK
<1>7. ASSUME NEW b \in Attempt PROVE Timely(b)'
  <2>1. Timely(b) /\ Timely(a)
    BY DEF Inv
  <2>2. /\ request[b].key \in Key /\ epoch[request[b].key] \in Nat
        /\ epoch'[request[b].key] \in Nat /\ decided[b].epoch \in Nat
    BY <1>1 DEF TypeOK
  <2>3. epoch'[request[b].key] >= epoch[request[b].key]
    BY <2>2
  <2>4. CASE b = a
    BY <1>2, <1>5, <2>1, <2>2, <2>3, <2>4 DEF Timely
  <2>5. CASE b # a
    BY <1>6, <2>1, <2>2, <2>3, <2>5 DEF Timely
  <2> QED BY <2>4, <2>5
<1>8. ASSUME NEW b \in Attempt PROVE Remembered(b)'
  <2>1. Own(b)' = Own(b)
    BY DEF Own, NewEvent
  <2>2. CASE b = a
    BY <1>5, <2>1, <2>2 DEF Remembered
  <2>3. CASE b # a
    BY <1>6, <2>1, <2>3 DEF Remembered, Recent
  <2> QED BY <2>2, <2>3
<1>9. ASSUME NEW b \in Attempt
      PROVE  IF pc[b] = "done"
             THEN verdict'[b] = verdict[b] /\ request'[b] = request[b] /\ decided'[b] = decided[b]
             ELSE \/ verdict'[b] # "allowed"
                  \/ clock' = decided'[b].at /\ epoch'[request'[b].key] = decided'[b].epoch
  <2>1. CASE b = a
    BY <1>5, <2>1
  <2>2. CASE b # a
    BY <1>6, <2>2 DEF Inv, Timely
  <2> QED BY <2>1, <2>2
<1>10. AdmissionsBounded'
  BY <1>4, <1>7, <1>8, <1>9, AdmissionsStayBounded
<1> QED BY <1>4, <1>7, <1>8, <1>10 DEF Inv

\* Checked keeps what is remembered of every key.
LEMMA CheckedRemembers ==
    ASSUME Inv, NEW a \in Attempt, pc[a] = "waiting"
    PROVE  \A b \in Attempt :
               /\ verdict[b] = "allowed" /\ Recent(b)
               /\ decided[b].epoch = epoch[request[b].key]
               => Own(b) \in Checked(events, a, request[a].key, request[a].now)
<1> SUFFICES ASSUME NEW b \in Attempt, verdict[b] = "allowed", Recent(b),
                    decided[b].epoch = epoch[request[b].key]
             PROVE  Own(b) \in Checked(events, a, request[a].key, request[a].now)
  OBVIOUS
<1>1. Own(b) \in events /\ Own(b).expires > clock
  BY LivesOn
<1>2. request[a].now <= clock
  BY DEF Inv, Timely
<1>3. request[a].key \in Key /\ request[a].now \in Int /\ clock \in Int /\ Own(b).expires \in Int
  BY <1>1 DEF Inv, TypeOK, RateEvent
<1>4. Own(b).expires > request[a].now
  BY <1>1, <1>2, <1>3
<1> QED BY <1>1, <1>3, <1>4, CheckedKey

LEMMA CheckInv == ASSUME Inv, NEW a \in Attempt, Check(a) PROVE Inv'
<1> DEFINE k == request[a].key
           now == request[a].now
           time == now + RetryAfter(events, k, now)
<1>1. /\ k \in Key /\ now \in Int /\ pc[a] = "waiting"
      /\ clock' = clock /\ request' = request /\ epoch' = epoch
      /\ events' = Checked(events, a, k, now)
      /\ epoch \in [Key -> Nat] /\ promise \in [Key -> Int \cup {Never}]
  BY DEF Check, Inv, TypeOK
<1>2. /\ events' \subseteq RateEvent /\ IsFiniteSet(events')
      /\ Cardinality(EventsOf(events', k)) <= Limit[k]
      /\ \A j \in Key \ {k} : EventsOf(events', j) = EventsOf(events, j)
      /\ Allowed(events, k, now) => NewEvent(a, k, now) \in events'
      /\ ~Allowed(events, k, now) => events' \subseteq events
  BY <1>1, CheckedKey
<1>3. StoredBound'
  BY <1>2 DEF StoredBound, Inv
<1>4. \A b \in Attempt :
          /\ verdict[b] = "allowed" /\ Recent(b)
          /\ decided[b].epoch = epoch'[request[b].key]
          => Own(b) \in events'
  BY <1>1, CheckedRemembers
<1>5. \A j \in Key : epoch'[j] >= epoch[j]
  BY <1>1
<1>6. ASSUME NEW j \in Key \ {k}, promise'[j] = promise[j], promise[j] # Never
      PROVE  Cardinality(Lasting(j, promise[j])') < Limit[j]
  BY <1>2, <1>6 DEF Inv, RoomAsPromised, Lasting
<1>7. CASE Allowed(events, k, now)
  <2>1. Answer(a, "allowed") /\ promise' = [promise EXCEPT ![k] = Never]
    BY <1>7 DEF Check
  <2>2. promise' \in [Key -> Int \cup {Never}]
    BY <1>1, <2>1
  <2>3. RoomAsPromised'
    BY <1>1, <1>6, <2>1 DEF RoomAsPromised
  <2>4. Own(a) \in events'
    BY <1>2, <1>7 DEF Own
  <2> QED BY <1>1, <1>2, <1>3, <1>4, <1>5, <2>1, <2>2, <2>3, <2>4, Answered
<1>8. CASE ~Allowed(events, k, now)
  <2>1. Answer(a, "denied") /\ promise' = [promise EXCEPT ![k] = Earlier(promise[k], time)]
    BY <1>8 DEF Check
  <2>2. time \in Int /\ Cardinality(Lasting(k, time)) < Limit[k]
    BY <1>1, <1>8, DenialPromises
  <2> HIDE DEF time
  <2>3. \/ Earlier(promise[k], time) = time
        \/ promise[k] # Never /\ Earlier(promise[k], time) = promise[k]
    BY <1>1, <2>2, MinOfTwo DEF Earlier
  <2>4. Earlier(promise[k], time) \in Int
    BY <1>1, <2>2, <2>3
  <2>5. promise' \in [Key -> Int \cup {Never}] /\ promise'[k] = Earlier(promise[k], time)
    BY <1>1, <2>1, <2>4
  <2>6. Cardinality(Lasting(k, promise'[k])) < Limit[k]
    BY <1>1, <2>2, <2>3, <2>5 DEF Inv, RoomAsPromised
  <2>7. EventsOf(events', k) \subseteq EventsOf(events, k)
    BY <1>2, <1>8 DEF EventsOf
  <2>8. Cardinality({e \in EventsOf(events', k) : e.expires > promise'[k]}) < Limit[k]
    BY <1>1, <2>6, <2>7, FewerEvents
  <2>9. RoomAsPromised'
    <3>1. ASSUME NEW j \in Key, promise'[j] # Never
          PROVE  Cardinality(Lasting(j, promise[j])') < Limit[j]
      <4>1. CASE j = k
        BY <2>8, <4>1 DEF Lasting
      <4>2. CASE j # k
        BY <1>1, <1>6, <2>1, <3>1, <4>2
      <4> QED BY <4>1, <4>2
    <3> QED BY <3>1 DEF RoomAsPromised
  <2> QED BY <1>1, <1>2, <1>3, <1>4, <1>5, <2>1, <2>5, <2>9, Answered
<1> QED BY <1>7, <1>8

LEMMA UnavailableInv == ASSUME Inv, NEW a \in Attempt, Unavailable(a) PROVE Inv'
<1> DEFINE k == request[a].key
           now == request[a].now
<1>1. /\ k \in Key /\ now \in Int /\ pc[a] = "waiting" /\ Answer(a, "unavailable")
      /\ clock' = clock /\ request' = request /\ epoch' = epoch
      /\ epoch \in [Key -> Nat] /\ promise \in [Key -> Int \cup {Never}]
  BY DEF Unavailable, Inv, TypeOK
<1>2. \A j \in Key : epoch'[j] >= epoch[j]
  BY <1>1
<1>3. CASE UNCHANGED <<events, promise>>
  <2>1. StoredBound' /\ RoomAsPromised'
    BY <1>3 DEF Inv, StoredBound, RoomAsPromised, Lasting
  <2>2. events' \subseteq RateEvent /\ IsFiniteSet(events')
    BY <1>3 DEF Inv, TypeOK
  <2>3. \A b \in Attempt :
            /\ verdict[b] = "allowed" /\ Recent(b)
            /\ decided[b].epoch = epoch'[request[b].key]
            => Own(b) \in events'
    BY <1>1, <1>3, LivesOn
  <2> QED BY <1>1, <1>2, <1>3, <2>1, <2>2, <2>3, Answered
<1>4. CASE events' = Checked(events, a, k, now) /\ promise' = [promise EXCEPT ![k] = Never]
  <2>1. /\ events' \subseteq RateEvent /\ IsFiniteSet(events')
        /\ Cardinality(EventsOf(events', k)) <= Limit[k]
        /\ \A j \in Key \ {k} : EventsOf(events', j) = EventsOf(events, j)
    BY <1>1, <1>4, CheckedKey
  <2>2. StoredBound'
    BY <2>1 DEF StoredBound, Inv
  <2>3. RoomAsPromised'
    BY <1>1, <1>4, <2>1 DEF Inv, RoomAsPromised, Lasting
  <2>4. \A b \in Attempt :
            /\ verdict[b] = "allowed" /\ Recent(b)
            /\ decided[b].epoch = epoch'[request[b].key]
            => Own(b) \in events'
    BY <1>1, <1>4, CheckedRemembers
  <2>5. promise' \in [Key -> Int \cup {Never}]
    BY <1>1, <1>4
  <2> QED BY <1>1, <1>2, <2>1, <2>2, <2>3, <2>4, <2>5, Answered
<1> QED BY <1>3, <1>4 DEF Unavailable

LEMMA ResetInv == ASSUME Inv, NEW a \in Attempt, Reset(a) PROVE Inv'
<1> DEFINE k == request[a].key
<1>1. /\ k \in Key /\ pc[a] = "waiting" /\ Answer(a, "cleared")
      /\ clock' = clock /\ request' = request
      /\ events' = Cleared(events, k) /\ epoch' = [epoch EXCEPT ![k] = @ + 1]
      /\ promise' = [promise EXCEPT ![k] = Never]
      /\ epoch \in [Key -> Nat] /\ promise \in [Key -> Int \cup {Never}]
      /\ events \subseteq RateEvent
  BY DEF Reset, Inv, TypeOK
<1>2. epoch' \in [Key -> Nat] /\ \A j \in Key : epoch'[j] >= epoch[j]
  BY <1>1
<1>3. promise' \in [Key -> Int \cup {Never}]
  BY <1>1
<1>4. events' \subseteq events /\ IsFiniteSet(events')
  BY <1>1, FS_Subset DEF Cleared, Inv
<1>5. \A j \in Key : EventsOf(events', j) \subseteq EventsOf(events, j)
  BY <1>4 DEF EventsOf
<1>6. StoredBound'
  BY <1>5, FewerEvents DEF StoredBound
<1>7. RoomAsPromised'
  <2>1. ASSUME NEW j \in Key, promise'[j] # Never PROVE Cardinality(Lasting(j, promise[j])') < Limit[j]
    <3>1. j # k /\ promise'[j] = promise[j]
      BY <1>1, <2>1
    <3>2. EventsOf(events', j) \subseteq EventsOf(events, j)
      BY <1>5
    <3>3. Cardinality(Lasting(j, promise[j])) < Limit[j]
      BY <2>1, <3>1 DEF Inv, RoomAsPromised
    <3>4. Cardinality({e \in EventsOf(events', j) : e.expires > promise[j]}) < Limit[j]
      BY <3>2, <3>3, FewerEvents
    <3> QED BY <3>1, <3>4 DEF Lasting
  <2> QED BY <2>1 DEF RoomAsPromised
<1>8. ASSUME NEW b \in Attempt, verdict[b] = "allowed", Recent(b),
             decided[b].epoch = epoch'[request[b].key]
      PROVE  Own(b) \in events'
  <2>1. /\ pc[b] = "done" => decided[b].epoch <= epoch[request[b].key]
        /\ pc[b] # "done" => verdict[b] = "none"
    BY DEF Inv, Timely
  <2>2. request[b].key # k
    BY <1>1, <1>8, <2>1
  <2>3. decided[b].epoch = epoch[request[b].key] /\ request[b].key \in Key
    BY <1>1, <1>8, <2>2 DEF Inv, TypeOK
  <2>4. Own(b) \in events /\ Own(b).key = request[b].key
    BY <1>8, <2>3, LivesOn
  <2> QED BY <1>1, <2>2, <2>4 DEF Cleared, EventsOf
<1> QED BY <1>1, <1>2, <1>3, <1>4, <1>6, <1>7, <1>8, Answered

LEMMA ArriveInv == ASSUME Inv, NEW a \in Attempt, NEW k \in Key, Arrive(a, k) PROVE Inv'
<1>1. PICK now \in Now : request' = [request EXCEPT ![a] = [key |-> k, now |-> now]]
  BY DEF Arrive
<1>2. /\ pc[a] = "idle" /\ pc' = [pc EXCEPT ![a] = "waiting"]
      /\ UNCHANGED <<clock, events, verdict, epoch, decided, promise>>
  BY DEF Arrive
<1>3. TypeOK /\ clock \in Nat /\ Lag \in Nat
  BY BoundAssumption DEF Inv, TypeOK
<1>4. now \in Int /\ now <= clock /\ now >= clock - Lag
  BY <1>1, <1>3 DEF Now
<1>5. TypeOK'
  <2>1. request' \in [Attempt -> [key : Key, now : Int]]
    BY <1>1, <1>3, <1>4 DEF TypeOK
  <2>2. pc' \in [Attempt -> PC]
    BY <1>2, <1>3 DEF TypeOK, PC
  <2> QED BY <1>2, <1>3, <2>1, <2>2 DEF TypeOK
<1>6. /\ pc'[a] = "waiting" /\ request'[a] = [key |-> k, now |-> now]
      /\ \A b \in Attempt \ {a} : pc'[b] = pc[b] /\ request'[b] = request[b]
  BY <1>1, <1>2, <1>3 DEF TypeOK
<1>7. verdict[a] = "none"
  BY <1>2 DEF Inv, Timely
<1>8. ASSUME NEW b \in Attempt PROVE Timely(b)' /\ Remembered(b)'
  <2>1. CASE b = a
    BY <1>2, <1>4, <1>6, <1>7, <2>1 DEF Timely, Remembered
  <2>2. CASE b # a
    <3>1. Timely(b) /\ Remembered(b)
      BY DEF Inv
    <3>2. Timely(b)'
      BY <1>2, <1>6, <2>2, <3>1 DEF Timely
    <3>3. Remembered(b)'
      BY <1>2, <1>6, <2>2, <3>1 DEF Remembered, Recent, Own, NewEvent
    <3> QED BY <3>2, <3>3
  <2> QED BY <2>1, <2>2
<1>9. IsFiniteSet(events)' /\ StoredBound' /\ RoomAsPromised'
  BY <1>2 DEF Inv, StoredBound, RoomAsPromised, Lasting
<1>10. ASSUME NEW b \in Attempt
       PROVE  IF pc[b] = "done"
              THEN verdict'[b] = verdict[b] /\ request'[b] = request[b] /\ decided'[b] = decided[b]
              ELSE \/ verdict'[b] # "allowed"
                   \/ clock' = decided'[b].at /\ epoch'[request'[b].key] = decided'[b].epoch
  BY <1>2, <1>6 DEF Inv, Timely
<1>11. AdmissionsBounded'
  BY <1>5, <1>8, <1>9, <1>10, AdmissionsStayBounded
<1> QED BY <1>5, <1>8, <1>9, <1>11 DEF Inv

LEMMA CleanupInv == ASSUME Inv, CleanupExpired PROVE Inv'
<1>1. /\ events' = events \ Expired(clock)
      /\ UNCHANGED <<clock, request, pc, verdict, epoch, decided, promise>>
  BY DEF CleanupExpired
<1>2. TypeOK' /\ IsFiniteSet(events)'
  BY <1>1, FS_Subset DEF Inv, TypeOK
<1>3. \A k \in Key : EventsOf(events', k) \subseteq EventsOf(events, k)
  BY <1>1 DEF EventsOf
<1>4. StoredBound'
  BY <1>3, FewerEvents DEF StoredBound
<1>5. RoomAsPromised'
  <2>1. ASSUME NEW k \in Key, promise'[k] # Never PROVE Cardinality(Lasting(k, promise[k])') < Limit[k]
    <3>1. Cardinality(Lasting(k, promise[k])) < Limit[k]
      BY <1>1, <2>1 DEF Inv, RoomAsPromised
    <3>2. Cardinality({e \in EventsOf(events', k) : e.expires > promise[k]}) < Limit[k]
      BY <1>3, <3>1, FewerEvents
    <3> QED BY <1>1, <3>2 DEF Lasting
  <2> QED BY <2>1 DEF RoomAsPromised
<1>6. ASSUME NEW b \in Attempt PROVE Timely(b)' /\ Remembered(b)'
  <2>1. Timely(b)'
    BY <1>1 DEF Inv, Timely
  <2>2. ASSUME verdict[b] = "allowed", decided[b].epoch = epoch[request[b].key], Recent(b)
        PROVE  Own(b) \in events'
    <3>1. Own(b) \in events /\ Own(b).expires > clock
      BY <2>2, LivesOn
    <3>2. Own(b).expires \in Int /\ clock \in Int
      BY <3>1 DEF Inv, TypeOK, RateEvent
    <3>3. Own(b) \notin Expired(clock)
      BY <3>1, <3>2 DEF Expired
    <3> QED BY <1>1, <3>1, <3>3
  <2>3. Remembered(b)'
    BY <1>1, <2>2 DEF Remembered, Recent, Own, NewEvent
  <2> QED BY <2>1, <2>3
<1>7. AdmissionsBounded'
  BY <1>1 DEF Inv, AdmissionsBounded, Admitted
<1> QED BY <1>2, <1>4, <1>5, <1>6, <1>7 DEF Inv

LEMMA TickInv == ASSUME Inv, Tick PROVE Inv'
<1>1. /\ clock < MaxClock /\ clock' = clock + 1
      /\ \A a \in Attempt : pc[a] = "waiting" => request[a].now > clock - Lag
      /\ UNCHANGED <<events, request, pc, verdict, epoch, decided, promise>>
  BY DEF Tick
<1>2. clock \in Nat /\ MaxClock \in Nat /\ Lag \in Nat /\ TypeOK
  BY BoundAssumption DEF Inv, TypeOK
<1>3. TypeOK' /\ IsFiniteSet(events)'
  BY <1>1, <1>2 DEF Inv, TypeOK
<1>4. StoredBound' /\ RoomAsPromised' /\ AdmissionsBounded'
  BY <1>1 DEF Inv, StoredBound, RoomAsPromised, Lasting, AdmissionsBounded, Admitted
<1>5. ASSUME NEW b \in Attempt PROVE Timely(b)' /\ Remembered(b)'
  <2>1. /\ request[b].key \in Key /\ request[b].now \in Int /\ decided[b].at \in Nat
        /\ Timely(b) /\ Remembered(b)
    BY <1>2 DEF Inv, TypeOK
  <2>2. Window[request[b].key] \in Nat
    BY <2>1, PolicyAssumption
  <2>3. Timely(b)'
    BY <1>1, <1>2, <2>1 DEF Timely
  <2>4. Recent(b)' => Recent(b)
    BY <1>1, <1>2, <2>1, <2>2 DEF Recent
  <2>5. Own(b)' = Own(b)
    BY <1>1 DEF Own, NewEvent
  <2>6. Remembered(b)'
    BY <1>1, <2>1, <2>4, <2>5 DEF Remembered
  <2> QED BY <2>3, <2>6
<1> QED BY <1>3, <1>4, <1>5 DEF Inv

LEMMA StutterInv == ASSUME Inv, UNCHANGED vars PROVE Inv'
<1>1. UNCHANGED <<clock, events, request, pc, verdict, epoch, decided, promise>>
  BY DEF vars
<1>2. TypeOK' /\ IsFiniteSet(events)'
  BY <1>1 DEF Inv, TypeOK
<1>3. \A a \in Attempt : Timely(a)' /\ Remembered(a)'
  BY <1>1 DEF Inv, Timely, Remembered, Recent, Own, NewEvent
<1>4. StoredBound' /\ RoomAsPromised'
  BY <1>1 DEF Inv, StoredBound, RoomAsPromised, Lasting
<1>5. AdmissionsBounded'
  BY <1>1 DEF Inv, AdmissionsBounded, Admitted
<1> QED BY <1>2, <1>3, <1>4, <1>5 DEF Inv

LEMMA NextInv == Inv /\ [Next]_vars => Inv'
BY CheckInv, UnavailableInv, ResetInv, ArriveInv, CleanupInv, TickInv, StutterInv DEF Next

-----------------------------------------------------------------------------
(* What the limiter promises *)

\* No more than Limit events of a key are stored, and no more than Limit
\* requests of a key are admitted in any interval that all hosts agree lies
\* within its window: Check of ratelimit/postgres.go, in whatever order its
\* transactions commit, with resets, sweeps and failures between them.
THEOREM LimitIsKept == Spec => []LimitHolds
<1>1. Inv => LimitHolds
  BY DEF Inv, LimitHolds
<1> QED BY InitInv, NextInv, <1>1, PTL DEF Spec

\* A check that comes no earlier than a denied one was told to is admitted,
\* unless another check of the key was admitted between the two.
THEOREM RetriesAreAdmitted == Spec => RetryAfterHonest
<1>1. ASSUME Inv, [Next]_vars
      PROVE  [\A a \in Attempt :
                 /\ pc[a] = "waiting"
                 /\ pc'[a] = "done"
                 /\ promise[request[a].key] # Never
                 /\ request[a].now >= promise[request[a].key]
                 => verdict'[a] # "denied"]_vars
  <2> SUFFICES ASSUME NEW a \in Attempt, pc[a] = "waiting", pc'[a] = "done",
                      promise[request[a].key] # Never,
                      request[a].now >= promise[request[a].key],
                      verdict'[a] = "denied"
               PROVE  FALSE
    OBVIOUS
  <2> DEFINE k == request[a].key
             now == request[a].now
  <2>1. TypeOK /\ k \in Key /\ now \in Int /\ promise[k] \in Int /\ Limit[k] \in Nat
    BY <1>1, PolicyAssumption DEF Inv, TypeOK
  <2>2. Check(a) /\ ~Allowed(events, k, now)
    <3>1. PICK b \in Attempt : \/ \E j \in Key : Arrive(b, j)
                               \/ Check(b)
                               \/ Unavailable(b)
                               \/ Reset(b)
      BY <1>1 DEF Next, vars, CleanupExpired, Tick
    <3>2. b = a
      BY <2>1, <3>1 DEF TypeOK, Arrive, Check, Unavailable, Reset, Answer
    <3>3. Check(a)
      BY <2>1, <3>1, <3>2 DEF TypeOK, Arrive, Unavailable, Reset, Answer
    <3> QED BY <2>1, <3>3 DEF TypeOK, Check, Answer
  <2>3. Cardinality(Active(events, k, now)) >= Limit[k]
    <3>1. Active(DeleteExpired(events, k, now), k, now) = Active(events, k, now)
      BY <2>1 DEF TypeOK, RateEvent, Active, EventsOf, DeleteExpired, ExpiredForKey
    <3> QED BY <2>2, <3>1 DEF Allowed, Exhausted
  <2>4. /\ Active(events, k, now) \subseteq Lasting(k, promise[k])
        /\ IsFiniteSet(Lasting(k, promise[k]))
    BY <1>1, <2>1, FS_Subset DEF Inv, TypeOK, RateEvent, Active, EventsOf, Lasting
  <2>5. /\ Cardinality(Active(events, k, now)) <= Cardinality(Lasting(k, promise[k]))
        /\ Cardinality(Active(events, k, now)) \in Nat
        /\ Cardinality(Lasting(k, promise[k])) \in Nat
    BY <2>4, FS_Subset, FS_CardinalityType
  <2>6. Cardinality(Lasting(k, promise[k])) < Limit[k]
    BY <1>1, <2>1 DEF Inv, RoomAsPromised
  <2> QED BY <2>1, <2>3, <2>5, <2>6
<1> QED BY InitInv, NextInv, <1>1, PTL DEF Spec, RetryAfterHonest

=============================================================================
