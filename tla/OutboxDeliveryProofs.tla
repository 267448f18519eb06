------------------------ MODULE OutboxDeliveryProofs ------------------------
(***************************************************************************)
(* Claims of outbox events, for any workers, streams, batches, clocks,     *)
(* limits and crashes: what a worker that holds a claim, in time or too    *)
(* late, can know of the row that it was taken from; and what the receiver *)
(* has, given the rows of a stream: a stream is a stop-and-wait channel.   *)
(* At the end, how the delay of retries grows on words of any width.       *)
(***************************************************************************)
EXTENDS OutboxDelivery, FiniteSetTheorems, WellFoundedInduction, TLAPS

-----------------------------------------------------------------------------
(* The invariant.  x and y are what two workers hold: see WorkerState. *)

\* What a worker has claimed and not settled.
Held(x) == x.batch \cup ({x.item} \ {NoItem})

Expiry(x) == x.asOf + LeaseDuration

\* A place in the loop, by a clock that shows `now` and tokens up to `top`.
Sane(x, now, top) ==
    /\ x.pc \in {"waiting", "claiming", "stopped"} => x.batch = {} /\ x.item = NoItem
    /\ x.pc = "delivering" => x.item = NoItem
    /\ x.pc \in {"publishing", "settling"} => x.item # NoItem
    /\ x.pc = "publishing" => MayInvoke(x.item.attempts)
    /\ x.pc = "settling" /\ x.verdict = "retry" => MayInvoke(x.item.attempts)
    /\ x.item \notin x.batch
    /\ x.asOf <= now
    /\ x.token <= top
    /\ Held(x) # {} => x.token # NoToken

\* A claim that is held and the row it was taken from.  While nobody else took
\* the row it is still the worker's; once somebody may, the lease is over.
Knows(x, c, row) ==
    /\ c.attempts <= row.attempts
    /\ row.token = x.token => c.attempts = row.attempts
    /\ c.attempts = row.attempts =>
           row.state = "PROCESSING" /\ row.token = x.token /\ row.lease = Expiry(x)
    /\ c.attempts < row.attempts =>
           /\ row.state = "PROCESSING" => Expiry(x) <= row.lease
           /\ row.state = "PENDING" => Expiry(x) <= row.dueAt
    /\ row.occurredAt <= x.asOf

\* Two workers with a claim of one event hold it one after the other.
Apart(x, y) ==
    \A c \in Held(x), d \in Held(y) :
        c.event = d.event => /\ c.attempts # d.attempts
                             /\ c.attempts < d.attempts => Expiry(x) <= y.asOf

RowSound(row) ==
    /\ row.state = "ABSENT" => row.attempts = 0
    /\ row.attempts > MaxDeliveryInvocations =>
           row.state \in {"PROCESSING", "DEAD_LETTER", "PUBLISHED"}
    /\ row.state = "PENDING" => row.occurredAt <= row.dueAt
    /\ row.state = "PROCESSING" => row.occurredAt <= row.lease

\* The numbers of the claims of an event that may have called the publisher.
Waiting(e) == {n \in Nat : \E w \in Workers : [event |-> e, attempts |-> n] \in worker[w].batch}

Used(e) == {n \in 1..MaxDeliveryInvocations : n <= outbox[e].attempts /\ n \notin Waiting(e)}

ClaimsKnown ==
    /\ \A w \in Workers : Sane(worker[w], Now(w), issued)
    /\ \A w \in Workers : \A c \in Held(worker[w]) : Knows(worker[w], c, outbox[c.event])
    /\ \A u, v \in Workers : u # v => Apart(worker[u], worker[v])
    /\ \A e \in Events : RowSound(outbox[e])

Inv ==
    /\ TypeOK
    /\ ClaimsKnown
    /\ \A e \in Events : invoked[e] <= Cardinality(Used(e))

-----------------------------------------------------------------------------
(* Types *)

LEMMA Config ==
    /\ LeaseDuration \in Nat \ {0} /\ MaxAttemptCount \in Nat
    /\ MaxDeliveryInvocations \in Nat \ {0} /\ MaxDeliveryInvocations < MaxAttemptCount
    /\ MaxPosition \in Nat /\ MaxDisruptions \in Nat /\ ProducerSkew \in Nat
    /\ \A w \in Workers : Skew[w] \in Nat
BY DeliveryConfigAssumption, BoundAssumption

LEMMA NoItemIsNoClaim == NoItem \notin Claim
<1>1. 0 \notin Streams
  BY StreamAssumption, FS_CardinalityType
<1>2. <<0, 0>> \notin Events
  BY <1>1 DEF Events
<1> QED BY <1>2 DEF Claim, NoItem

\* The members of a worker's record.
LEMMA WorkerTypes ==
    ASSUME NEW x \in WorkerState
    PROVE  /\ x.asOf \in Nat /\ x.token \in Nat /\ x.batch \subseteq Claim
           /\ x.item \in Claim \/ x.item = NoItem
           /\ \A c \in Held(x) : /\ c \in Claim /\ c.event \in Events
                                 /\ c.attempts \in 1..MaxAttemptCount
                                 /\ c = [event |-> c.event, attempts |-> c.attempts]
BY DEF WorkerState, Held, Claim

LEMMA RowTypes ==
    ASSUME TypeOK, NEW e \in Events
    PROVE  /\ outbox[e] \in Row /\ outbox[e].attempts \in 0..MaxAttemptCount
           /\ outbox[e].token \in Nat /\ outbox[e].token <= issued /\ issued \in Nat
           /\ outbox[e].lease \in Nat /\ outbox[e].dueAt \in Nat /\ outbox[e].occurredAt \in Nat
           /\ outbox[e].state = "PROCESSING" <=> outbox[e].token # NoToken
BY DEF TypeOK, Row

LEMMA UsedTypes ==
    \A e : IsFiniteSet(Used(e)) /\ Cardinality(Used(e)) \in Nat
                                /\ Cardinality(Used(e)) <= MaxDeliveryInvocations
<1> SUFFICES ASSUME NEW e
             PROVE  IsFiniteSet(Used(e)) /\ Cardinality(Used(e)) \in Nat
                                         /\ Cardinality(Used(e)) <= MaxDeliveryInvocations
  OBVIOUS
<1>1. IsFiniteSet(1..MaxDeliveryInvocations)
      /\ Cardinality(1..MaxDeliveryInvocations) = MaxDeliveryInvocations
  BY Config, FS_Interval
<1>2. Used(e) \subseteq 1..MaxDeliveryInvocations
  BY DEF Used
<1> QED BY <1>1, <1>2, FS_Subset, FS_CardinalityType

LEMMA MoreUsed ==
    ASSUME Inv, UNCHANGED invoked, \A e \in Events : Used(e) \subseteq Used(e)'
    PROVE  \A e \in Events : invoked'[e] <= Cardinality(Used(e)')
<1> SUFFICES ASSUME NEW e \in Events PROVE invoked[e] <= Cardinality(Used(e)')
  OBVIOUS
<1>1. IsFiniteSet(Used(e)')
  <2>1. Used(e)' \subseteq 1..MaxDeliveryInvocations
    BY DEF Used
  <2>2. IsFiniteSet(1..MaxDeliveryInvocations)
    BY Config, FS_Interval
  <2> QED BY <2>1, <2>2, FS_Subset
<1>2. Cardinality(Used(e)) <= Cardinality(Used(e)') /\ Cardinality(Used(e)) \in Nat
  BY <1>1, UsedTypes, FS_Subset
<1>3. Cardinality(Used(e)') \in Nat
  BY <1>1, FS_CardinalityType
<1> QED BY <1>2, <1>3 DEF Inv, TypeOK

-----------------------------------------------------------------------------
(* Initially *)

LEMMA InitInv == Init => Inv
<1> SUFFICES ASSUME Init PROVE Inv
  OBVIOUS
<1>1. TypeOK
  <2>1. AbsentRow \in Row /\ Idle \in WorkerState
    BY Config DEF AbsentRow, Row, NoToken, Idle, WorkerState, NoItem
  <2>2. outbox \in [Events -> Row] /\ worker \in [Workers -> WorkerState]
    BY <2>1 DEF Init
  <2>3. applied \in [Streams -> Seq(1..MaxPosition)]
    BY DEF Init
  <2>4. \A e \in Events : outbox[e].state = "ABSENT" /\ outbox[e].token = 0 /\ outbox[e].lease = 0
    BY DEF Init, AbsentRow, NoToken
  <2> QED BY <2>2, <2>3, <2>4, Config DEF Init, TypeOK, NoToken
<1>2. \A w \in Workers : worker[w] = Idle
  BY DEF Init
<1>3. Held(Idle) = {} /\ Idle.pc = "waiting" /\ Idle.batch = {} /\ Idle.item = NoItem
      /\ Idle.asOf = 0 /\ Idle.token = 0
  BY DEF Held, Idle, NoToken
<1>4. \A w \in Workers : Sane(Idle, Now(w), issued)
  BY <1>3, Config DEF Init, Sane, Now
<1>5. \A e \in Events : RowSound(outbox[e])
  BY Config DEF Init, RowSound, AbsentRow
<1>6. \A e \in Events : invoked[e] <= Cardinality(Used(e))
  BY UsedTypes DEF Init
<1>7. ClaimsKnown
  BY <1>2, <1>3, <1>4, <1>5 DEF ClaimsKnown, Apart
<1> QED BY <1>1, <1>6, <1>7 DEF Inv

-----------------------------------------------------------------------------
(* Steps that leave the rows alone *)

\* A worker that forgets claims, or goes on with those it has.
LEMMA WorkerStep ==
    ASSUME Inv, NEW w \in Workers, NEW y \in WorkerState,
           worker' = [worker EXCEPT ![w] = y],
           Sane(y, Now(w), issued),
           y.batch \subseteq worker[w].batch,
           Held(y) \subseteq Held(worker[w]),
           Held(y) = {} \/ (y.token = worker[w].token /\ y.asOf = worker[w].asOf),
           UNCHANGED <<outbox, clock, issued>>
    PROVE  /\ ClaimsKnown'
           /\ worker' \in [Workers -> WorkerState]
           /\ \A e \in Events : Used(e) \subseteq Used(e)'
<1>1. worker \in [Workers -> WorkerState] /\ ClaimsKnown
  BY DEF Inv, TypeOK
<1>2. worker'[w] = y /\ \A u \in Workers \ {w} : worker'[u] = worker[u]
  BY <1>1
<1>3. \A u \in Workers : Sane(worker'[u], Now(u)', issued')
  BY <1>1, <1>2 DEF ClaimsKnown, Now
<1>4. \A u \in Workers : \A c \in Held(worker'[u]) : Knows(worker'[u], c, outbox'[c.event])
  <2>1. \A c \in Held(y) : Knows(y, c, outbox[c.event])
    BY <1>1 DEF ClaimsKnown, Knows, Expiry
  <2> QED BY <1>1, <1>2, <2>1 DEF ClaimsKnown
<1>5. \A u \in Workers \ {w} : Apart(worker[u], y) /\ Apart(y, worker[u])
  BY <1>1 DEF ClaimsKnown, Apart, Expiry
<1>6. \A u, v \in Workers : u # v => Apart(worker'[u], worker'[v])
  BY <1>1, <1>2, <1>5 DEF ClaimsKnown
<1>7. ClaimsKnown'
  BY <1>1, <1>3, <1>4, <1>6 DEF ClaimsKnown
<1>8. \A u \in Workers : worker'[u].batch \subseteq worker[u].batch
  BY <1>2
<1>9. \A e \in Events : Used(e) \subseteq Used(e)'
  BY <1>8 DEF Used, Waiting
<1> QED BY <1>1, <1>2, <1>7, <1>9

LEMMA OnlyWorker ==
    ASSUME Inv, NEW w \in Workers, NEW y \in WorkerState,
           worker' = [worker EXCEPT ![w] = y],
           Sane(y, Now(w), issued),
           y.batch \subseteq worker[w].batch,
           Held(y) \subseteq Held(worker[w]),
           Held(y) = {} \/ (y.token = worker[w].token /\ y.asOf = worker[w].asOf),
           UNCHANGED <<outbox, calls, applied, invoked, clock, issued>>,
           disruptions' \in 0..MaxDisruptions
    PROVE  Inv'
<1>1. /\ ClaimsKnown' /\ worker' \in [Workers -> WorkerState]
      /\ \A e \in Events : Used(e) \subseteq Used(e)'
  BY WorkerStep
<1>2. \A e \in Events : invoked'[e] <= Cardinality(Used(e)')
  BY <1>1, MoreUsed
<1>3. TypeOK'
  BY <1>1 DEF Inv, TypeOK
<1> QED BY <1>1, <1>2, <1>3 DEF Inv

\* A worker with nothing in its hands.
LEMMA EmptyHanded ==
    ASSUME Inv, NEW w \in Workers, NEW y \in WorkerState,
           worker' = [worker EXCEPT ![w] = y],
           y.batch = {}, y.item = NoItem, y.token = NoToken, y.asOf <= Now(w),
           y.pc \in {"waiting", "claiming", "delivering", "stopped"},
           UNCHANGED <<outbox, calls, applied, invoked, clock, issued>>,
           disruptions' \in 0..MaxDisruptions
    PROVE  Inv'
<1>1. Held(y) = {}
  BY DEF Held
<1>2. Sane(y, Now(w), issued)
  BY <1>1 DEF Sane, Inv, TypeOK, NoToken
<1> QED BY <1>1, <1>2, OnlyWorker

LEMMA StopInv ==
    ASSUME Inv, NEW w \in Workers, worker' = [worker EXCEPT ![w] = Stopped],
           UNCHANGED <<outbox, calls, applied, invoked, clock, issued>>,
           disruptions' \in 0..MaxDisruptions
    PROVE  Inv'
<1>1. Stopped \in WorkerState
  BY DEF Stopped, Idle, WorkerState, NoToken
<1>2. Stopped.batch = {} /\ Stopped.item = NoItem /\ Stopped.token = NoToken /\ Stopped.asOf = 0
      /\ Stopped.pc = "stopped"
  BY DEF Stopped, Idle
<1>3. 0 <= Now(w)
  BY Config DEF Inv, TypeOK, Now
<1> QED BY <1>1, <1>2, <1>3, EmptyHanded

LEMMA CycleInv ==
    ASSUME Inv, NEW w \in Workers, BeginCycle(w) \/ FinishBatch(w) \/ Restart(w)
    PROVE  Inv'
<1>1. TypeOK /\ worker[w] \in WorkerState /\ Sane(worker[w], Now(w), issued)
      /\ Now(w) \in Nat /\ disruptions \in 0..MaxDisruptions
  BY Config DEF Inv, TypeOK, ClaimsKnown, Now
<1>2. CASE BeginCycle(w)
  <2> DEFINE y == [worker[w] EXCEPT !.pc = "claiming", !.asOf = Now(w)]
  <2>1. worker' = [worker EXCEPT ![w] = y] /\ worker[w].pc = "waiting"
        /\ UNCHANGED <<outbox, calls, applied, invoked, clock, issued, disruptions>>
    BY <1>1, <1>2 DEF BeginCycle, TypeOK
  <2>2. y \in WorkerState /\ y.pc = "claiming" /\ y.asOf = Now(w)
        /\ y.batch = worker[w].batch /\ y.item = worker[w].item /\ y.token = worker[w].token
    BY <1>1 DEF WorkerState
  <2>3. y.batch = {} /\ y.item = NoItem
    BY <1>1, <2>1, <2>2 DEF Sane
  <2>4. Held(y) = {}
    BY <2>3 DEF Held
  <2>5. Sane(y, Now(w), issued)
    BY <1>1, <2>2, <2>3, <2>4 DEF Sane
  <2> HIDE DEF y
  <2> QED BY <1>1, <2>1, <2>2, <2>3, <2>4, <2>5, OnlyWorker
<1>3. CASE FinishBatch(w)
  <2> DEFINE y == [Idle EXCEPT !.cancelled = worker[w].cancelled]
  <2>1. y \in WorkerState /\ y.batch = {} /\ y.item = NoItem /\ y.token = NoToken /\ y.asOf = 0
        /\ y.pc = "waiting"
    BY <1>1 DEF Idle, WorkerState, NoToken
  <2>2. worker' = [worker EXCEPT ![w] = y]
        /\ UNCHANGED <<outbox, calls, applied, invoked, clock, issued, disruptions>>
    BY <1>3 DEF FinishBatch
  <2>3. y.asOf <= Now(w)
    BY <1>1, <2>1
  <2>4. disruptions' \in 0..MaxDisruptions
    BY <1>1, <2>2
  <2> HIDE DEF y
  <2> QED BY <2>1, <2>2, <2>3, <2>4, EmptyHanded
<1>4. CASE Restart(w)
  <2>1. Idle \in WorkerState /\ Idle.batch = {} /\ Idle.item = NoItem /\ Idle.token = NoToken
        /\ Idle.asOf = 0 /\ Idle.pc = "waiting"
    BY DEF Idle, WorkerState, NoToken
  <2>2. worker' = [worker EXCEPT ![w] = Idle]
        /\ UNCHANGED <<outbox, calls, applied, invoked, clock, issued, disruptions>>
    BY <1>4 DEF Restart
  <2>3. Idle.asOf <= Now(w)
    BY <1>1, <2>1
  <2>4. disruptions' \in 0..MaxDisruptions
    BY <1>1, <2>2
  <2> QED BY <2>1, <2>2, <2>3, <2>4, EmptyHanded
<1> QED BY <1>2, <1>3, <1>4

LEMMA ProcessInv ==
    ASSUME Inv, NEW w \in Workers, Stop(w) \/ Crash(w) \/ Shutdown(w)
    PROVE  Inv'
<1>1. TypeOK /\ worker[w] \in WorkerState /\ Sane(worker[w], Now(w), issued)
      /\ disruptions \in 0..MaxDisruptions /\ MaxDisruptions \in Nat
  BY Config DEF Inv, TypeOK, ClaimsKnown
<1>2. CASE Stop(w)
  <2>1. /\ worker' = [worker EXCEPT ![w] = Stopped] /\ disruptions' \in 0..MaxDisruptions
        /\ UNCHANGED <<outbox, calls, applied, invoked, clock, issued>>
    BY <1>1, <1>2 DEF Stop
  <2> QED BY <2>1, StopInv
<1>3. CASE Crash(w)
  <2>1. /\ worker' = [worker EXCEPT ![w] = Stopped] /\ disruptions' \in 0..MaxDisruptions
        /\ UNCHANGED <<outbox, calls, applied, invoked, clock, issued>>
    BY <1>1, <1>3 DEF Crash, Disrupt
  <2> QED BY <2>1, StopInv
<1>4. CASE Shutdown(w)
  <2> DEFINE y == [worker[w] EXCEPT !.cancelled = TRUE]
  <2>1. worker' = [worker EXCEPT ![w] = y] /\ disruptions' \in 0..MaxDisruptions
        /\ UNCHANGED <<outbox, calls, applied, invoked, clock, issued>>
    BY <1>1, <1>4 DEF Shutdown, Disrupt
  <2>2. /\ y \in WorkerState /\ y.pc = worker[w].pc /\ y.asOf = worker[w].asOf
        /\ y.batch = worker[w].batch /\ y.item = worker[w].item /\ y.token = worker[w].token
        /\ y.verdict = worker[w].verdict
    BY <1>1 DEF WorkerState
  <2>3. Held(y) = Held(worker[w]) /\ Sane(y, Now(w), issued)
    BY <1>1, <2>2 DEF Sane, Held
  <2> HIDE DEF y
  <2> QED BY <2>1, <2>2, <2>3, OnlyWorker
<1> QED BY <1>2, <1>3, <1>4

LEMMA ItemInv ==
    ASSUME Inv, NEW w \in Workers, SkipExpired(w) \/ PutAway(w)
    PROVE  Inv'
<1>1. TypeOK /\ worker[w] \in WorkerState /\ Sane(worker[w], Now(w), issued)
      /\ disruptions \in 0..MaxDisruptions
  BY DEF Inv, TypeOK, ClaimsKnown
<1>2. CASE SkipExpired(w)
  <2>1. PICK claim \in worker[w].batch :
            /\ worker[w].pc = "delivering"
            /\ worker' = [worker EXCEPT ![w].batch = @ \ {claim}]
            /\ UNCHANGED <<outbox, calls, applied, invoked, clock, issued, disruptions>>
    BY <1>2 DEF SkipExpired, NextClaim
  <2> DEFINE y == [worker[w] EXCEPT !.batch = @ \ {claim}]
  <2>2. worker' = [worker EXCEPT ![w] = y]
    BY <1>1, <2>1 DEF TypeOK
  <2>3. /\ y \in WorkerState /\ y.pc = "delivering" /\ y.asOf = worker[w].asOf
        /\ y.batch = worker[w].batch \ {claim} /\ y.item = worker[w].item
        /\ y.token = worker[w].token
    BY <1>1, <2>1 DEF WorkerState
  <2> HIDE DEF y
  <2>4. Held(y) \subseteq Held(worker[w])
    BY <2>3 DEF Held
  <2>5. Sane(y, Now(w), issued)
    BY <1>1, <2>1, <2>3, <2>4 DEF Sane
  <2> QED BY <1>1, <2>1, <2>2, <2>3, <2>4, <2>5, OnlyWorker
<1>3. CASE PutAway(w)
  <2>1. PICK claim \in worker[w].batch :
            /\ worker[w].pc = "delivering"
            /\ worker' = [worker EXCEPT ![w].pc = "settling", ![w].batch = @ \ {claim},
                                        ![w].item = claim, ![w].verdict = "dead"]
            /\ UNCHANGED <<outbox, calls, applied, invoked, clock, issued, disruptions>>
    BY <1>3 DEF PutAway, NextClaim
  <2> DEFINE y == [worker[w] EXCEPT !.pc = "settling", !.batch = @ \ {claim},
                                    !.item = claim, !.verdict = "dead"]
  <2>2. worker' = [worker EXCEPT ![w] = y]
    BY <1>1, <2>1 DEF TypeOK
  <2>3. /\ y \in WorkerState /\ y.pc = "settling" /\ y.asOf = worker[w].asOf
        /\ y.batch = worker[w].batch \ {claim} /\ y.item = claim /\ y.verdict = "dead"
        /\ y.token = worker[w].token
    BY <1>1, <2>1 DEF WorkerState
  <2>4. claim # NoItem
    BY <1>1, NoItemIsNoClaim, WorkerTypes
  <2> HIDE DEF y
  <2>5. Held(y) \subseteq Held(worker[w])
    BY <2>3, <2>4 DEF Held
  <2>6. Sane(y, Now(w), issued)
    BY <1>1, <2>1, <2>3, <2>4, <2>5 DEF Sane
  <2> QED BY <1>1, <2>1, <2>2, <2>3, <2>5, <2>6, OnlyWorker
<1> QED BY <1>2, <1>3

LEMMA ReturnInv ==
    ASSUME Inv, NEW w \in Workers, PublishSucceeds(w) \/ PublishFails(w)
    PROVE  Inv'
<1>1. TypeOK /\ worker[w] \in WorkerState /\ Sane(worker[w], Now(w), issued)
      /\ disruptions \in 0..MaxDisruptions
  BY DEF Inv, TypeOK, ClaimsKnown
<1>2. worker[w].pc = "publishing" /\ MayInvoke(worker[w].item.attempts) /\ worker[w].item # NoItem
      /\ UNCHANGED <<outbox, calls, applied, invoked, clock, issued, disruptions>>
  BY <1>1 DEF PublishSucceeds, PublishFails, Sane
<1>3. ASSUME NEW y \in WorkerState, worker' = [worker EXCEPT ![w] = y],
             y.batch = worker[w].batch, y.token = worker[w].token, y.asOf = worker[w].asOf,
             \/ y.pc = "settling" /\ y.item = worker[w].item
             \/ y.pc = "delivering" /\ y.item = NoItem
      PROVE  Inv'
  <2>1. Held(y) \subseteq Held(worker[w])
    BY <1>3 DEF Held
  <2>2. NoItem \notin worker[w].batch
    BY <1>1, NoItemIsNoClaim, WorkerTypes
  <2>3. Sane(y, Now(w), issued)
    BY <1>1, <1>2, <1>3, <2>1, <2>2 DEF Sane
  <2> QED BY <1>1, <1>2, <1>3, <2>1, <2>3, OnlyWorker
<1>4. CASE PublishSucceeds(w)
  <2> DEFINE y == [worker[w] EXCEPT !.pc = "settling", !.verdict = "published"]
  <2>1. worker' = [worker EXCEPT ![w] = y]
    BY <1>1, <1>4 DEF PublishSucceeds, TypeOK
  <2>2. /\ y \in WorkerState /\ y.pc = "settling" /\ y.asOf = worker[w].asOf
        /\ y.batch = worker[w].batch /\ y.item = worker[w].item /\ y.token = worker[w].token
    BY <1>1 DEF WorkerState
  <2> HIDE DEF y
  <2> QED BY <1>3, <2>1, <2>2
<1>5. CASE PublishFails(w)
  <2>1. CASE FailureVerdict(w) = "stop"
    <3>1. worker' = [worker EXCEPT ![w] = Stopped]
      BY <1>5, <2>1 DEF PublishFails
    <3> QED BY <1>1, <1>2, <3>1, StopInv
  <2>2. CASE FailureVerdict(w) = "expired"
    <3> DEFINE y == [worker[w] EXCEPT !.pc = "delivering", !.item = NoItem]
    <3>1. worker' = [worker EXCEPT ![w] = y]
      BY <1>1, <1>5, <2>2 DEF PublishFails, TypeOK
    <3>2. /\ y \in WorkerState /\ y.pc = "delivering" /\ y.asOf = worker[w].asOf
          /\ y.batch = worker[w].batch /\ y.item = NoItem /\ y.token = worker[w].token
      BY <1>1 DEF WorkerState
    <3> HIDE DEF y
    <3> QED BY <1>3, <3>1, <3>2
  <2>3. CASE FailureVerdict(w) \in {"dead", "retry"}
    <3> DEFINE y == [worker[w] EXCEPT !.pc = "settling", !.verdict = FailureVerdict(w)]
    <3>1. worker' = [worker EXCEPT ![w] = y]
      BY <1>1, <1>5, <2>3 DEF PublishFails, TypeOK
    <3>2. /\ y \in WorkerState /\ y.pc = "settling" /\ y.asOf = worker[w].asOf
          /\ y.batch = worker[w].batch /\ y.item = worker[w].item /\ y.token = worker[w].token
      BY <1>1, <2>3 DEF WorkerState
    <3> HIDE DEF y
    <3> QED BY <1>3, <3>1, <3>2
  <2>4. FailureVerdict(w) \in {"stop", "expired", "dead", "retry"}
    BY DEF FailureVerdict
  <2> QED BY <2>1, <2>2, <2>3, <2>4
<1> QED BY <1>4, <1>5

-----------------------------------------------------------------------------
(* A publisher call, its receipt, and time *)

\* The call is counted for its claim: no other claim of the event has the same
\* number, so the number was not used and is not awaited any more.
LEMMA StartPublishInv == ASSUME Inv, NEW w \in Workers, StartPublish(w) PROVE Inv'
<1>1. TypeOK /\ ClaimsKnown /\ worker[w] \in WorkerState /\ Sane(worker[w], Now(w), issued)
      /\ \A e \in Events : invoked[e] <= Cardinality(Used(e))
  BY DEF Inv, TypeOK, ClaimsKnown
<1>2. PICK claim \in worker[w].batch :
          /\ worker[w].pc = "delivering" /\ MayInvoke(claim.attempts)
          /\ worker' = [worker EXCEPT ![w].pc = "publishing",
                                      ![w].batch = @ \ {claim}, ![w].item = claim]
          /\ calls' = calls \cup {<<claim.event, worker[w].token>>}
          /\ invoked' = [invoked EXCEPT ![claim.event] = @ + 1]
          /\ UNCHANGED <<outbox, applied, clock, issued, disruptions>>
  BY DEF StartPublish, NextClaim
<1> DEFINE y == [worker[w] EXCEPT !.pc = "publishing", !.batch = @ \ {claim}, !.item = claim]
           e == claim.event
           n == claim.attempts
<1>3. worker' = [worker EXCEPT ![w] = y]
  BY <1>1, <1>2 DEF TypeOK
<1>4. /\ y \in WorkerState /\ y.pc = "publishing" /\ y.asOf = worker[w].asOf
      /\ y.batch = worker[w].batch \ {claim} /\ y.item = claim /\ y.token = worker[w].token
  BY <1>1, <1>2 DEF WorkerState
<1>5. /\ claim \in Held(worker[w]) /\ claim # NoItem /\ e \in Events /\ n \in 1..MaxAttemptCount
      /\ claim = [event |-> e, attempts |-> n]
  BY <1>1, NoItemIsNoClaim, WorkerTypes DEF Held
<1>6. Held(y) \subseteq Held(worker[w])
  BY <1>4, <1>5 DEF Held
<1>7. Sane(y, Now(w), issued)
  BY <1>1, <1>2, <1>4, <1>6 DEF Sane
<1>8. /\ ClaimsKnown' /\ worker' \in [Workers -> WorkerState]
      /\ \A f \in Events : Used(f) \subseteq Used(f)'
  <2> HIDE DEF y
  <2> QED BY <1>2, <1>3, <1>4, <1>6, <1>7, WorkerStep
<1>9. TypeOK'
  <2>1. worker[w].token \in 1..issued
    BY <1>1, <1>5, WorkerTypes DEF Sane, NoToken, TypeOK
  <2>2. calls' \subseteq Events \X (1..issued)
    BY <1>1, <1>2, <1>5, <2>1 DEF TypeOK
  <2>3. invoked' \in [Events -> Nat]
    BY <1>1, <1>2, <1>5 DEF TypeOK
  <2> QED BY <1>1, <1>2, <1>8, <2>2, <2>3 DEF TypeOK
<1>10. n \in Used(e)' /\ n \notin Used(e)
  <2>1. n \in Waiting(e)
    BY <1>2, <1>5 DEF Waiting
  <2>2. n <= outbox[e].attempts
    BY <1>1, <1>5 DEF ClaimsKnown, Knows
  <2>3. ASSUME NEW u \in Workers, claim \in worker'[u].batch PROVE FALSE
    <3>1. u # w
      BY <1>1, <1>3, <1>4, <2>3 DEF TypeOK
    <3>2. claim \in Held(worker[u])
      BY <1>1, <1>3, <2>3, <3>1, <1>5 DEF Held, TypeOK
    <3> QED BY <1>1, <1>5, <3>1, <3>2 DEF ClaimsKnown, Apart
  <2>4. n \notin Waiting(e)'
    BY <1>5, <2>3 DEF Waiting
  <2>5. n \in 1..MaxDeliveryInvocations
    BY <1>2, <1>5, Config DEF MayInvoke
  <2> QED BY <1>2, <2>1, <2>2, <2>4, <2>5 DEF Used
<1>11. ASSUME NEW f \in Events PROVE invoked'[f] <= Cardinality(Used(f)')
  <2>1. IsFiniteSet(Used(f)')
    <3>1. Used(f)' \subseteq 1..MaxDeliveryInvocations
      BY DEF Used
    <3>2. IsFiniteSet(1..MaxDeliveryInvocations)
      BY Config, FS_Interval
    <3> QED BY <3>1, <3>2, FS_Subset
  <2>2. Cardinality(Used(f)') \in Nat /\ Cardinality(Used(f)) \in Nat
        /\ IsFiniteSet(Used(f)) /\ invoked[f] \in Nat /\ invoked[f] <= Cardinality(Used(f))
    BY <1>1, <2>1, FS_CardinalityType, UsedTypes DEF TypeOK
  <2>3. CASE f # e
    <3>1. invoked'[f] = invoked[f]
      BY <1>1, <1>2, <2>3 DEF TypeOK
    <3>2. Cardinality(Used(f)) <= Cardinality(Used(f)')
      BY <1>8, <2>1, FS_Subset
    <3> QED BY <2>2, <3>1, <3>2
  <2>4. CASE f = e
    <3>1. invoked'[f] = invoked[f] + 1
      BY <1>1, <1>2, <2>4 DEF TypeOK
    <3>2. Cardinality(Used(f) \cup {n}) = Cardinality(Used(f)) + 1
      BY <1>10, <2>2, <2>4, FS_AddElement
    <3>3. Cardinality(Used(f) \cup {n}) <= Cardinality(Used(f)')
      BY <1>8, <1>10, <2>1, <2>4, FS_Subset
    <3> QED BY <2>2, <3>1, <3>2, <3>3
  <2> QED BY <2>3, <2>4
<1> QED BY <1>8, <1>9, <1>11 DEF Inv

LEMMA ReceiveInv == ASSUME Inv, NEW call \in calls, Receive(call) PROVE Inv'
<1>1. TypeOK /\ ClaimsKnown /\ UNCHANGED <<outbox, worker, invoked, clock, issued, disruptions>>
  BY DEF Inv, Receive
<1>2. ClaimsKnown'
  BY <1>1 DEF ClaimsKnown, Now
<1>3. \A e \in Events : invoked'[e] <= Cardinality(Used(e)')
  BY <1>1, MoreUsed DEF Used, Waiting
<1>4. applied' \in [Streams -> Seq(1..MaxPosition)]
  <2> DEFINE s == call[1][1]
             n == call[1][2]
             S == 1..MaxPosition
  <2>1. s \in Streams /\ n \in S /\ applied[s] \in Seq(S)
    BY <1>1 DEF TypeOK, Events
  <2>2. applied' = applied \/ applied' = [applied EXCEPT ![s] = Append(@, n)]
    BY DEF Receive
  <2> HIDE DEF S
  <2>3. Append(applied[s], n) \in Seq(S)
    BY <2>1
  <2>4. applied \in [Streams -> Seq(S)]
    BY <1>1 DEF TypeOK, S
  <2>5. applied' \in [Streams -> Seq(S)]
    BY <2>2, <2>3, <2>4
  <2> QED BY <2>5 DEF S
<1>5. calls' \subseteq Events \X (1..issued)
  BY <1>1 DEF TypeOK, Receive
<1>6. TypeOK'
  BY <1>1, <1>4, <1>5 DEF TypeOK
<1> QED BY <1>2, <1>3, <1>6 DEF Inv

LEMMA TickInv == ASSUME Inv, Tick PROVE Inv'
<1>1. TypeOK /\ ClaimsKnown /\ clock' = clock + 1
      /\ UNCHANGED <<outbox, worker, calls, applied, invoked, issued>>
  BY DEF Inv, Tick
<1>2. disruptions' \in 0..MaxDisruptions /\ clock' \in Nat
  BY <1>1, Config DEF Tick, Disrupt, TypeOK
<1>3. ASSUME NEW w \in Workers PROVE Sane(worker[w], Now(w)', issued)
  <2>1. Sane(worker[w], Now(w), issued) /\ worker[w].asOf \in Nat
    BY <1>1, WorkerTypes DEF ClaimsKnown, TypeOK
  <2>2. Now(w) \in Nat /\ Now(w)' = Now(w) + 1
    <3>1. clock \in Nat /\ Skew[w] \in Nat
      BY <1>1, Config DEF TypeOK
    <3>2. Now(w) = clock + Skew[w] /\ Now(w)' = clock' + Skew[w]
      BY DEF Now
    <3> QED BY <1>1, <3>1, <3>2
  <2>3. worker[w].asOf <= Now(w)'
    BY <2>1, <2>2 DEF Sane
  <2> QED BY <2>1, <2>3 DEF Sane
<1>4. ClaimsKnown'
  BY <1>1, <1>3 DEF ClaimsKnown
<1>5. \A e \in Events : invoked'[e] <= Cardinality(Used(e)')
  BY <1>1, MoreUsed DEF Used, Waiting
<1>6. TypeOK'
  BY <1>1, <1>2 DEF TypeOK
<1> QED BY <1>4, <1>5, <1>6 DEF Inv

LEMMA StutterInv == ASSUME Inv, UNCHANGED vars PROVE Inv'
<1>1. TypeOK /\ ClaimsKnown
      /\ UNCHANGED <<outbox, worker, calls, applied, invoked, clock, issued, disruptions>>
  BY DEF Inv, vars
<1>2. TypeOK'
  BY <1>1 DEF TypeOK
<1>3. ClaimsKnown'
  BY <1>1 DEF ClaimsKnown, Now
<1>4. \A e \in Events : invoked'[e] <= Cardinality(Used(e)')
  BY <1>1, MoreUsed DEF Used, Waiting
<1> QED BY <1>2, <1>3, <1>4 DEF Inv

-----------------------------------------------------------------------------
(* Steps that change rows *)

Consistent(row, top) ==
    /\ row.state = "PROCESSING" <=> row.token # NoToken
    /\ row.state = "PROCESSING" <=> row.lease # 0
    /\ row.token <= top

LEMMA NewRow ==
    ASSUME NEW t \in Nat, NEW row,
           row = [AbsentRow EXCEPT !.state = "PENDING", !.occurredAt = t, !.dueAt = t]
    PROVE  /\ row \in Row /\ row.state = "PENDING" /\ row.attempts = 0 /\ row.token = NoToken
           /\ row.lease = 0 /\ row.dueAt = row.occurredAt /\ row.occurredAt \in Nat
<1>1. 0 \in 0..MaxAttemptCount
  BY Config
<1>2. row \in Row
  BY <1>1 DEF AbsentRow, NoToken, Row
<1>3. row.state = "PENDING" /\ row.attempts = 0 /\ row.token = NoToken
      /\ row.lease = 0 /\ row.dueAt = t /\ row.occurredAt = t
  BY DEF AbsentRow
<1> QED BY <1>2, <1>3

LEMMA AppendInv == ASSUME Inv, NEW s \in Streams, AppendEvent(s) PROVE Inv'
<1> DEFINE row == [AbsentRow EXCEPT !.state = "PENDING",
                                    !.occurredAt = ProducerNow, !.dueAt = ProducerNow]
<1>1. TypeOK /\ ClaimsKnown /\ UNCHANGED <<worker, calls, applied, invoked, clock, issued, disruptions>>
  BY DEF Inv, AppendEvent
<1>2. PICK n \in 1..MaxPosition :
          outbox[<<s, n>>].state = "ABSENT" /\ outbox' = [outbox EXCEPT ![<<s, n>>] = row]
  BY DEF AppendEvent
<1> DEFINE e == <<s, n>>
<1>3. e \in Events /\ outbox' = [outbox EXCEPT ![e] = row]
  BY <1>2 DEF Events
<1>4. ProducerNow \in Nat
  BY <1>1, Config DEF ProducerNow, TypeOK
<1>5. /\ row \in Row /\ row.state = "PENDING" /\ row.attempts = 0 /\ row.token = NoToken
      /\ row.lease = 0 /\ row.dueAt = row.occurredAt /\ row.occurredAt \in Nat
  BY <1>4, NewRow
<1> HIDE DEF row
<1>6. outbox[e].attempts = 0
  BY <1>1, <1>2, <1>3 DEF ClaimsKnown, RowSound
<1> HIDE DEF e
<1>7. outbox'[e] = row /\ \A f \in Events \ {e} : outbox'[f] = outbox[f]
  BY <1>1, <1>3 DEF TypeOK
<1>8. TypeOK'
  <2>1. outbox' \in [Events -> Row]
    BY <1>1, <1>3, <1>5 DEF TypeOK
  <2>2. \A f \in Events : Consistent(outbox'[f], issued)
    <3>1. \A f \in Events : Consistent(outbox[f], issued)
      BY <1>1 DEF TypeOK, Consistent
    <3>2. Consistent(row, issued)
      BY <1>1, <1>5 DEF Consistent, NoToken, TypeOK
    <3> QED BY <1>7, <3>1, <3>2
  <2> QED BY <1>1, <2>1, <2>2 DEF TypeOK, Consistent
<1>9. ClaimsKnown'
  <2>1. ASSUME NEW w \in Workers, NEW c \in Held(worker[w]) PROVE Knows(worker[w], c, outbox'[c.event])
    <3>1. c.event \in Events /\ c.attempts \in 1..MaxAttemptCount
          /\ Knows(worker[w], c, outbox[c.event])
      BY <1>1, WorkerTypes DEF ClaimsKnown, TypeOK
    <3>2. c.event # e
      BY <1>6, <3>1, Config DEF Knows
    <3> QED BY <1>7, <3>1, <3>2
  <2>2. RowSound(row)
    BY <1>5, Config DEF RowSound
  <2>3. \A f \in Events : RowSound(outbox'[f])
    BY <1>1, <1>7, <2>2 DEF ClaimsKnown
  <2>4. \A w \in Workers : Sane(worker'[w], Now(w)', issued')
    BY <1>1 DEF ClaimsKnown, Now
  <2> QED BY <1>1, <2>1, <2>3, <2>4 DEF ClaimsKnown
<1>10. \A f \in Events : Used(f) \subseteq Used(f)'
  <2>1. \A f \in Events : outbox'[f].attempts = outbox[f].attempts
    BY <1>5, <1>6, <1>7
  <2> QED BY <1>1, <2>1 DEF Used, Waiting
<1>11. \A f \in Events : invoked'[f] <= Cardinality(Used(f)')
  BY <1>1, <1>10, MoreUsed
<1> QED BY <1>8, <1>9, <1>11 DEF Inv

\* The end of a delivery: the row is left alone, or given back by its owner.
LEMMA SettleInv == ASSUME Inv, NEW w \in Workers, Settle(w) PROVE Inv'
<1> DEFINE x == worker[w]
           e == x.item.event
           y == [x EXCEPT !.pc = "delivering", !.item = NoItem, !.verdict = "none"]
<1>1. /\ TypeOK /\ ClaimsKnown /\ x \in WorkerState /\ Sane(x, Now(w), issued) /\ x.pc = "settling"
      /\ x.item # NoItem /\ x.item \in Held(x) /\ x.item \in Claim /\ e \in Events
      /\ x.item.attempts \in 1..MaxAttemptCount /\ x.asOf \in Nat /\ x.token # NoToken
      /\ Knows(x, x.item, outbox[e])
  <2>1. TypeOK /\ ClaimsKnown /\ x \in WorkerState /\ Sane(x, Now(w), issued) /\ x.pc = "settling"
    BY DEF Inv, TypeOK, ClaimsKnown, Settle
  <2>2. x.item # NoItem
    BY <2>1 DEF Sane
  <2>3. x.item \in Held(x)
    BY <2>2 DEF Held
  <2> QED BY <2>1, <2>2, <2>3, WorkerTypes DEF Sane, ClaimsKnown
<1>2. /\ worker' = [worker EXCEPT ![w] = y]
      /\ UNCHANGED <<calls, applied, invoked, clock, issued, disruptions>>
  BY <1>1 DEF Settle, TypeOK
<1>3. /\ y \in WorkerState /\ y.pc = "delivering" /\ y.asOf = x.asOf
      /\ y.batch = x.batch /\ y.item = NoItem /\ y.token = x.token
  BY <1>1 DEF WorkerState
<1>4. Held(y) \subseteq Held(x) /\ x.item \notin Held(y)
  BY <1>1, <1>3 DEF Held, Sane
<1>5. Sane(y, Now(w), issued)
  <2>1. NoItem \notin x.batch
    BY <1>1, NoItemIsNoClaim, WorkerTypes
  <2> QED BY <1>1, <1>3, <1>4, <2>1 DEF Sane
<1>6. CASE UNCHANGED outbox
  <2>1. disruptions' \in 0..MaxDisruptions
    BY <1>1, <1>2 DEF TypeOK
  <2> HIDE DEF y
  <2> QED BY <1>2, <1>3, <1>4, <1>5, <1>6, <2>1, OnlyWorker
<1>7. ASSUME Owns(w, e), NEW row \in Row, outbox' = [outbox EXCEPT ![e] = row],
             row.token = NoToken, row.lease = 0, row.attempts = outbox[e].attempts,
             row.occurredAt = outbox[e].occurredAt,
             \/ row.state \in {"PUBLISHED", "DEAD_LETTER"}
             \/ row.state = "PENDING" /\ x.verdict = "retry" /\ Now(w) <= row.dueAt
      PROVE  Inv'
  <2> HIDE DEF y
  <2>1. outbox[e].attempts = x.item.attempts /\ outbox[e].token = x.token
        /\ outbox[e].occurredAt <= x.asOf
    BY <1>1, <1>7 DEF Owns, Knows
  <2>2. worker'[w] = y /\ \A u \in Workers \ {w} : worker'[u] = worker[u]
    BY <1>1, <1>2 DEF TypeOK
  <2>3. outbox'[e] = row /\ \A f \in Events \ {e} : outbox'[f] = outbox[f]
    BY <1>1, <1>7 DEF TypeOK
  <2>4. Now(w) \in Nat /\ x.asOf <= Now(w)
    BY <1>1, Config DEF Now, TypeOK, Sane
  <2>5. TypeOK'
    <3>1. outbox' \in [Events -> Row] /\ worker' \in [Workers -> WorkerState]
      BY <1>1, <1>2, <1>3, <1>7 DEF TypeOK
    <3>2. \A f \in Events : Consistent(outbox[f], issued)
      BY <1>1 DEF TypeOK, Consistent
    <3>3. Consistent(row, issued)
      BY <1>1, <1>7 DEF Consistent, NoToken, TypeOK
    <3>4. \A f \in Events : Consistent(outbox'[f], issued)
      BY <2>3, <3>2, <3>3
    <3> QED BY <1>1, <1>2, <3>1, <3>4 DEF TypeOK, Consistent
  <2>6. RowSound(row)
    <3>1. row.state = "PENDING" => row.attempts <= MaxDeliveryInvocations
      BY <1>1, <1>7, <2>1 DEF Sane, MayInvoke
    <3>2. row.state = "PENDING" => row.occurredAt <= row.dueAt
      <4>1. row.occurredAt \in Nat /\ row.dueAt \in Nat
        BY <1>7 DEF Row
      <4> QED BY <1>1, <1>7, <2>1, <2>4, <4>1
    <3>3. row.attempts \in Nat
      BY <1>7, Config DEF Row
    <3> QED BY <1>7, <3>1, <3>2, <3>3, Config DEF RowSound
  <2>7. ASSUME NEW d \in Held(y) PROVE d.event # e /\ Knows(y, d, outbox'[d.event])
    <3>1. d \in Held(x) /\ d # x.item /\ d.event \in Events
      BY <1>1, <1>4, <2>7, WorkerTypes
    <3>2. Knows(x, d, outbox[d.event])
      BY <1>1, <3>1 DEF ClaimsKnown
    <3>3. d.event # e
      <4>1. ASSUME d.event = e PROVE FALSE
        <5>1. d.attempts = x.item.attempts
          BY <2>1, <3>2, <4>1 DEF Knows
        <5> QED BY <1>1, <3>1, <4>1, <5>1, WorkerTypes
      <4> QED BY <4>1
    <3> QED BY <1>3, <2>3, <3>1, <3>2, <3>3 DEF Knows, Expiry
  <2>8. ASSUME NEW u \in Workers \ {w}, NEW d \in Held(worker[u])
        PROVE  Knows(worker[u], d, outbox'[d.event])
    <3>1. worker[u] \in WorkerState /\ d.event \in Events /\ d.attempts \in 1..MaxAttemptCount
          /\ Knows(worker[u], d, outbox[d.event])
      BY <1>1, WorkerTypes DEF ClaimsKnown, TypeOK
    <3>2. CASE d.event # e
      BY <2>3, <3>1, <3>2
    <3>3. CASE d.event = e
      <4>1. d.attempts # x.item.attempts /\ (d.attempts < x.item.attempts => Expiry(worker[u]) <= x.asOf)
        BY <1>1, <3>3 DEF ClaimsKnown, Apart
      <4>2. d.attempts < row.attempts
        BY <1>1, <1>7, <2>1, <3>1, <3>3, <4>1, Config DEF Knows
      <4>3. worker[u].token # NoToken
        BY <1>1, <2>8 DEF ClaimsKnown, Sane
      <4>4. Expiry(worker[u]) <= x.asOf /\ Expiry(worker[u]) \in Nat
        BY <1>7, <2>1, <3>1, <4>1, <4>2, WorkerTypes, Config DEF Expiry
      <4>5. row.state = "PENDING" => Expiry(worker[u]) <= row.dueAt
        <5>1. row.dueAt \in Nat
          BY <1>7 DEF Row
        <5> QED BY <1>1, <1>7, <2>4, <4>4, <5>1
      <4>6. row.occurredAt <= worker[u].asOf
        BY <1>7, <3>1, <3>3 DEF Knows
      <4>7. Knows(worker[u], d, row)
        BY <1>7, <3>1, <4>2, <4>3, <4>5, <4>6, Config DEF Knows, Row
      <4> QED BY <2>3, <3>3, <4>7
    <3> QED BY <3>2, <3>3
  <2>9. \A u \in Workers : \A d \in Held(worker'[u]) : Knows(worker'[u], d, outbox'[d.event])
    BY <2>2, <2>7, <2>8
  <2>10. \A u \in Workers : Sane(worker'[u], Now(u)', issued')
    BY <1>1, <1>2, <1>5, <2>2 DEF ClaimsKnown, Now
  <2>11. \A u, v \in Workers : u # v => Apart(worker'[u], worker'[v])
    <3>1. \A u \in Workers \ {w} : Apart(worker[u], y) /\ Apart(y, worker[u])
      BY <1>1, <1>3, <1>4 DEF ClaimsKnown, Apart, Expiry
    <3> QED BY <1>1, <2>2, <3>1 DEF ClaimsKnown
  <2>12. \A f \in Events : RowSound(outbox'[f])
    BY <1>1, <2>3, <2>6 DEF ClaimsKnown
  <2>13. \A f \in Events : Used(f) \subseteq Used(f)'
    <3>1. \A f \in Events : outbox'[f].attempts = outbox[f].attempts
      BY <1>7, <2>3
    <3>2. \A u \in Workers : worker'[u].batch = worker[u].batch
      BY <1>3, <2>2
    <3> QED BY <3>1, <3>2 DEF Used, Waiting
  <2>14. \A f \in Events : invoked'[f] <= Cardinality(Used(f)')
    BY <1>2, <2>13, MoreUsed
  <2>15. ClaimsKnown'
    BY <2>9, <2>10, <2>11, <2>12 DEF ClaimsKnown
  <2> QED BY <2>5, <2>14, <2>15 DEF Inv
<1>8. CASE ~UNCHANGED outbox
  <2>1. Owns(w, e) /\ outbox[e] \in Row
    BY <1>1, <1>8 DEF Settle, TypeOK
  <2>2. Now(w) \in Nat
    BY <1>1, Config DEF Now, TypeOK
  <2>3. ASSUME NEW state \in {"PUBLISHED", "DEAD_LETTER"},
               outbox' = [outbox EXCEPT ![e] = Released(outbox[e], state)]
        PROVE  Inv'
    <3> DEFINE row == Released(outbox[e], state)
    <3>1. row \in Row /\ row.token = NoToken /\ row.lease = 0 /\ row.state = state
          /\ row.attempts = outbox[e].attempts /\ row.occurredAt = outbox[e].occurredAt
      BY <2>1, <2>3 DEF Row, Released, NoToken
    <3> HIDE DEF row
    <3>2. outbox' = [outbox EXCEPT ![e] = row]
      BY <2>3 DEF row
    <3> QED BY <1>7, <2>1, <3>1, <3>2
  <2>4. ASSUME NEW due \in Nat, Now(w) <= due, x.verdict = "retry",
               outbox' = [outbox EXCEPT ![e] = [Released(outbox[e], "PENDING") EXCEPT !.dueAt = due]]
        PROVE  Inv'
    <3> DEFINE row == [Released(outbox[e], "PENDING") EXCEPT !.dueAt = due]
    <3>1. row \in Row /\ row.token = NoToken /\ row.lease = 0 /\ row.state = "PENDING" /\ row.dueAt = due
          /\ row.attempts = outbox[e].attempts /\ row.occurredAt = outbox[e].occurredAt
      BY <2>1, <2>4 DEF Row, Released, NoToken
    <3> HIDE DEF row
    <3>2. outbox' = [outbox EXCEPT ![e] = row]
      BY <2>4 DEF row
    <3> QED BY <1>7, <2>1, <2>4, <3>1, <3>2
  <2>5. \/ outbox' = [outbox EXCEPT ![e] = Released(outbox[e], "PUBLISHED")]
        \/ outbox' = [outbox EXCEPT ![e] = Released(outbox[e], "DEAD_LETTER")]
        \/ /\ x.verdict = "retry"
           /\ \E delay \in Nat :
                outbox' = [outbox EXCEPT ![e] =
                              [Released(outbox[e], "PENDING") EXCEPT !.dueAt = Now(w) + delay]]
    <3>1. 0..RetryCap(RetryBaseDelay, RetryMaxDelay, x.item.attempts) \subseteq Nat
      OBVIOUS
    <3>2. /\ x.verdict \in {"published", "dead", "retry"}
          /\ x.verdict = "published" => outbox' = [outbox EXCEPT ![e] = Released(@, "PUBLISHED")]
          /\ x.verdict = "dead" => outbox' = [outbox EXCEPT ![e] = Released(@, "DEAD_LETTER")]
          /\ x.verdict = "retry" =>
                \E delay \in 0..RetryCap(RetryBaseDelay, RetryMaxDelay, x.item.attempts) :
                   outbox' = [outbox EXCEPT ![e] =
                       [Released(@, "PENDING") EXCEPT !.dueAt = Now(w) + delay]]
      <4> HIDE DEF y
      <4> QED BY <2>1, Zenon DEF Settle
    <3> QED BY <3>1, <3>2
  <2>6. CASE /\ x.verdict = "retry"
             /\ \E delay \in Nat :
                  outbox' = [outbox EXCEPT ![e] =
                                [Released(outbox[e], "PENDING") EXCEPT !.dueAt = Now(w) + delay]]
    <3>1. PICK delay \in Nat :
              outbox' = [outbox EXCEPT ![e] =
                            [Released(outbox[e], "PENDING") EXCEPT !.dueAt = Now(w) + delay]]
      BY <2>6
    <3>2. Now(w) + delay \in Nat /\ Now(w) <= Now(w) + delay
      BY <2>2
    <3> QED BY <2>4, <2>6, <3>1, <3>2
  <2> QED BY <2>3, <2>5, <2>6
<1> QED BY <1>6, <1>8

-----------------------------------------------------------------------------
(* Claims *)

\* What is due by a worker's clock is over for everybody who held it.
LEMMA DueIsOver ==
    ASSUME Inv, NEW w \in Workers, NEW e \in Events, Due(worker[w].asOf, e)
    PROVE  /\ outbox[e].occurredAt <= worker[w].asOf
           /\ \A u \in Workers : \A d \in Held(worker[u]) :
                  d.event = e => Expiry(worker[u]) <= worker[w].asOf
<1> DEFINE row == outbox[e]
<1>1. TypeOK /\ ClaimsKnown /\ worker[w] \in WorkerState
  BY DEF Inv, TypeOK
<1>2. worker[w].asOf \in Nat
  BY <1>1, WorkerTypes
<1>3. /\ row.lease \in Nat /\ row.dueAt \in Nat /\ row.occurredAt \in Nat
      /\ row.attempts \in Nat /\ RowSound(row)
  BY <1>1, RowTypes, Config DEF ClaimsKnown
<1>4. \/ row.state = "PENDING" /\ row.dueAt <= worker[w].asOf
      \/ row.state = "PROCESSING" /\ row.lease <= worker[w].asOf
  BY DEF Due
<1>5. row.occurredAt <= worker[w].asOf
  BY <1>2, <1>3, <1>4 DEF RowSound
<1>6. ASSUME NEW u \in Workers, NEW d \in Held(worker[u]), d.event = e
      PROVE  Expiry(worker[u]) <= worker[w].asOf
  <2>1. worker[u] \in WorkerState /\ Knows(worker[u], d, row)
    BY <1>1, <1>6 DEF ClaimsKnown, TypeOK
  <2>2. d.attempts \in Nat /\ Expiry(worker[u]) \in Nat
    BY <1>6, <2>1, WorkerTypes, Config DEF Expiry
  <2>3. \/ row.state = "PENDING" /\ Expiry(worker[u]) <= row.dueAt
        \/ row.state = "PROCESSING" /\ Expiry(worker[u]) <= row.lease
    BY <1>3, <1>4, <2>1, <2>2 DEF Knows
  <2> QED BY <1>2, <1>3, <1>4, <2>2, <2>3
<1> QED BY <1>5, <1>6

\* The worker becomes y: it holds the rows of `taken`, under the token k.
Takes(w, taken, k, y) ==
    /\ worker[w].pc = "claiming" /\ worker' = [worker EXCEPT ![w] = y]
    /\ k \in Nat /\ issued <= k /\ issued' = k
    /\ taken # {} => issued < k
    /\ taken \subseteq Events
    /\ \A e \in taken : Due(worker[w].asOf, e)
    /\ \A e \in taken : /\ outbox'[e].state = "PROCESSING"
                        /\ outbox'[e].attempts = outbox[e].attempts + 1
                        /\ outbox'[e].token = k
                        /\ outbox'[e].lease = Expiry(worker[w])
                        /\ outbox'[e].occurredAt = outbox[e].occurredAt
    /\ \A e \in Events \ taken : outbox'[e] = outbox[e]
    /\ outbox' \in [Events -> Row]
    /\ y \in WorkerState /\ y.pc = "delivering" /\ y.asOf = worker[w].asOf
    /\ y.item = NoItem /\ y.token = IF taken = {} THEN NoToken ELSE k
    /\ \A c \in y.batch : c.event \in taken /\ c.attempts = outbox[c.event].attempts + 1
    /\ UNCHANGED <<calls, applied, invoked, clock, disruptions>>

LEMMA TakeInv ==
    ASSUME Inv, NEW w \in Workers, NEW taken, NEW k, NEW y, Takes(w, taken, k, y)
    PROVE  Inv'
<1> DEFINE x == worker[w]
           b == y.batch
<1>1. /\ TypeOK /\ ClaimsKnown /\ x \in WorkerState /\ Sane(x, Now(w), issued)
      /\ x.batch = {} /\ x.item = NoItem /\ x.asOf \in Nat
  <2>1. TypeOK /\ ClaimsKnown /\ x \in WorkerState /\ x.pc = "claiming"
    BY DEF Inv, TypeOK, Takes
  <2>2. Sane(x, Now(w), issued) /\ x.asOf \in Nat
    BY <2>1, WorkerTypes DEF ClaimsKnown
  <2> QED BY <2>1, <2>2 DEF Sane
<1>2. /\ issued \in Nat /\ k \in Nat /\ issued <= k /\ issued' = k
      /\ taken # {} => issued < k
  BY <1>1 DEF TypeOK, Takes
<1>3. ASSUME NEW e \in taken
      PROVE  /\ outbox'[e].state = "PROCESSING"
             /\ outbox'[e].attempts = outbox[e].attempts + 1 /\ outbox[e].attempts \in Nat
             /\ outbox'[e].token = k /\ outbox'[e].lease = Expiry(x)
             /\ outbox'[e].occurredAt = outbox[e].occurredAt
             /\ Expiry(x) \in Nat \ {0} /\ x.asOf <= Expiry(x)
             /\ e \in Events /\ Due(x.asOf, e)
  <2>1. e \in Events
    BY <1>3 DEF Takes
  <2>2. outbox[e].attempts \in Nat
    BY <1>1, <2>1, RowTypes, Config
  <2>3. Expiry(x) \in Nat \ {0} /\ x.asOf <= Expiry(x)
    BY <1>1, Config DEF Expiry
  <2> QED BY <1>3, <2>1, <2>2, <2>3 DEF Takes
<1>4. /\ taken \subseteq Events /\ \A e \in Events \ taken : outbox'[e] = outbox[e]
      /\ UNCHANGED <<calls, applied, invoked, clock, disruptions>>
  BY DEF Takes
<1>5. NoItem \notin b
  BY NoItemIsNoClaim, WorkerTypes DEF Takes
<1>6. ASSUME NEW c \in b
      PROVE  /\ c.event \in taken /\ c.event \in Events /\ c.attempts = outbox'[c.event].attempts
             /\ c.attempts = outbox[c.event].attempts + 1 /\ c.attempts \in Nat
  <2>1. c.event \in taken /\ c.attempts = outbox[c.event].attempts + 1
    BY <1>6 DEF Takes
  <2>2. outbox'[c.event].attempts = outbox[c.event].attempts + 1
        /\ outbox[c.event].attempts \in Nat /\ c.event \in Events
    BY <1>3, <2>1
  <2>3. outbox[c.event].attempts + 1 \in Nat
    BY <2>2
  <2> QED BY <2>1, <2>2, <2>3
<1>7. /\ y \in WorkerState /\ y.pc = "delivering" /\ y.asOf = x.asOf /\ y.item = NoItem
      /\ y.token = (IF taken = {} THEN NoToken ELSE k)
      /\ y.token # NoToken \/ taken = {}
  <2>1. /\ y \in WorkerState /\ y.pc = "delivering" /\ y.asOf = x.asOf /\ y.item = NoItem
        /\ y.token = (IF taken = {} THEN NoToken ELSE k)
    BY DEF Takes
  <2> QED BY <1>2, <2>1 DEF NoToken
<1>8. worker' = [worker EXCEPT ![w] = y]
  BY DEF Takes
<1>9. worker'[w] = y /\ \A u \in Workers \ {w} : worker'[u] = worker[u]
  BY <1>1, <1>8 DEF TypeOK
<1>10. Held(y) = b /\ Expiry(y) = Expiry(x)
  BY <1>7 DEF Held, Expiry
<1>11. Sane(y, Now(w), k)
  <2>1. y.token <= k
    BY <1>2, <1>7 DEF NoToken
  <2>2. b # {} => y.token # NoToken
    BY <1>6, <1>7
  <2> QED BY <1>1, <1>5, <1>7, <1>10, <2>1, <2>2 DEF Sane
<1>12. \A u \in Workers : Sane(worker'[u], Now(u)', issued')
  <2>1. ASSUME NEW u \in Workers PROVE Sane(worker[u], Now(u), k)
    <3>1. Sane(worker[u], Now(u), issued) /\ worker[u] \in WorkerState
      BY <1>1 DEF ClaimsKnown, TypeOK
    <3>2. worker[u].token <= k
      BY <1>2, <3>1, WorkerTypes DEF Sane
    <3> QED BY <3>1, <3>2 DEF Sane
  <2> QED BY <1>2, <1>4, <1>9, <1>11, <2>1 DEF Now
<1>13. ASSUME NEW c \in b PROVE Knows(y, c, outbox'[c.event])
  <2>1. outbox[c.event].occurredAt <= x.asOf
    BY <1>3, <1>6, <1>13, DueIsOver
  <2>2. y.token = k
    BY <1>6, <1>7, <1>13
  <2>3. c.attempts = outbox'[c.event].attempts /\ c.attempts \in Nat
    BY <1>6, <1>13
  <2> QED BY <1>3, <1>6, <1>7, <1>10, <1>13, <2>1, <2>2, <2>3 DEF Knows
<1>14. ASSUME NEW u \in Workers \ {w}, NEW d \in Held(worker[u]), d.event \in taken
       PROVE  /\ d.attempts \in Nat /\ d.attempts <= outbox[d.event].attempts
              /\ Expiry(worker[u]) \in Nat /\ Expiry(worker[u]) <= x.asOf
              /\ worker[u].token # k
              /\ outbox[d.event].occurredAt <= worker[u].asOf
  <2>1. worker[u] \in WorkerState /\ Knows(worker[u], d, outbox[d.event])
        /\ Sane(worker[u], Now(u), issued)
    BY <1>1, <1>14 DEF ClaimsKnown, TypeOK
  <2>2. d.attempts \in Nat /\ worker[u].asOf \in Nat /\ worker[u].token \in Nat
    BY <1>14, <2>1, WorkerTypes, Config
  <2>3. Expiry(worker[u]) <= x.asOf
    BY <1>3, <1>14, DueIsOver
  <2>4. worker[u].token <= issued /\ issued < k
    BY <1>2, <1>14, <2>1 DEF Sane
  <2>5. worker[u].token # k
    BY <1>2, <2>2, <2>4
  <2> QED BY <2>1, <2>2, <2>3, <2>5, Config DEF Knows, Expiry
<1>15. ASSUME NEW u \in Workers \ {w}, NEW d \in Held(worker[u])
       PROVE  Knows(worker[u], d, outbox'[d.event])
  <2>1. worker[u] \in WorkerState /\ d.event \in Events /\ Knows(worker[u], d, outbox[d.event])
    BY <1>1, <1>15, WorkerTypes DEF ClaimsKnown, TypeOK
  <2>2. CASE d.event \notin taken
    BY <1>4, <2>1, <2>2
  <2>3. CASE d.event \in taken
    <3>1. d.attempts < outbox'[d.event].attempts /\ d.attempts \in Nat
      BY <1>3, <1>14, <1>15, <2>3
    <3>2. Expiry(worker[u]) <= outbox'[d.event].lease
      BY <1>1, <1>3, <1>14, <1>15, <2>3
    <3> QED BY <1>3, <1>14, <1>15, <2>3, <3>1, <3>2 DEF Knows
  <2> QED BY <2>2, <2>3
<1>16. \A u \in Workers : \A d \in Held(worker'[u]) : Knows(worker'[u], d, outbox'[d.event])
  BY <1>9, <1>10, <1>13, <1>15
<1>17. \A u \in Workers \ {w} : Apart(worker[u], y) /\ Apart(y, worker[u])
  <2>1. ASSUME NEW u \in Workers \ {w}, NEW d \in Held(worker[u]), NEW c \in b, c.event = d.event
        PROVE  d.attempts # c.attempts /\ ~(c.attempts < d.attempts) /\ Expiry(worker[u]) <= y.asOf
    <3>1. d.event \in taken /\ c.attempts = outbox[d.event].attempts + 1
          /\ outbox[d.event].attempts \in Nat
      BY <1>3, <1>6, <2>1
    <3>2. d.attempts \in Nat /\ d.attempts <= outbox[d.event].attempts
          /\ Expiry(worker[u]) <= x.asOf
      BY <1>14, <2>1, <3>1
    <3> QED BY <1>7, <3>1, <3>2
  <2> QED BY <1>10, <2>1 DEF Apart
<1>18. \A u, v \in Workers : u # v => Apart(worker'[u], worker'[v])
  BY <1>1, <1>9, <1>17 DEF ClaimsKnown
<1>19. ASSUME NEW e \in Events PROVE RowSound(outbox'[e])
  <2>1. CASE e \notin taken
    BY <1>1, <1>4, <1>19, <2>1 DEF ClaimsKnown
  <2>2. CASE e \in taken
    <3>1. outbox[e].occurredAt <= x.asOf /\ outbox[e].occurredAt \in Nat
      BY <1>1, <1>3, <1>19, <2>2, DueIsOver, RowTypes
    <3>2. outbox'[e].occurredAt <= outbox'[e].lease
      BY <1>1, <1>3, <2>2, <3>1
    <3> QED BY <1>3, <2>2, <3>2 DEF RowSound
  <2> QED BY <2>1, <2>2
<1>20. ClaimsKnown'
  BY <1>12, <1>16, <1>18, <1>19 DEF ClaimsKnown
<1>21. TypeOK'
  <2>1. outbox' \in [Events -> Row]
    BY DEF Takes
  <2>2. ASSUME NEW e \in Events PROVE Consistent(outbox'[e], issued')
    <3>1. CASE e \in taken
      BY <1>2, <1>3, <3>1 DEF Consistent, NoToken
    <3>2. CASE e \notin taken
      <4>1. Consistent(outbox[e], issued) /\ outbox[e].token \in Nat
        BY <1>1, <2>2, RowTypes DEF TypeOK, Consistent
      <4> QED BY <1>2, <1>4, <2>2, <3>2, <4>1 DEF Consistent
    <3> QED BY <3>1, <3>2
  <2>3. calls' \subseteq Events \X (1..issued')
    <3>1. 1..issued \subseteq 1..k
      BY <1>2
    <3>2. calls \subseteq Events \X (1..issued)
      BY <1>1 DEF TypeOK
    <3> QED BY <1>2, <1>4, <3>1, <3>2
  <2>4. worker' \in [Workers -> WorkerState]
    BY <1>1, <1>7, <1>8 DEF TypeOK
  <2> QED BY <1>1, <1>2, <1>4, <2>1, <2>2, <2>3, <2>4 DEF TypeOK, Consistent
<1>22. ASSUME NEW e \in Events, NEW n \in Used(e) PROVE n \in Used(e)'
  <2>1. n \in 1..MaxDeliveryInvocations /\ n \in Nat /\ n <= outbox[e].attempts /\ n \notin Waiting(e)
        /\ outbox[e].attempts \in Nat
    BY <1>1, <1>22, RowTypes, Config DEF Used
  <2>2. n <= outbox'[e].attempts
    BY <1>3, <1>4, <1>22, <2>1
  <2>3. ASSUME NEW u \in Workers, [event |-> e, attempts |-> n] \in worker'[u].batch PROVE FALSE
    <3>1. CASE u = w
      <4>1. [event |-> e, attempts |-> n] \in b
        BY <1>9, <2>3, <3>1
      <4>2. n = outbox[e].attempts + 1
        BY <1>6, <4>1
      <4> QED BY <2>1, <4>2
    <3>2. CASE u # w
      BY <1>9, <2>1, <2>3, <3>2 DEF Waiting
    <3> QED BY <3>1, <3>2
  <2> QED BY <2>1, <2>2, <2>3 DEF Used, Waiting
<1>23. \A e \in Events : invoked'[e] <= Cardinality(Used(e)')
  BY <1>4, <1>22, MoreUsed
<1> QED BY <1>20, <1>21, <1>23 DEF Inv

LEMMA ClaimDueInv == ASSUME Inv, NEW w \in Workers, ClaimDue(w) PROVE Inv'
<1>1. PICK locked \in SUBSET (LockedElsewhere(w) \intersect Candidates(worker[w].asOf)) :
          LET taken == FirstOf(Candidates(worker[w].asOf) \ locked)
          IN  IF \E e \in taken : outbox[e].attempts = MaxAttemptCount
              THEN /\ worker' = [worker EXCEPT ![w] = Stopped]
                   /\ UNCHANGED <<outbox, issued>>
              ELSE /\ issued' = IF taken = {} THEN issued ELSE issued + 1
                   /\ outbox' = [e \in Events |->
                          IF e \in taken
                          THEN [outbox[e] EXCEPT !.state = "PROCESSING", !.attempts = @ + 1,
                                                 !.token = issued', !.lease = Lease(w)]
                          ELSE outbox[e]]
                   /\ worker' = [worker EXCEPT
                          ![w].pc = "delivering",
                          ![w].token = IF taken = {} THEN NoToken ELSE issued',
                          ![w].batch = {[event |-> e, attempts |-> outbox'[e].attempts]
                                          : e \in taken}]
  BY DEF ClaimDue
<1> DEFINE taken == FirstOf(Candidates(worker[w].asOf) \ locked)
<1>2. worker[w].pc = "claiming" /\ UNCHANGED <<calls, applied, invoked, clock, disruptions>>
  BY DEF ClaimDue
<1>3. taken \in SUBSET Events /\ \A e \in taken : Due(worker[w].asOf, e)
  BY DEF FirstOf, Candidates
<1> HIDE DEF taken
<1>4. CASE \E e \in taken : outbox[e].attempts = MaxAttemptCount
  <2>1. worker' = [worker EXCEPT ![w] = Stopped] /\ UNCHANGED <<outbox, issued>>
    BY <1>1, <1>4 DEF taken
  <2>2. disruptions' \in 0..MaxDisruptions
    BY <1>2 DEF Inv, TypeOK
  <2> QED BY <1>2, <2>1, <2>2, StopInv
<1>5. CASE ~ \E e \in taken : outbox[e].attempts = MaxAttemptCount
  <2>1. /\ issued' = IF taken = {} THEN issued ELSE issued + 1
        /\ outbox' = [e \in Events |->
               IF e \in taken
               THEN [outbox[e] EXCEPT !.state = "PROCESSING", !.attempts = @ + 1,
                                      !.token = issued', !.lease = Lease(w)]
               ELSE outbox[e]]
        /\ worker' = [worker EXCEPT
               ![w].pc = "delivering",
               ![w].token = IF taken = {} THEN NoToken ELSE issued',
               ![w].batch = {[event |-> e, attempts |-> outbox'[e].attempts] : e \in taken}]
    BY <1>1, <1>5 DEF taken
  <2> DEFINE x == worker[w]
             k == issued'
             b == {[event |-> e, attempts |-> outbox'[e].attempts] : e \in taken}
             y == [x EXCEPT !.pc = "delivering",
                            !.token = IF taken = {} THEN NoToken ELSE k, !.batch = b]
  <2>2. TypeOK /\ x \in WorkerState /\ Sane(x, Now(w), issued) /\ x.asOf \in Nat
    BY WorkerTypes DEF Inv, TypeOK, ClaimsKnown
  <2>3. issued \in Nat /\ k \in Nat /\ issued <= k /\ (taken # {} => issued < k)
    <3>1. issued \in Nat
      BY <2>2 DEF TypeOK
    <3>2. k = IF taken = {} THEN issued ELSE issued + 1
      BY <2>1
    <3> HIDE DEF k
    <3> QED BY <3>1, <3>2
  <2>4. worker' = [worker EXCEPT ![w] = y]
    BY <2>1, <2>2 DEF TypeOK
  <2>5. \A e \in Events \ taken : outbox'[e] = outbox[e]
    BY <2>1
  <2> HIDE DEF k
  <2>6. ASSUME NEW e \in taken
        PROVE  /\ outbox'[e] \in Row /\ outbox'[e].state = "PROCESSING"
               /\ outbox'[e].attempts = outbox[e].attempts + 1
               /\ outbox'[e].attempts \in 1..MaxAttemptCount
               /\ outbox'[e].token = k /\ outbox'[e].lease = Expiry(x)
               /\ outbox'[e].occurredAt = outbox[e].occurredAt /\ e \in Events
    <3>1. e \in Events /\ outbox[e].attempts # MaxAttemptCount
      BY <1>3, <1>5
    <3>2. outbox[e] \in Row /\ outbox[e].attempts \in 0..MaxAttemptCount
      BY <2>2, <3>1, RowTypes
    <3>3. outbox[e].attempts + 1 \in 1..MaxAttemptCount
          /\ outbox[e].attempts + 1 \in 0..MaxAttemptCount
      BY <3>1, <3>2, Config
    <3>4. Lease(w) = Expiry(x)
      BY DEF Lease, Expiry
    <3>5. Expiry(x) \in Nat
      BY <2>2, Config DEF Expiry
    <3>6. outbox'[e] = [outbox[e] EXCEPT !.state = "PROCESSING", !.attempts = @ + 1,
                                         !.token = k, !.lease = Expiry(x)]
      BY <2>1, <3>1, <3>4 DEF k
    <3> DEFINE new == outbox'[e]
    <3>7. new = [outbox[e] EXCEPT !.state = "PROCESSING", !.attempts = @ + 1,
                                  !.token = k, !.lease = Expiry(x)]
      BY <3>6
    <3> HIDE DEF new
    <3>8. /\ new \in Row /\ new.state = "PROCESSING" /\ new.attempts = outbox[e].attempts + 1
          /\ new.token = k /\ new.lease = Expiry(x) /\ new.occurredAt = outbox[e].occurredAt
      BY <2>3, <3>2, <3>3, <3>5, <3>7 DEF Row
    <3> QED BY <3>1, <3>3, <3>8 DEF new
  <2>7. outbox' \in [Events -> Row]
    <3>1. \A e \in Events : outbox'[e] \in Row
      BY <2>2, <2>5, <2>6 DEF TypeOK
    <3>2. outbox' = [e \in Events |-> outbox'[e]]
      BY <2>1
    <3> QED BY <3>1, <3>2
  <2>8. b \subseteq Claim
    BY <2>6 DEF Claim
  <2>9. \A c \in b : c.event \in taken /\ c.attempts = outbox[c.event].attempts + 1
    BY <2>6
  <2> HIDE DEF b
  <2>10. /\ y \in WorkerState /\ y.pc = "delivering" /\ y.asOf = x.asOf /\ y.item = x.item
         /\ y.batch = b /\ y.token = IF taken = {} THEN NoToken ELSE k
    BY <2>2, <2>3, <2>8 DEF WorkerState, NoToken
  <2> HIDE DEF y
  <2>11. y.item = NoItem
    BY <1>2, <2>2, <2>10 DEF Sane
  <2>12. Takes(w, taken, k, y)
    BY <1>2, <1>3, <2>3, <2>4, <2>5, <2>6, <2>7, <2>9, <2>10, <2>11 DEF Takes, k
  <2> QED BY <2>12, TakeInv
<1> QED BY <1>4, <1>5

-----------------------------------------------------------------------------
(* The theorems *)

LEMMA NextInv == ASSUME Inv, [Next]_vars PROVE Inv'
<1>1. ASSUME NEW s \in Streams, AppendEvent(s) PROVE Inv'
  BY <1>1, AppendInv
<1>2. ASSUME NEW w \in Workers, Run(w) PROVE Inv'
  <2>1. CASE BeginCycle(w) \/ FinishBatch(w)
    BY <2>1, CycleInv
  <2>2. CASE ClaimDue(w)
    BY <2>2, ClaimDueInv
  <2>3. CASE SkipExpired(w) \/ PutAway(w)
    BY <2>3, ItemInv
  <2>4. CASE StartPublish(w)
    BY <2>4, StartPublishInv
  <2>5. CASE PublishSucceeds(w) \/ PublishFails(w)
    BY <2>5, ReturnInv
  <2>6. CASE Settle(w)
    BY <2>6, SettleInv
  <2>7. CASE Stop(w)
    BY <2>7, ProcessInv
  <2> QED BY <1>2, <2>1, <2>2, <2>3, <2>4, <2>5, <2>6, <2>7 DEF Run
<1>3. ASSUME NEW w \in Workers, Shutdown(w) \/ Crash(w) PROVE Inv'
  BY <1>3, ProcessInv
<1>4. ASSUME NEW w \in Workers, Restart(w) PROVE Inv'
  BY <1>4, CycleInv
<1>5. ASSUME NEW call \in calls, Receive(call) PROVE Inv'
  BY <1>5, ReceiveInv
<1>6. CASE Tick
  BY <1>6, TickInv
<1>7. CASE UNCHANGED vars
  BY <1>7, StutterInv
<1> QED BY <1>1, <1>2, <1>3, <1>4, <1>5, <1>6, <1>7 DEF Next

LEMMA InvHolds == Spec => []Inv
<1> QED BY InitInv, NextInv, PTL DEF Spec

\* Whatever crashes, lapsed leases, late acknowledgements and clocks there are,
\* the publisher is called at most MaxDeliveryInvocations times for an event,
\* and an event that used up its invocations is never made deliverable again
\* (ClaimDue, deliver and the three settling statements).
THEOREM DeliveryClaimsBounded == Spec => []ClaimsBounded
<1>1. ASSUME Inv PROVE ClaimsBounded
  <2>1. ASSUME NEW e \in Events PROVE invoked[e] <= MaxDeliveryInvocations
    <3>1. invoked[e] \in Nat /\ invoked[e] <= Cardinality(Used(e))
      BY <1>1 DEF Inv, TypeOK
    <3>2. Cardinality(Used(e)) \in Nat /\ Cardinality(Used(e)) <= MaxDeliveryInvocations
      BY UsedTypes
    <3> QED BY <3>1, <3>2, Config
  <2>2. RecoveryNeverRetries
    BY <1>1 DEF Inv, ClaimsKnown, RowSound, RecoveryNeverRetries
  <2> QED BY <1>1, <2>1, <2>2 DEF ClaimsBounded, InvocationBound, Inv
<1> QED BY <1>1, InvHolds, PTL

LEMMA SkewDifference ==
    ASSUME NEW u \in Workers, NEW v \in Workers
    PROVE  MaxSkewDifference \in Int /\ Skew[u] - Skew[v] <= MaxSkewDifference
<1> DEFINE D == {Skew[x] - Skew[y] : x, y \in Workers}
<1>1. \E d \in D : \A c \in D : c <= d
  <2>1. PICK x \in Workers, y \in Workers :
            \A p, q \in Workers : Skew[p] - Skew[q] <= Skew[x] - Skew[y]
    BY BoundAssumption
  <2> QED BY <2>1
<1>2. MaxSkewDifference \in D /\ \A c \in D : c <= MaxSkewDifference
  BY <1>1 DEF MaxSkewDifference
<1>3. D \subseteq Int
  BY Config
<1> QED BY <1>2, <1>3

\* Two publisher calls for one event overlap only after the lease of one of
\* them, by the largest difference of two clocks: claims of an event follow
\* each other, and the later one starts when the earlier one has expired on the
\* later worker's clock (ClaimDue).
THEOREM DeliveryOneLive == Spec => []OneLiveDelivery
<1>1. ASSUME Inv, NEW u \in Workers, NEW v \in Workers, u # v,
             worker[u].pc = "publishing", worker[v].pc = "publishing",
             worker[u].item.event = worker[v].item.event
      PROVE  \/ Now(u) + MaxSkewDifference >= Lease(u)
             \/ Now(v) + MaxSkewDifference >= Lease(v)
  <2>1. ASSUME NEW x \in Workers, worker[x].pc = "publishing"
        PROVE  /\ worker[x].item \in Held(worker[x]) /\ worker[x].item.attempts \in Nat
               /\ worker[x].asOf \in Nat /\ worker[x].asOf <= Now(x)
    <3>1. worker[x] \in WorkerState /\ Sane(worker[x], Now(x), issued)
      BY <1>1 DEF Inv, TypeOK, ClaimsKnown
    <3>2. worker[x].item \in Held(worker[x]) /\ worker[x].asOf <= Now(x)
      BY <2>1, <3>1 DEF Sane, Held
    <3> QED BY <3>1, <3>2, WorkerTypes, Config
  <2>2. ASSUME NEW x \in Workers, NEW y \in Workers, Expiry(worker[x]) <= worker[y].asOf,
               worker[x].pc = "publishing", worker[y].pc = "publishing"
        PROVE  Now(x) + MaxSkewDifference >= Lease(x)
    <3>1. MaxSkewDifference \in Int /\ Skew[y] - Skew[x] <= MaxSkewDifference
      BY SkewDifference
    <3>2. clock \in Nat /\ Skew[x] \in Nat /\ Skew[y] \in Nat
      BY <1>1, Config DEF Inv, TypeOK
    <3>3. Now(x) = clock + Skew[x] /\ Now(y) = clock + Skew[y]
      BY DEF Now
    <3>4. Lease(x) = Expiry(worker[x]) /\ Lease(x) \in Nat
      BY <2>1, <2>2, Config DEF Lease, Expiry
    <3> QED BY <2>1, <2>2, <3>1, <3>2, <3>3, <3>4
  <2>3. \/ Expiry(worker[u]) <= worker[v].asOf
        \/ Expiry(worker[v]) <= worker[u].asOf
    <3>1. Apart(worker[u], worker[v]) /\ Apart(worker[v], worker[u])
      BY <1>1 DEF Inv, ClaimsKnown
    <3>2. \/ worker[u].item.attempts < worker[v].item.attempts
          \/ worker[v].item.attempts < worker[u].item.attempts
      BY <1>1, <2>1, <3>1 DEF Apart
    <3> QED BY <1>1, <2>1, <3>1, <3>2 DEF Apart
  <2> QED BY <1>1, <2>2, <2>3
<1>2. Inv => OneLiveDelivery
  BY <1>1 DEF OneLiveDelivery
<1> QED BY <1>2, InvHolds, PTL

\* A successful delivery is stamped at or after the event was recorded, however
\* far the producer's clock is ahead: the event was due by the worker's clock
\* when it was claimed (ClaimDue, MarkPublished).
THEOREM DeliveryStampAccepted == Spec => []PublishStampAccepted
<1>1. ASSUME Inv, NEW w \in Workers, worker[w].pc = "settling"
      PROVE  Now(w) >= outbox[worker[w].item.event].occurredAt
  <2> DEFINE x == worker[w]
  <2>1. TypeOK /\ x \in WorkerState /\ Sane(x, Now(w), issued)
    BY <1>1 DEF Inv, TypeOK, ClaimsKnown
  <2>2. x.item \in Held(x)
    BY <1>1, <2>1 DEF Sane, Held
  <2>3. outbox[x.item.event].occurredAt <= x.asOf
    BY <1>1, <2>2 DEF Inv, ClaimsKnown, Knows
  <2>4. x.item.event \in Events /\ x.asOf \in Nat
    BY <2>1, <2>2, WorkerTypes
  <2>5. outbox[x.item.event].occurredAt \in Nat
    BY <2>1, <2>4, RowTypes
  <2>6. Now(w) \in Nat /\ x.asOf <= Now(w)
    BY <2>1, Config DEF Now, TypeOK, Sane
  <2> QED BY <2>3, <2>4, <2>5, <2>6
<1>2. Inv => PublishStampAccepted
  BY <1>1 DEF PublishStampAccepted
<1> QED BY <1>2, InvHolds, PTL

-----------------------------------------------------------------------------
(* The order of a stream *)

Started(e) == outbox[e].attempts > 0

\* The receiver has the effect of e, when it has applied ap.
Effective(e, ap) == e[2] \in 1..Len(ap[e[1]])

\* An event is claimed only after the one before it was published.
RowsInOrder ==
    \A e \in Events :
        /\ Started(e) => Unblocked(e)
        /\ outbox[e].state \in {"PROCESSING", "PUBLISHED", "DEAD_LETTER"} => Started(e)
        /\ outbox[e].state # "ABSENT" => \A f \in Predecessors(e) : outbox[f].state # "ABSENT"

\* A publisher call that is not under way any more had its effect.
InTouch(x, under, ap) ==
    /\ x.pc = "publishing" =>
           <<x.item.event, x.token>> \in under \/ Effective(x.item.event, ap)
    /\ x.pc = "settling" /\ x.verdict = "published" => Effective(x.item.event, ap)

EffectsInOrder ==
    /\ \A e \in Events : outbox[e].state = "PUBLISHED" => Effective(e, applied)
    /\ \A s \in Streams : \A n \in 1..Len(applied[s]) : applied[s][n] = n /\ Started(<<s, n>>)

InOrder ==
    /\ RowsInOrder
    /\ \A call \in calls : Started(call[1])
    /\ \A w \in Workers : InTouch(worker[w], calls, applied)
    /\ EffectsInOrder

-----------------------------------------------------------------------------
(* Steps that apply nothing *)

RowAdvances(e) ==
    LET old == outbox[e]
        new == outbox'[e]
    IN  /\ old.attempts > 0 => new.attempts > 0
        /\ new.attempts > 0 => old.attempts > 0 \/ Unblocked(e)
        /\ new.state \in {"PROCESSING", "PUBLISHED", "DEAD_LETTER"} => new.attempts > 0
        /\ old.state = "PUBLISHED" => new.state = "PUBLISHED"
        /\ new.state = "PUBLISHED" => old.state = "PUBLISHED" \/ Effective(e, applied)
        /\ old.state # "ABSENT" => new.state # "ABSENT"
        /\ old.state = "ABSENT" /\ new.state # "ABSENT" =>
               \A f \in Predecessors(e) : outbox[f].state # "ABSENT"

LEMMA SameRow ==
    ASSUME InOrder, NEW e \in Events, outbox'[e] = outbox[e]
    PROVE  RowAdvances(e)
BY DEF InOrder, RowsInOrder, RowAdvances, Started

LEMMA OrderStep ==
    ASSUME InOrder, UNCHANGED applied, \A e \in Events : RowAdvances(e),
           calls \subseteq Events \X (1..issued),
           calls \subseteq calls', \A call \in calls' \ calls : Started(call[1])',
           applied \in [Streams -> Seq(1..MaxPosition)],
           \A u \in Workers : worker'[u] = worker[u] \/ InTouch(worker'[u], calls', applied)
    PROVE  InOrder'
<1>1. \A e \in Events : Predecessors(e) \subseteq Events
  BY DEF Predecessors
<1>2. RowsInOrder'
  <2>1. ASSUME NEW e \in Events, Unblocked(e)
        PROVE  \A f \in Predecessors(e) : outbox'[f].state = "PUBLISHED"
    BY <1>1, <2>1 DEF RowAdvances, Unblocked
  <2>2. ASSUME NEW e \in Events, outbox'[e].attempts > 0
        PROVE  \A f \in Predecessors(e) : outbox'[f].state = "PUBLISHED"
    BY <2>1, <2>2 DEF InOrder, RowsInOrder, RowAdvances, Started
  <2>3. ASSUME NEW e \in Events, outbox'[e].state # "ABSENT"
        PROVE  \A f \in Predecessors(e) : outbox'[f].state # "ABSENT"
    BY <1>1, <2>3 DEF InOrder, RowsInOrder, RowAdvances
  <2>4. ASSUME NEW e \in Events, outbox'[e].state \in {"PROCESSING", "PUBLISHED", "DEAD_LETTER"}
        PROVE  outbox'[e].attempts > 0
    BY <2>4 DEF RowAdvances
  <2> QED BY <2>2, <2>3, <2>4 DEF RowsInOrder, Started, Unblocked
<1>3. ASSUME NEW call \in calls' PROVE Started(call[1])'
  <2>1. CASE call \in calls
    <3>1. call[1] \in Events /\ Started(call[1])
      BY <2>1 DEF InOrder
    <3> QED BY <3>1 DEF RowAdvances, Started
  <2> QED BY <1>3, <2>1
<1>4. ASSUME NEW u \in Workers PROVE InTouch(worker'[u], calls', applied')
  <2>1. InTouch(worker[u], calls', applied)
    BY DEF InOrder, InTouch
  <2> QED BY <2>1
<1>5. EffectsInOrder'
  <2>1. \A e \in Events : outbox'[e].state = "PUBLISHED" => Effective(e, applied)
    BY DEF InOrder, EffectsInOrder, RowAdvances
  <2>2. ASSUME NEW s \in Streams, NEW n \in 1..Len(applied[s])
        PROVE  applied[s][n] = n /\ outbox'[<<s, n>>].attempts > 0
    <3>1. applied[s][n] = n /\ outbox[<<s, n>>].attempts > 0
      BY DEF InOrder, EffectsInOrder, Started
    <3>2. applied[s][n] \in 1..MaxPosition
      <4> DEFINE S == 1..MaxPosition
      <4>1. applied[s] \in Seq(S)
        OBVIOUS
      <4> HIDE DEF S
      <4>2. applied[s][n] \in S
        BY <4>1
      <4> QED BY <4>2 DEF S
    <3>3. <<s, n>> \in Events
      BY <3>1, <3>2 DEF Events
    <3> QED BY <3>1, <3>3 DEF RowAdvances
  <2> QED BY <2>1, <2>2 DEF EffectsInOrder, Started
<1> QED BY <1>2, <1>3, <1>4, <1>5 DEF InOrder

\* A worker goes on, and no row changes.
LEMMA LoopInOrder ==
    ASSUME Inv, InOrder, NEW w \in Workers, NEW y \in WorkerState, worker' = [worker EXCEPT ![w] = y],
           InTouch(y, calls, applied), UNCHANGED <<outbox, calls, applied>>
    PROVE  InOrder'
<1>1. \A e \in Events : RowAdvances(e)
  BY SameRow
<1>2. calls \subseteq Events \X (1..issued) /\ applied \in [Streams -> Seq(1..MaxPosition)]
      /\ worker \in [Workers -> WorkerState]
  BY DEF Inv, TypeOK
<1>3. \A u \in Workers : worker'[u] = worker[u] \/ worker'[u] = y
  BY <1>2
<1>4. calls' = calls
  OBVIOUS
<1> QED BY <1>1, <1>2, <1>3, <1>4, OrderStep

LEMMA NowIsNat == ASSUME Inv, NEW w \in Workers PROVE Now(w) \in Nat
BY Config DEF Inv, TypeOK, Now

\* The worker comes to a point where it relies on nothing it was told.
LEMMA PlainStep ==
    ASSUME Inv, InOrder, NEW w \in Workers, NEW y \in WorkerState,
           worker' = [worker EXCEPT ![w] = y], UNCHANGED <<outbox, calls, applied>>,
           y.pc # "publishing", y.pc = "settling" => y.verdict # "published"
    PROVE  InOrder'
<1>1. InTouch(y, calls, applied)
  BY DEF InTouch
<1> QED BY <1>1, LoopInOrder

LEMMA LoopStepInOrder ==
    ASSUME Inv, InOrder, NEW w \in Workers,
           \/ BeginCycle(w) \/ FinishBatch(w) \/ SkipExpired(w) \/ PutAway(w)
           \/ Stop(w) \/ Crash(w) \/ Restart(w)
    PROVE  InOrder'
<1>1. worker \in [Workers -> WorkerState] /\ worker[w] \in WorkerState
  BY DEF Inv, TypeOK
<1>3. CASE BeginCycle(w)
  <2> DEFINE y == [worker[w] EXCEPT !.pc = "claiming", !.asOf = Now(w)]
  <2>1. worker' = [worker EXCEPT ![w] = y] /\ UNCHANGED <<outbox, calls, applied>>
    BY <1>1, <1>3 DEF BeginCycle
  <2>2. y \in WorkerState /\ y.pc = "claiming"
    BY <1>1, NowIsNat DEF WorkerState
  <2> HIDE DEF y
  <2> QED BY PlainStep, <2>1, <2>2
<1>4. CASE FinishBatch(w)
  <2> DEFINE y == [Idle EXCEPT !.cancelled = worker[w].cancelled]
  <2>1. worker' = [worker EXCEPT ![w] = y] /\ UNCHANGED <<outbox, calls, applied>>
    BY <1>1, <1>4 DEF FinishBatch
  <2>2. y \in WorkerState /\ y.pc = "waiting"
    BY <1>1 DEF Idle, WorkerState, NoToken
  <2> HIDE DEF y
  <2> QED BY PlainStep, <2>1, <2>2
<1>5. CASE SkipExpired(w)
  <2>1. PICK claim \in worker[w].batch :
            /\ worker[w].pc = "delivering"
            /\ worker' = [worker EXCEPT ![w].batch = @ \ {claim}]
            /\ UNCHANGED <<outbox, calls, applied>>
    BY <1>5 DEF SkipExpired, NextClaim
  <2> DEFINE y == [worker[w] EXCEPT !.batch = @ \ {claim}]
  <2>2. worker' = [worker EXCEPT ![w] = y]
    BY <1>1, <2>1
  <2>3. y \in WorkerState /\ y.pc = "delivering"
    BY <1>1, <2>1 DEF WorkerState
  <2> HIDE DEF y
  <2> QED BY PlainStep, <2>1, <2>2, <2>3
<1>6. CASE PutAway(w)
  <2>1. PICK claim \in worker[w].batch :
            /\ worker' = [worker EXCEPT ![w].pc = "settling", ![w].batch = @ \ {claim},
                                        ![w].item = claim, ![w].verdict = "dead"]
            /\ UNCHANGED <<outbox, calls, applied>>
    BY <1>6 DEF PutAway, NextClaim
  <2> DEFINE y == [worker[w] EXCEPT !.pc = "settling", !.batch = @ \ {claim},
                                    !.item = claim, !.verdict = "dead"]
  <2>2. worker' = [worker EXCEPT ![w] = y]
    BY <1>1, <2>1
  <2>3. y \in WorkerState /\ y.pc = "settling" /\ y.verdict = "dead"
    BY <1>1 DEF WorkerState
  <2> HIDE DEF y
  <2> QED BY PlainStep, <2>1, <2>2, <2>3
<1>7. CASE Stop(w) \/ Crash(w)
  <2>1. worker' = [worker EXCEPT ![w] = Stopped] /\ UNCHANGED <<outbox, calls, applied>>
    BY <1>7 DEF Stop, Crash
  <2>2. Stopped \in WorkerState /\ Stopped.pc = "stopped"
    BY DEF Stopped, Idle, WorkerState, NoToken
  <2> QED BY PlainStep, <2>1, <2>2
<1>8. CASE Restart(w)
  <2>1. worker' = [worker EXCEPT ![w] = Idle] /\ UNCHANGED <<outbox, calls, applied>>
    BY <1>8 DEF Restart
  <2>2. Idle \in WorkerState /\ Idle.pc = "waiting"
    BY DEF Idle, WorkerState, NoToken
  <2> QED BY PlainStep, <2>1, <2>2
<1> QED BY <1>3, <1>4, <1>5, <1>6, <1>7, <1>8

LEMMA ShutdownInOrder == ASSUME Inv, InOrder, NEW w \in Workers, Shutdown(w) PROVE InOrder'
<1> DEFINE y == [worker[w] EXCEPT !.cancelled = TRUE]
<1>1. worker \in [Workers -> WorkerState] /\ worker[w] \in WorkerState
  BY DEF Inv, TypeOK
<1>2. worker' = [worker EXCEPT ![w] = y] /\ UNCHANGED <<outbox, calls, applied>>
  BY <1>1 DEF Shutdown
<1>3. y \in WorkerState /\ y.pc = worker[w].pc /\ y.item = worker[w].item /\ y.token = worker[w].token
      /\ y.verdict = worker[w].verdict
  BY <1>1 DEF WorkerState
<1> HIDE DEF y
<1>4. InTouch(y, calls, applied)
  BY <1>3 DEF InOrder, InTouch
<1> QED BY <1>2, <1>3, <1>4, LoopInOrder

\* The publisher returns nil only after the receiver has the event, and a
\* failure says nothing about the receiver.
LEMMA ReturnInOrder ==
    ASSUME Inv, InOrder, NEW w \in Workers, PublishSucceeds(w) \/ PublishFails(w)
    PROVE  InOrder'
<1>1. worker \in [Workers -> WorkerState] /\ worker[w] \in WorkerState
      /\ worker[w].pc = "publishing" /\ UNCHANGED <<outbox, calls, applied>>
  BY DEF Inv, TypeOK, PublishSucceeds, PublishFails
<1>2. CASE PublishSucceeds(w)
  <2> DEFINE y == [worker[w] EXCEPT !.pc = "settling", !.verdict = "published"]
  <2>1. worker' = [worker EXCEPT ![w] = y]
    BY <1>1, <1>2 DEF PublishSucceeds
  <2>2. y \in WorkerState /\ y.pc = "settling" /\ y.item = worker[w].item
    BY <1>1 DEF WorkerState
  <2> HIDE DEF y
  <2>3. Effective(worker[w].item.event, applied)
    BY <1>1, <1>2 DEF PublishSucceeds, InOrder, InTouch
  <2>4. InTouch(y, calls, applied)
    BY <2>2, <2>3 DEF InTouch
  <2> QED BY <1>1, <2>1, <2>2, <2>4, LoopInOrder
<1>3. CASE PublishFails(w)
  <2>2. CASE FailureVerdict(w) = "stop"
    <3>1. worker' = [worker EXCEPT ![w] = Stopped]
      BY <1>3, <2>2 DEF PublishFails
    <3>2. Stopped \in WorkerState /\ Stopped.pc = "stopped"
      BY DEF Stopped, Idle, WorkerState, NoToken
    <3> QED BY <1>1, PlainStep, <3>1, <3>2
  <2>3. CASE FailureVerdict(w) = "expired"
    <3> DEFINE y == [worker[w] EXCEPT !.pc = "delivering", !.item = NoItem]
    <3>1. worker' = [worker EXCEPT ![w] = y]
      BY <1>1, <1>3, <2>3 DEF PublishFails
    <3>2. y \in WorkerState /\ y.pc = "delivering"
      BY <1>1 DEF WorkerState
    <3> HIDE DEF y
    <3> QED BY <1>1, PlainStep, <3>1, <3>2
  <2>4. CASE FailureVerdict(w) \in {"dead", "retry"}
    <3> DEFINE y == [worker[w] EXCEPT !.pc = "settling", !.verdict = FailureVerdict(w)]
    <3>1. worker' = [worker EXCEPT ![w] = y]
      BY <1>1, <1>3, <2>4 DEF PublishFails
    <3>2. y \in WorkerState /\ y.pc = "settling" /\ y.verdict = FailureVerdict(w)
      BY <1>1, <2>4 DEF WorkerState
    <3> HIDE DEF y
    <3> QED BY <1>1, PlainStep, <2>4, <3>1, <3>2
  <2>5. FailureVerdict(w) \in {"stop", "expired", "dead", "retry"}
    BY DEF FailureVerdict
  <2> QED BY <2>2, <2>3, <2>4, <2>5
<1> QED BY <1>2, <1>3

LEMMA StartPublishInOrder ==
    ASSUME Inv, InOrder, NEW w \in Workers, StartPublish(w) PROVE InOrder'
<1>1. worker \in [Workers -> WorkerState] /\ worker[w] \in WorkerState /\ TypeOK /\ ClaimsKnown
  BY DEF Inv, TypeOK
<1>2. PICK claim \in worker[w].batch :
          /\ worker' = [worker EXCEPT ![w].pc = "publishing",
                                      ![w].batch = @ \ {claim}, ![w].item = claim]
          /\ calls' = calls \cup {<<claim.event, worker[w].token>>}
          /\ UNCHANGED <<outbox, applied>>
  BY DEF StartPublish, NextClaim
<1> DEFINE y == [worker[w] EXCEPT !.pc = "publishing", !.batch = @ \ {claim}, !.item = claim]
<1>3. worker' = [worker EXCEPT ![w] = y]
  BY <1>1, <1>2
<1>4. y.pc = "publishing" /\ y.item = claim /\ y.token = worker[w].token
  BY <1>1 DEF WorkerState
<1> HIDE DEF y
<1>5. claim \in Held(worker[w])
  BY DEF Held
<1>6. claim.event \in Events /\ claim.attempts \in 1..MaxAttemptCount
      /\ claim.attempts <= outbox[claim.event].attempts
  BY <1>1, <1>5, WorkerTypes DEF ClaimsKnown, Knows
<1>7. outbox[claim.event].attempts \in Nat
  BY <1>1, <1>6, RowTypes, Config
<1>8. Started(claim.event)'
  BY <1>2, <1>6, <1>7 DEF Started
<1>9. \A call \in calls' \ calls : Started(call[1])'
  BY <1>2, <1>8
<1>10. InTouch(y, calls', applied)
  BY <1>2, <1>4 DEF InTouch
<1>11. \A e \in Events : RowAdvances(e)
  BY <1>2, SameRow
<1>12. \A u \in Workers : worker'[u] = worker[u] \/ InTouch(worker'[u], calls', applied)
  BY <1>1, <1>3, <1>10
<1>13. calls \subseteq Events \X (1..issued) /\ applied \in [Streams -> Seq(1..MaxPosition)]
  BY <1>1 DEF TypeOK
<1> QED BY <1>2, <1>9, <1>11, <1>12, <1>13, OrderStep

-----------------------------------------------------------------------------
(* Steps that change rows, or apply an effect *)

LEMMA AppendInOrder == ASSUME Inv, InOrder, NEW s \in Streams, AppendEvent(s) PROVE InOrder'
<1> DEFINE row == [AbsentRow EXCEPT !.state = "PENDING",
                                    !.occurredAt = ProducerNow, !.dueAt = ProducerNow]
<1>1. TypeOK /\ ClaimsKnown /\ UNCHANGED <<worker, calls, applied>>
  BY DEF Inv, AppendEvent
<1>2. PICK n \in 1..MaxPosition :
          /\ outbox[<<s, n>>].state = "ABSENT"
          /\ \A f \in Predecessors(<<s, n>>) : outbox[f].state # "ABSENT"
          /\ outbox' = [outbox EXCEPT ![<<s, n>>] = row]
  BY DEF AppendEvent
<1> DEFINE e == <<s, n>>
<1>3. e \in Events /\ outbox' = [outbox EXCEPT ![e] = row]
      /\ outbox[e].state = "ABSENT" /\ \A f \in Predecessors(e) : outbox[f].state # "ABSENT"
  BY <1>2 DEF Events
<1>4. row.state = "PENDING" /\ row.attempts = 0
  <2>1. ProducerNow \in Nat
    BY <1>1, Config DEF ProducerNow, TypeOK
  <2> QED BY <2>1, NewRow
<1> HIDE DEF row
<1>5. outbox[e].attempts = 0
  BY <1>1, <1>3 DEF ClaimsKnown, RowSound
<1> HIDE DEF e
<1>6. outbox'[e] = row /\ \A f \in Events \ {e} : outbox'[f] = outbox[f]
  BY <1>1, <1>3 DEF TypeOK
<1>7. RowAdvances(e)
  BY <1>3, <1>4, <1>5, <1>6 DEF RowAdvances
<1>8. \A f \in Events : RowAdvances(f)
  BY <1>6, <1>7, SameRow
<1>9. calls \subseteq Events \X (1..issued) /\ applied \in [Streams -> Seq(1..MaxPosition)]
  BY <1>1 DEF TypeOK
<1>10. calls' = calls /\ worker' = worker /\ applied' = applied
  BY <1>1
<1> QED BY <1>8, <1>9, <1>10, OrderStep

\* What a claim does to the rows: it fails, or takes what is due and unblocked.
LEMMA ClaimRows ==
    ASSUME Inv, NEW w \in Workers, ClaimDue(w)
    PROVE  /\ UNCHANGED <<calls, applied>>
           /\ \A u \in Workers : \/ worker'[u] = worker[u]
                                 \/ worker'[u].pc \in {"stopped", "delivering"}
           /\ \A e \in Events :
                  \/ outbox'[e] = outbox[e]
                  \/ /\ outbox[e].state \in {"PENDING", "PROCESSING"} /\ Unblocked(e)
                     /\ outbox'[e].state = "PROCESSING"
                     /\ outbox'[e].attempts = outbox[e].attempts + 1
<1>1. TypeOK /\ worker \in [Workers -> WorkerState] /\ worker[w] \in WorkerState
      /\ outbox \in [Events -> Row]
  BY DEF Inv, TypeOK
<1>2. UNCHANGED <<calls, applied>>
  BY DEF ClaimDue
<1>3. PICK locked \in SUBSET (LockedElsewhere(w) \intersect Candidates(worker[w].asOf)) :
          LET taken == FirstOf(Candidates(worker[w].asOf) \ locked)
          IN  IF \E e \in taken : outbox[e].attempts = MaxAttemptCount
              THEN /\ worker' = [worker EXCEPT ![w] = Stopped]
                   /\ UNCHANGED <<outbox, issued>>
              ELSE /\ issued' = IF taken = {} THEN issued ELSE issued + 1
                   /\ outbox' = [e \in Events |->
                          IF e \in taken
                          THEN [outbox[e] EXCEPT !.state = "PROCESSING", !.attempts = @ + 1,
                                                 !.token = issued', !.lease = Lease(w)]
                          ELSE outbox[e]]
                   /\ worker' = [worker EXCEPT
                          ![w].pc = "delivering",
                          ![w].token = IF taken = {} THEN NoToken ELSE issued',
                          ![w].batch = {[event |-> e, attempts |-> outbox'[e].attempts]
                                          : e \in taken}]
  BY DEF ClaimDue
<1> DEFINE taken == FirstOf(Candidates(worker[w].asOf) \ locked)
<1>4. \A e \in taken : /\ e \in Events /\ Unblocked(e)
                       /\ outbox[e].state \in {"PENDING", "PROCESSING"}
  BY DEF FirstOf, Candidates, Due
<1> HIDE DEF taken
<1>5. CASE \E e \in taken : outbox[e].attempts = MaxAttemptCount
  <2>1. worker' = [worker EXCEPT ![w] = Stopped] /\ outbox' = outbox
    BY <1>3, <1>5 DEF taken
  <2>2. Stopped.pc = "stopped"
    BY DEF Stopped, Idle
  <2> QED BY <1>1, <1>2, <2>1, <2>2
<1>6. CASE ~ \E e \in taken : outbox[e].attempts = MaxAttemptCount
  <2> DEFINE k == issued'
             b == {[event |-> e, attempts |-> outbox'[e].attempts] : e \in taken}
             t == IF taken = {} THEN NoToken ELSE k
             l == Lease(w)
             y == [worker[w] EXCEPT !.pc = "delivering", !.token = t, !.batch = b]
  <2>1. /\ outbox' = [e \in Events |->
               IF e \in taken
               THEN [outbox[e] EXCEPT !.state = "PROCESSING", !.attempts = @ + 1,
                                      !.token = k, !.lease = l]
               ELSE outbox[e]]
        /\ worker' = [worker EXCEPT ![w].pc = "delivering", ![w].token = t, ![w].batch = b]
    BY <1>3, <1>6 DEF taken
  <2> HIDE DEF k, b, t, l
  <2>2. worker' = [worker EXCEPT ![w] = y]
    BY <1>1, <2>1
  <2>3. y.pc = "delivering"
    BY <1>1 DEF WorkerState
  <2> HIDE DEF y
  <2>4. ASSUME NEW e \in taken
        PROVE  outbox'[e].state = "PROCESSING" /\ outbox'[e].attempts = outbox[e].attempts + 1
    <3>1. e \in Events /\ outbox[e] \in Row
      BY <1>1, <1>4
    <3>2. outbox'[e] = [outbox[e] EXCEPT !.state = "PROCESSING", !.attempts = @ + 1,
                                         !.token = k, !.lease = l]
      BY <2>1, <3>1
    <3> DEFINE new == outbox'[e]
    <3>3. new = [outbox[e] EXCEPT !.state = "PROCESSING", !.attempts = @ + 1,
                                  !.token = k, !.lease = l]
      BY <3>2
    <3> HIDE DEF new
    <3>4. new.state = "PROCESSING" /\ new.attempts = outbox[e].attempts + 1
      BY <3>1, <3>3 DEF Row
    <3> QED BY <3>4 DEF new
  <2>5. \A e \in Events \ taken : outbox'[e] = outbox[e]
    BY <2>1
  <2>6. \A u \in Workers : \/ worker'[u] = worker[u]
                           \/ worker'[u].pc \in {"stopped", "delivering"}
    BY <1>1, <2>2, <2>3
  <2> QED BY <1>2, <1>4, <2>4, <2>5, <2>6
<1> QED BY <1>5, <1>6

LEMMA ClaimInOrder == ASSUME Inv, InOrder, NEW w \in Workers, ClaimDue(w) PROVE InOrder'
<1>1. UNCHANGED <<calls, applied>>
  BY DEF ClaimDue
<1>2. TypeOK /\ calls \subseteq Events \X (1..issued) /\ applied \in [Streams -> Seq(1..MaxPosition)]
  BY DEF Inv, TypeOK
<1>3. ASSUME NEW e \in Events PROVE RowAdvances(e)
  <2>1. CASE outbox'[e] = outbox[e]
    BY <2>1, SameRow
  <2>2. CASE /\ outbox[e].state \in {"PENDING", "PROCESSING"} /\ Unblocked(e)
             /\ outbox'[e].state = "PROCESSING"
             /\ outbox'[e].attempts = outbox[e].attempts + 1
    <3>1. outbox[e].attempts \in Nat
      BY <1>2, RowTypes, Config
    <3> QED BY <2>2, <3>1 DEF RowAdvances
  <2> QED BY <2>1, <2>2, ClaimRows
<1>4. \A u \in Workers : worker'[u] = worker[u] \/ InTouch(worker'[u], calls', applied)
  <2>1. \A u \in Workers : \/ worker'[u] = worker[u]
                           \/ worker'[u].pc \in {"stopped", "delivering"}
    BY ClaimRows
  <2> QED BY <2>1 DEF InTouch
<1>5. calls' = calls /\ applied' = applied
  BY <1>1
<1> QED BY <1>2, <1>3, <1>4, <1>5, OrderStep

\* What the end of a delivery does to the rows: nothing, or its owner gives
\* the row back, as published only when the receiver has the event.
LEMMA SettledRow ==
    ASSUME Inv, InOrder, NEW w \in Workers, Settle(w)
    PROVE  /\ UNCHANGED <<calls, applied>>
           /\ \A u \in Workers : worker'[u] = worker[u] \/ worker'[u].pc = "delivering"
           /\ \/ UNCHANGED outbox
              \/ \E e \in Events :
                     /\ outbox[e].state = "PROCESSING"
                     /\ outbox'[e].attempts = outbox[e].attempts
                     /\ outbox'[e].state \in {"PENDING", "PUBLISHED", "DEAD_LETTER"}
                     /\ outbox'[e].state = "PUBLISHED" => Effective(e, applied)
                     /\ \A f \in Events \ {e} : outbox'[f] = outbox[f]
<1> DEFINE x == worker[w]
           e == x.item.event
           y == [x EXCEPT !.pc = "delivering", !.item = NoItem, !.verdict = "none"]
<1>1. /\ TypeOK /\ ClaimsKnown /\ x \in WorkerState /\ Sane(x, Now(w), issued) /\ x.pc = "settling"
      /\ worker \in [Workers -> WorkerState] /\ outbox \in [Events -> Row]
  BY DEF Inv, TypeOK, ClaimsKnown, Settle
<1>2. e \in Events /\ outbox[e] \in Row
  <2>1. x.item \in Held(x)
    BY <1>1 DEF Sane, Held
  <2> QED BY <1>1, <2>1, WorkerTypes
<1>3. UNCHANGED <<calls, applied>> /\ worker' = [worker EXCEPT ![w] = y]
  BY <1>1 DEF Settle
<1>4. y.pc = "delivering"
  BY <1>1 DEF WorkerState
<1> HIDE DEF y
<1>5. \A u \in Workers : worker'[u] = worker[u] \/ worker'[u].pc = "delivering"
  BY <1>1, <1>3, <1>4
<1>6. ASSUME ~UNCHANGED outbox
      PROVE  /\ Owns(w, e)
             /\ \E row : /\ row.attempts = outbox[e].attempts
                         /\ row.state \in {"PENDING", "PUBLISHED", "DEAD_LETTER"}
                         /\ row.state = "PUBLISHED" => x.verdict = "published"
                         /\ outbox' = [outbox EXCEPT ![e] = row]
  <2>1. Owns(w, e)
    BY <1>6 DEF Settle
  <2>2. ASSUME NEW state
        PROVE  /\ Released(outbox[e], state).attempts = outbox[e].attempts
               /\ Released(outbox[e], state).state = state
    BY <1>2 DEF Released, Row
  <2>3. ASSUME NEW state, NEW due
        PROVE  /\ [Released(outbox[e], state) EXCEPT !.dueAt = due].attempts = outbox[e].attempts
               /\ [Released(outbox[e], state) EXCEPT !.dueAt = due].state = state
    BY <1>2 DEF Released, Row
  <2>4. \/ x.verdict = "published" /\ outbox' = [outbox EXCEPT ![e] = Released(outbox[e], "PUBLISHED")]
        \/ outbox' = [outbox EXCEPT ![e] = Released(outbox[e], "DEAD_LETTER")]
        \/ \E delay \in 0..RetryCap(RetryBaseDelay, RetryMaxDelay, x.item.attempts) :
               outbox' = [outbox EXCEPT ![e] =
                   [Released(outbox[e], "PENDING") EXCEPT !.dueAt = Now(w) + delay]]
    <3>1. \/ /\ x.verdict = "published"
             /\ outbox' = [outbox EXCEPT ![e] = Released(@, "PUBLISHED")]
          \/ /\ x.verdict = "dead"
             /\ outbox' = [outbox EXCEPT ![e] = Released(@, "DEAD_LETTER")]
          \/ /\ x.verdict = "retry"
             /\ \E delay \in 0..RetryCap(RetryBaseDelay, RetryMaxDelay, x.item.attempts) :
                  outbox' = [outbox EXCEPT ![e] =
                      [Released(@, "PENDING") EXCEPT !.dueAt = Now(w) + delay]]
      BY <2>1, Zenon DEF Settle
    <3> QED BY <3>1
  <2>5. CASE x.verdict = "published" /\ outbox' = [outbox EXCEPT ![e] = Released(outbox[e], "PUBLISHED")]
    BY <2>1, <2>2, <2>5
  <2>6. CASE outbox' = [outbox EXCEPT ![e] = Released(outbox[e], "DEAD_LETTER")]
    BY <2>1, <2>2, <2>6
  <2>7. CASE \E delay \in 0..RetryCap(RetryBaseDelay, RetryMaxDelay, x.item.attempts) :
               outbox' = [outbox EXCEPT ![e] =
                   [Released(outbox[e], "PENDING") EXCEPT !.dueAt = Now(w) + delay]]
    <3>1. PICK delay \in 0..RetryCap(RetryBaseDelay, RetryMaxDelay, x.item.attempts) :
               outbox' = [outbox EXCEPT ![e] =
                   [Released(outbox[e], "PENDING") EXCEPT !.dueAt = Now(w) + delay]]
      BY <2>7
    <3> DEFINE row == [Released(outbox[e], "PENDING") EXCEPT !.dueAt = Now(w) + delay]
    <3>2. row.attempts = outbox[e].attempts /\ row.state = "PENDING"
      BY <2>3
    <3>3. outbox' = [outbox EXCEPT ![e] = row]
      BY <3>1
    <3> HIDE DEF row
    <3> QED BY <2>1, <3>2, <3>3
  <2> QED BY <2>4, <2>5, <2>6, <2>7
<1>7. CASE ~UNCHANGED outbox
  <2>1. PICK row : /\ row.attempts = outbox[e].attempts
                   /\ row.state \in {"PENDING", "PUBLISHED", "DEAD_LETTER"}
                   /\ row.state = "PUBLISHED" => x.verdict = "published"
                   /\ outbox' = [outbox EXCEPT ![e] = row]
    BY <1>6, <1>7
  <2>2. outbox[e].state = "PROCESSING"
    BY <1>6, <1>7 DEF Owns
  <2>3. row.state = "PUBLISHED" => Effective(e, applied)
    BY <1>1, <2>1 DEF InOrder, InTouch
  <2> HIDE DEF e
  <2>4. outbox'[e] = row /\ \A f \in Events \ {e} : outbox'[f] = outbox[f]
    BY <1>1, <1>2, <2>1
  <2>5. /\ outbox'[e].attempts = outbox[e].attempts
        /\ outbox'[e].state \in {"PENDING", "PUBLISHED", "DEAD_LETTER"}
        /\ outbox'[e].state = "PUBLISHED" => Effective(e, applied)
        /\ \A f \in Events \ {e} : outbox'[f] = outbox[f]
    BY <2>1, <2>3, <2>4
  <2> QED BY <1>2, <1>3, <1>5, <2>2, <2>5
<1> QED BY <1>3, <1>5, <1>7

LEMMA SettleInOrder == ASSUME Inv, InOrder, NEW w \in Workers, Settle(w) PROVE InOrder'
<1>1. UNCHANGED <<calls, applied>>
  BY DEF Settle
<1>2. TypeOK /\ calls \subseteq Events \X (1..issued) /\ applied \in [Streams -> Seq(1..MaxPosition)]
  BY DEF Inv, TypeOK
<1>3. \A e \in Events : RowAdvances(e)
  <2>1. CASE UNCHANGED outbox
    BY <2>1, SameRow
  <2>2. ASSUME NEW e \in Events,
               outbox[e].state = "PROCESSING",
               outbox'[e].attempts = outbox[e].attempts,
               outbox'[e].state \in {"PENDING", "PUBLISHED", "DEAD_LETTER"},
               outbox'[e].state = "PUBLISHED" => Effective(e, applied)
        PROVE  RowAdvances(e)
    BY <2>2 DEF RowAdvances, InOrder, RowsInOrder, Started
  <2>3. CASE ~UNCHANGED outbox
    <3>1. PICK e \in Events :
              /\ outbox[e].state = "PROCESSING"
              /\ outbox'[e].attempts = outbox[e].attempts
              /\ outbox'[e].state \in {"PENDING", "PUBLISHED", "DEAD_LETTER"}
              /\ outbox'[e].state = "PUBLISHED" => Effective(e, applied)
              /\ \A f \in Events \ {e} : outbox'[f] = outbox[f]
      BY <2>3, SettledRow
    <3>2. RowAdvances(e)
      BY <2>2, <3>1
    <3> QED BY <3>1, <3>2, SameRow
  <2> QED BY <2>1, <2>3
<1>4. \A u \in Workers : worker'[u] = worker[u] \/ InTouch(worker'[u], calls', applied)
  <2>1. \A u \in Workers : worker'[u] = worker[u] \/ worker'[u].pc = "delivering"
    BY SettledRow
  <2> QED BY <2>1 DEF InTouch
<1>5. calls' = calls /\ applied' = applied
  BY <1>1
<1> QED BY <1>2, <1>3, <1>4, <1>5, OrderStep

-----------------------------------------------------------------------------
(* The receiver *)

LEMMA AppliedTypes ==
    ASSUME TypeOK, NEW s \in Streams
    PROVE  /\ applied[s] \in Seq(1..MaxPosition) /\ Len(applied[s]) \in Nat
           /\ DOMAIN applied[s] = 1..Len(applied[s])
           /\ \A n \in 1..Len(applied[s]) : applied[s][n] \in 1..MaxPosition
<1> DEFINE S == 1..MaxPosition
<1>1. applied[s] \in Seq(S)
  BY DEF TypeOK
<1> HIDE DEF S
<1>2. Len(applied[s]) \in Nat /\ DOMAIN applied[s] = 1..Len(applied[s])
      /\ \A n \in 1..Len(applied[s]) : applied[s][n] \in S
  BY <1>1
<1> QED BY <1>1, <1>2 DEF S

\* What the receiver has not applied and somebody called it for is the next.
LEMMA NextEffect ==
    ASSUME Inv, InOrder, NEW s \in Streams, NEW n \in 1..MaxPosition,
           Started(<<s, n>>), n \notin Range(applied[s])
    PROVE  Len(applied[s]) = n - 1
<1> DEFINE L == Len(applied[s])
<1>1. L \in Nat /\ DOMAIN applied[s] = 1..L /\ n \in Nat /\ n >= 1 /\ n <= MaxPosition /\ MaxPosition \in Nat
  BY AppliedTypes, Config DEF Inv
<1>2. n \notin 1..L
  <2>1. ASSUME n \in 1..L PROVE applied[s][n] = n
    BY <2>1 DEF InOrder, EffectsInOrder
  <2>2. ASSUME n \in 1..L PROVE applied[s][n] \in Range(applied[s])
    BY <1>1, <2>2 DEF Range
  <2> QED BY <2>1, <2>2
<1>3. CASE n = 1
  BY <1>1, <1>2, <1>3
<1>4. CASE n # 1
  <2> DEFINE f == <<s, n - 1>>
  <2>1. n - 1 \in 1..MaxPosition /\ n - 1 < n
    BY <1>1, <1>4
  <2>2. <<s, n>> \in Events /\ f \in Predecessors(<<s, n>>) /\ f \in Events
    BY <2>1 DEF Events, Predecessors
  <2>3. outbox[f].state = "PUBLISHED"
    BY <2>2 DEF InOrder, RowsInOrder, Unblocked
  <2>4. Effective(f, applied)
    BY <2>2, <2>3 DEF InOrder, EffectsInOrder
  <2>5. n - 1 \in 1..L
    BY <2>4 DEF Effective
  <2> QED BY <1>1, <1>2, <2>5
<1> QED BY <1>3, <1>4

LEMMA ReceiveInOrder == ASSUME Inv, InOrder, NEW call \in calls, Receive(call) PROVE InOrder'
<1> DEFINE s == call[1][1]
           n == call[1][2]
           L == Len(applied[s])
<1>1. TypeOK /\ UNCHANGED <<outbox, worker>> /\ calls' = calls \ {call}
  BY DEF Inv, Receive
<1>2. s \in Streams /\ n \in 1..MaxPosition /\ call[1] = <<s, n>> /\ call = <<call[1], call[2]>>
  BY <1>1 DEF TypeOK, Events
<1>3. Started(<<s, n>>)
  BY <1>2 DEF InOrder
<1>4. applied' = IF n \in Range(applied[s]) THEN applied
                 ELSE [applied EXCEPT ![s] = Append(@, n)]
  BY DEF Receive
<1>5. /\ applied \in [Streams -> Seq(1..MaxPosition)] /\ applied[s] \in Seq(1..MaxPosition)
      /\ L \in Nat /\ DOMAIN applied[s] = 1..L
  BY <1>1, <1>2, AppliedTypes DEF TypeOK
<1> HIDE DEF s, n
<1>6. /\ n \in 1..Len(applied'[s])
      /\ \A t \in Streams : 1..Len(applied[t]) \subseteq 1..Len(applied'[t])
      /\ \A t \in Streams : \A m \in 1..Len(applied'[t]) :
             applied'[t][m] = m /\ (m \in 1..Len(applied[t]) \/ <<t, m>> = <<s, n>>)
  <2>1. CASE n \in Range(applied[s])
    <3>1. applied' = applied
      BY <1>4, <2>1
    <3>2. \A t \in Streams : \A m \in 1..Len(applied[t]) : applied[t][m] = m
      BY DEF InOrder, EffectsInOrder
    <3>3. n \in 1..L
      BY <1>2, <1>5, <2>1, <3>2 DEF Range
    <3> QED BY <3>1, <3>2, <3>3
  <2>2. CASE n \notin Range(applied[s])
    <3>1. L = n - 1 /\ n \in Nat
      BY <1>2, <1>3, <2>2, NextEffect
    <3> DEFINE q == Append(applied[s], n)
               S == 1..MaxPosition
    <3>2. applied[s] \in Seq(S) /\ n \in S
      BY <1>2, <1>5
    <3> HIDE DEF S
    <3>3. Len(q) = L + 1 /\ q[L + 1] = n /\ \A m \in 1..L : q[m] = applied[s][m]
      BY <3>2
    <3> HIDE DEF q
    <3>4. applied'[s] = q /\ \A t \in Streams \ {s} : applied'[t] = applied[t]
      BY <1>2, <1>4, <1>5, <2>2 DEF q
    <3>5. \A t \in Streams : \A m \in 1..Len(applied[t]) : applied[t][m] = m
      BY DEF InOrder, EffectsInOrder
    <3> HIDE DEF L
    <3>6. L \in Nat /\ L + 1 = n /\ Len(q) = n
      BY <1>5, <3>1, <3>3
    <3>7. L = Len(applied[s])
      BY DEF L
    <3>8. n \in 1..Len(q) /\ 1..Len(applied[s]) \subseteq 1..Len(q)
      BY <3>6, <3>7
    <3>9. ASSUME NEW m \in 1..Len(q)
          PROVE  q[m] = m /\ (m \in 1..Len(applied[s]) \/ m = n)
      <4>1. m \in 1..L \/ m = L + 1
        BY <3>6
      <4> QED BY <1>2, <3>3, <3>5, <3>6, <3>7, <4>1
    <3> QED BY <1>2, <3>4, <3>5, <3>8, <3>9
  <2> QED BY <2>1, <2>2
<1>7. ASSUME NEW e \in Events, Effective(e, applied) PROVE Effective(e, applied')
  BY <1>6, <1>7 DEF Effective, Events
<1>8. Effective(call[1], applied')
  BY <1>2, <1>6 DEF Effective
<1>9. RowsInOrder'
  BY <1>1 DEF InOrder, RowsInOrder, Started, Unblocked
<1>10. \A other \in calls' : Started(other[1])'
  BY <1>1 DEF InOrder, Started
<1>11. ASSUME NEW w \in Workers PROVE InTouch(worker'[w], calls', applied')
  <2> DEFINE x == worker[w]
  <2>1. x \in WorkerState /\ InTouch(x, calls, applied) /\ Sane(x, Now(w), issued)
    BY <1>1 DEF InOrder, Inv, ClaimsKnown, TypeOK
  <2>2. ASSUME x.pc \in {"publishing", "settling"} PROVE x.item.event \in Events
    <3>1. x.item \in Held(x)
      BY <2>1, <2>2 DEF Sane, Held
    <3> QED BY <2>1, <3>1, WorkerTypes
  <2>3. ASSUME x.pc = "publishing"
        PROVE  <<x.item.event, x.token>> \in calls' \/ Effective(x.item.event, applied')
    <3>1. CASE <<x.item.event, x.token>> = call
      <4>1. x.item.event = call[1]
        BY <3>1
      <4> QED BY <1>8, <4>1
    <3>2. CASE <<x.item.event, x.token>> # call
      BY <1>1, <1>7, <2>1, <2>2, <2>3, <3>2 DEF InTouch
    <3> QED BY <3>1, <3>2
  <2>4. ASSUME x.pc = "settling", x.verdict = "published" PROVE Effective(x.item.event, applied')
    BY <1>7, <2>1, <2>2, <2>4 DEF InTouch
  <2>5. InTouch(x, calls', applied')
    BY <2>3, <2>4 DEF InTouch
  <2> QED BY <1>1, <2>5
<1>12. EffectsInOrder'
  <2>1. \A e \in Events : outbox'[e].state = "PUBLISHED" => Effective(e, applied')
    BY <1>1, <1>7 DEF InOrder, EffectsInOrder
  <2>2. ASSUME NEW t \in Streams, NEW m \in 1..Len(applied'[t])
        PROVE  applied'[t][m] = m /\ Started(<<t, m>>)'
    <3>1. applied'[t][m] = m /\ (m \in 1..Len(applied[t]) \/ <<t, m>> = <<s, n>>)
      BY <1>6
    <3>2. Started(<<t, m>>)
      BY <1>3, <3>1 DEF InOrder, EffectsInOrder
    <3> QED BY <1>1, <3>1, <3>2 DEF Started
  <2> QED BY <2>1, <2>2 DEF EffectsInOrder
<1> QED BY <1>9, <1>10, <1>11, <1>12 DEF InOrder

-----------------------------------------------------------------------------

LEMMA QuietInOrder == ASSUME InOrder, UNCHANGED <<outbox, worker, calls, applied>> PROVE InOrder'
BY DEF InOrder, RowsInOrder, EffectsInOrder, Started, Unblocked

LEMMA InitInOrder == Init => InOrder
<1> SUFFICES ASSUME Init PROVE InOrder
  OBVIOUS
<1>1. \A e \in Events : outbox[e].state = "ABSENT" /\ outbox[e].attempts = 0
  BY DEF Init, AbsentRow
<1>2. \A w \in Workers : worker[w].pc = "waiting"
  BY DEF Init, Idle
<1>3. calls = {} /\ \A s \in Streams : Len(applied[s]) = 0
  BY DEF Init
<1>4. RowsInOrder
  BY <1>1 DEF RowsInOrder, Started
<1>5. EffectsInOrder
  BY <1>1, <1>3 DEF EffectsInOrder
<1>6. \A w \in Workers : InTouch(worker[w], calls, applied)
  BY <1>2 DEF InTouch
<1> QED BY <1>3, <1>4, <1>5, <1>6 DEF InOrder

LEMMA NextInOrder == ASSUME Inv, InOrder, [Next]_vars PROVE InOrder'
<1>1. ASSUME NEW s \in Streams, AppendEvent(s) PROVE InOrder'
  BY <1>1, AppendInOrder
<1>2. ASSUME NEW w \in Workers, Run(w) PROVE InOrder'
  <2>1. CASE \/ BeginCycle(w) \/ FinishBatch(w) \/ SkipExpired(w) \/ PutAway(w) \/ Stop(w)
    BY <2>1, LoopStepInOrder
  <2>2. CASE ClaimDue(w)
    BY <2>2, ClaimInOrder
  <2>3. CASE StartPublish(w)
    BY <2>3, StartPublishInOrder
  <2>4. CASE PublishSucceeds(w) \/ PublishFails(w)
    BY <2>4, ReturnInOrder
  <2>5. CASE Settle(w)
    BY <2>5, SettleInOrder
  <2> QED BY <1>2, <2>1, <2>2, <2>3, <2>4, <2>5 DEF Run
<1>3. ASSUME NEW w \in Workers, Crash(w) \/ Restart(w) PROVE InOrder'
  BY <1>3, LoopStepInOrder
<1>4. ASSUME NEW w \in Workers, Shutdown(w) PROVE InOrder'
  BY <1>4, ShutdownInOrder
<1>5. ASSUME NEW call \in calls, Receive(call) PROVE InOrder'
  BY <1>5, ReceiveInOrder
<1>6. CASE Tick
  BY <1>6, QuietInOrder DEF Tick
<1>7. CASE UNCHANGED vars
  BY <1>7, QuietInOrder DEF vars
<1> QED BY <1>1, <1>2, <1>3, <1>4, <1>5, <1>6, <1>7 DEF Next

LEMMA InOrderHolds == Spec => [](Inv /\ InOrder)
<1>1. Init => Inv /\ InOrder
  BY InitInv, InitInOrder
<1>2. Inv /\ InOrder /\ [Next]_vars => (Inv /\ InOrder)'
  BY NextInv, NextInOrder
<1> QED BY <1>1, <1>2, PTL DEF Spec

-----------------------------------------------------------------------------
(* Counting the events of a stream, in the rows `rows` *)

At(rows, s, states) == {n \in 1..MaxPosition : rows[<<s, n>>].state \in states}

Count(rows, s, states) == Cardinality(At(rows, s, states))

LEMMA CountTypes ==
    ASSUME NEW rows, NEW s, NEW states
    PROVE  /\ At(rows, s, states) \subseteq 1..MaxPosition
           /\ IsFiniteSet(At(rows, s, states))
           /\ Count(rows, s, states) \in Nat /\ Count(rows, s, states) <= MaxPosition
<1>1. At(rows, s, states) \subseteq 1..MaxPosition
  BY DEF At
<1>2. IsFiniteSet(1..MaxPosition) /\ Cardinality(1..MaxPosition) = MaxPosition
  BY Config, FS_Interval
<1> QED BY <1>1, <1>2, FS_Subset, FS_CardinalityType DEF Count

LEMMA SameCount ==
    ASSUME NEW rows, NEW new, NEW s, NEW states,
           \A n \in 1..MaxPosition :
               rows[<<s, n>>].state \in states <=> new[<<s, n>>].state \in states
    PROVE  Count(new, s, states) = Count(rows, s, states)
<1>1. At(new, s, states) = At(rows, s, states)
  BY DEF At
<1> QED BY <1>1 DEF Count

LEMMA OneMore ==
    ASSUME NEW rows, NEW new, NEW s, NEW states, NEW n \in 1..MaxPosition,
           rows[<<s, n>>].state \notin states, new[<<s, n>>].state \in states,
           \A m \in (1..MaxPosition) \ {n} :
               rows[<<s, m>>].state \in states <=> new[<<s, m>>].state \in states
    PROVE  Count(new, s, states) = Count(rows, s, states) + 1
<1>1. At(new, s, states) = At(rows, s, states) \cup {n} /\ n \notin At(rows, s, states)
  BY DEF At
<1>2. IsFiniteSet(At(rows, s, states))
  BY CountTypes
<1> QED BY <1>1, <1>2, FS_AddElement DEF Count

LEMMA NoneOf ==
    ASSUME NEW rows, NEW s, NEW states
    PROVE  Count(rows, s, states) = 0 <=>
               \A n \in 1..MaxPosition : rows[<<s, n>>].state \notin states
<1>1. Count(rows, s, states) = 0 <=> At(rows, s, states) = {}
  BY CountTypes, FS_EmptySet DEF Count
<1> QED BY <1>1 DEF At

\* The published events of a stream are its first ones, and at most one more
\* has an effect.
LEMMA Published ==
    ASSUME Inv, InOrder, NEW s \in Streams
    PROVE  LET c == Count(outbox, s, {"PUBLISHED"})
           IN  /\ At(outbox, s, {"PUBLISHED"}) = 1..c
               /\ c \in Nat /\ c <= Len(applied[s]) /\ Len(applied[s]) <= c + 1
<1> DEFINE L == Len(applied[s])
           p == At(outbox, s, {"PUBLISHED"})
<1>1. /\ L \in Nat /\ MaxPosition \in Nat
      /\ \A n \in 1..L : n \in 1..MaxPosition /\ Started(<<s, n>>)
  <2>1. \A n \in 1..L : applied[s][n] = n /\ Started(<<s, n>>)
    BY DEF InOrder, EffectsInOrder
  <2> QED BY <2>1, AppliedTypes, Config DEF Inv
<1>2. p \subseteq 1..L
  <2>1. ASSUME NEW n \in p PROVE n \in 1..L
    <3>1. <<s, n>> \in Events /\ outbox[<<s, n>>].state = "PUBLISHED"
      BY <2>1 DEF At, Events
    <3>2. Effective(<<s, n>>, applied)
      BY <3>1 DEF InOrder, EffectsInOrder
    <3> QED BY <3>2 DEF Effective
  <2> QED BY <2>1
<1>3. 1..(L - 1) \subseteq p
  <2>1. ASSUME NEW n \in 1..(L - 1) PROVE n \in p
    <3>1. L \in 1..L /\ n \in 1..MaxPosition /\ n < L
      <4> HIDE DEF L
      <4>1. L \in Nat /\ MaxPosition \in Nat
        BY <1>1
      <4>2. n \in Nat /\ 1 <= n /\ n < L /\ L \in 1..L
        BY <2>1, <4>1
      <4>3. L \in 1..MaxPosition
        BY <1>1, <4>2
      <4> QED BY <4>1, <4>2, <4>3
    <3>2. <<s, L>> \in Events /\ <<s, n>> \in Predecessors(<<s, L>>)
      BY <1>1, <3>1 DEF Events, Predecessors
    <3>3. Started(<<s, L>>)
      BY <1>1, <3>1
    <3>4. outbox[<<s, n>>].state = "PUBLISHED"
      BY <3>2, <3>3 DEF InOrder, RowsInOrder, Unblocked
    <3> QED BY <3>1, <3>4 DEF At
  <2> QED BY <2>1
<1> HIDE DEF p
<1>4. p = 1..L \/ p = 1..(L - 1)
  <2>1. CASE L \in p
    <3>1. 1..L \subseteq p
      BY <1>1, <1>3, <2>1
    <3> QED BY <1>2, <3>1
  <2>2. CASE L \notin p
    <3>1. p \subseteq 1..(L - 1)
      BY <1>1, <1>2, <2>2
    <3> QED BY <1>3, <3>1
  <2> QED BY <2>1, <2>2
<1>5. CASE p = 1..L
  <2>1. Cardinality(p) = L
    BY <1>1, <1>5, FS_Interval
  <2> QED BY <1>1, <1>5, <2>1 DEF p, Count
<1>6. CASE p = 1..(L - 1) /\ L # 0
  <2>1. Cardinality(p) = L - 1
    BY <1>1, <1>6, FS_Interval
  <2> QED BY <1>1, <1>6, <2>1 DEF p, Count
<1>7. CASE L = 0
  <2>1. p = {} /\ 1..0 = {}
    BY <1>2, <1>7
  <2>2. Cardinality(p) = 0
    BY <2>1, FS_EmptySet
  <2> QED BY <1>1, <1>7, <2>1, <2>2 DEF p, Count
<1> QED BY <1>4, <1>5, <1>6, <1>7

\* The recorded events of a stream are its first ones.
LEMMA RecordedUpTo ==
    ASSUME Inv, InOrder, NEW s \in Streams, NEW n \in 1..MaxPosition,
           outbox[<<s, n>>].state # "ABSENT"
    PROVE  n <= MaxPosition - Count(outbox, s, {"ABSENT"})
<1> DEFINE a == At(outbox, s, {"ABSENT"})
<1>1. MaxPosition \in Nat /\ n \in Nat /\ 1 <= n /\ n <= MaxPosition
  BY Config
<1>2. a \subseteq (n + 1)..MaxPosition
  <2>1. ASSUME NEW m \in a PROVE m \in (n + 1)..MaxPosition
    <3>1. m \in 1..MaxPosition /\ outbox[<<s, m>>].state = "ABSENT"
      BY <2>1 DEF At
    <3>2. m # n
      BY <3>1
    <3>3. ASSUME m < n PROVE FALSE
      <4>1. <<s, n>> \in Events /\ <<s, m>> \in Predecessors(<<s, n>>)
        BY <3>1, <3>3 DEF Events, Predecessors
      <4> QED BY <3>1, <4>1 DEF InOrder, RowsInOrder
    <3> QED BY <1>1, <3>1, <3>2, <3>3
  <2> QED BY <2>1
<1> HIDE DEF a
<1>3. IsFiniteSet((n + 1)..MaxPosition)
      /\ (Cardinality((n + 1)..MaxPosition) = MaxPosition - n \/ (n + 1)..MaxPosition = {})
  <2>1. n + 1 \in Int /\ MaxPosition \in Int
    BY <1>1
  <2>2. IsFiniteSet((n + 1)..MaxPosition)
        /\ Cardinality((n + 1)..MaxPosition) =
               IF n + 1 > MaxPosition THEN 0 ELSE MaxPosition - (n + 1) + 1
    BY <2>1, FS_Interval
  <2> QED BY <1>1, <2>2
<1>4. Cardinality((n + 1)..MaxPosition) <= MaxPosition - n
  BY <1>1, <1>3, FS_EmptySet
<1>5. Cardinality(a) <= Cardinality((n + 1)..MaxPosition)
      /\ Cardinality(a) \in Nat /\ Cardinality((n + 1)..MaxPosition) \in Nat
  BY <1>2, <1>3, FS_Subset, FS_CardinalityType
<1> QED BY <1>1, <1>4, <1>5 DEF a, Count

-----------------------------------------------------------------------------
(* The workers implement one stop-and-wait channel per stream *)

recorded == [s \in Streams |-> MaxPosition - CountOf(s, {"ABSENT"})]

confirmed == [s \in Streams |-> CountOf(s, {"PUBLISHED"})]

abandoned == {s \in Streams : CountOf(s, {"DEAD_LETTER"}) > 0}

LEMMA CountNow == \A s, states : CountOf(s, states) = Count(outbox, s, states)
BY DEF CountOf, Count, At

LEMMA CountNext == \A s, states : CountOf(s, states)' = Count(outbox', s, states)
BY DEF CountOf, Count, At

LEMMA ChannelState ==
    /\ recorded = [s \in Streams |-> MaxPosition - Count(outbox, s, {"ABSENT"})]
    /\ confirmed = [s \in Streams |-> Count(outbox, s, {"PUBLISHED"})]
    /\ abandoned = {s \in Streams : Count(outbox, s, {"DEAD_LETTER"}) > 0}
    /\ recorded' = [s \in Streams |-> MaxPosition - Count(outbox', s, {"ABSENT"})]
    /\ confirmed' = [s \in Streams |-> Count(outbox', s, {"PUBLISHED"})]
    /\ abandoned' = {s \in Streams : Count(outbox', s, {"DEAD_LETTER"}) > 0}
BY CountNow, CountNext DEF recorded, confirmed, abandoned

\* The steps of the channel, in the words of this module.
LEMMA ChannelSteps ==
    ASSUME NEW s \in Streams
    PROVE  /\ /\ recorded[s] < MaxPosition
              /\ recorded' = [recorded EXCEPT ![s] = @ + 1]
              /\ UNCHANGED <<applied, confirmed, abandoned>>
              => Channel!Next
           /\ /\ Len(applied[s]) = confirmed[s]
              /\ confirmed[s] < recorded[s]
              /\ applied' = [applied EXCEPT ![s] = Append(@, confirmed[s] + 1)]
              /\ UNCHANGED <<recorded, confirmed, abandoned>>
              => Channel!Next
           /\ /\ s \notin abandoned
              /\ confirmed[s] < Len(applied[s])
              /\ confirmed' = [confirmed EXCEPT ![s] = @ + 1]
              /\ UNCHANGED <<recorded, applied, abandoned>>
              => Channel!Next
           /\ /\ confirmed[s] < recorded[s]
              /\ abandoned' = abandoned \cup {s}
              /\ UNCHANGED <<recorded, applied, confirmed>>
              => Channel!Next
           /\ UNCHANGED <<recorded, applied, confirmed, abandoned>> => UNCHANGED Channel!vars
BY DEF Channel!Next, Channel!Record, Channel!Deliver, Channel!Confirm, Channel!Abandon,
       Channel!vars, recorded, confirmed, abandoned

\* Rows change at most between what the channel does not tell apart.
LEMMA QuietStep ==
    ASSUME UNCHANGED applied,
           \A e \in Events : \A q \in {"ABSENT", "PUBLISHED", "DEAD_LETTER"} :
               outbox[e].state = q <=> outbox'[e].state = q
    PROVE  UNCHANGED Channel!vars
<1>1. ASSUME NEW s \in Streams, NEW q \in {"ABSENT", "PUBLISHED", "DEAD_LETTER"}
      PROVE  Count(outbox', s, {q}) = Count(outbox, s, {q})
  <2>1. \A n \in 1..MaxPosition :
            outbox[<<s, n>>].state \in {q} <=> outbox'[<<s, n>>].state \in {q}
    BY DEF Events
  <2> QED BY <2>1, SameCount
<1>2. UNCHANGED <<recorded, confirmed, abandoned>>
  BY <1>1, ChannelState
<1> QED BY <1>2 DEF Channel!vars, recorded, confirmed, abandoned

OnlyRow(s, n) == \A f \in Events \ {<<s, n>>} : outbox'[f] = outbox[f]

LEMMA OneRow ==
    ASSUME NEW s \in Streams, NEW n \in 1..MaxPosition, OnlyRow(s, n), NEW q
    PROVE  /\ \A t \in Streams \ {s} : Count(outbox', t, {q}) = Count(outbox, t, {q})
           /\ (outbox[<<s, n>>].state = q <=> outbox'[<<s, n>>].state = q) =>
                  Count(outbox', s, {q}) = Count(outbox, s, {q})
           /\ outbox[<<s, n>>].state # q /\ outbox'[<<s, n>>].state = q =>
                  Count(outbox', s, {q}) = Count(outbox, s, {q}) + 1
           /\ outbox[<<s, n>>].state = q /\ outbox'[<<s, n>>].state # q =>
                  Count(outbox, s, {q}) = Count(outbox', s, {q}) + 1
<1>1. ASSUME NEW t \in Streams \ {s} PROVE Count(outbox', t, {q}) = Count(outbox, t, {q})
  <2>1. \A m \in 1..MaxPosition : outbox'[<<t, m>>] = outbox[<<t, m>>]
    BY DEF Events, OnlyRow
  <2>2. \A m \in 1..MaxPosition :
            outbox[<<t, m>>].state \in {q} <=> outbox'[<<t, m>>].state \in {q}
    BY <2>1
  <2> QED BY <2>2, SameCount
<1>2. \A m \in (1..MaxPosition) \ {n} : outbox'[<<s, m>>] = outbox[<<s, m>>]
  BY DEF Events, OnlyRow
<1>3. \A m \in (1..MaxPosition) \ {n} :
          outbox[<<s, m>>].state \in {q} <=> outbox'[<<s, m>>].state \in {q}
  BY <1>2
<1>4. ASSUME outbox[<<s, n>>].state = q <=> outbox'[<<s, n>>].state = q
      PROVE  Count(outbox', s, {q}) = Count(outbox, s, {q})
  <2>1. \A m \in 1..MaxPosition :
            outbox[<<s, m>>].state \in {q} <=> outbox'[<<s, m>>].state \in {q}
    BY <1>3, <1>4
  <2> QED BY <2>1, SameCount
<1>5. ASSUME outbox[<<s, n>>].state # q, outbox'[<<s, n>>].state = q
      PROVE  Count(outbox', s, {q}) = Count(outbox, s, {q}) + 1
  <2>1. outbox[<<s, n>>].state \notin {q} /\ outbox'[<<s, n>>].state \in {q}
    BY <1>5
  <2> QED BY <1>3, <2>1, OneMore
<1>6. ASSUME outbox[<<s, n>>].state = q, outbox'[<<s, n>>].state # q
      PROVE  Count(outbox, s, {q}) = Count(outbox', s, {q}) + 1
  <2>1. outbox'[<<s, n>>].state \notin {q} /\ outbox[<<s, n>>].state \in {q}
    BY <1>6
  <2> QED BY <1>3, <2>1, OneMore
<1> QED BY <1>1, <1>4, <1>5, <1>6

\* What each stream counts, by what the row does.
LEMMA RowOfAnother ==
    ASSUME NEW s \in Streams, NEW n \in 1..MaxPosition, OnlyRow(s, n), NEW q,
           NEW t \in Streams \ {s}
    PROVE  Count(outbox', t, {q}) = Count(outbox, t, {q})
BY OneRow

LEMMA RowStays ==
    ASSUME NEW s \in Streams, NEW n \in 1..MaxPosition, OnlyRow(s, n), NEW q,
           outbox[<<s, n>>].state = q <=> outbox'[<<s, n>>].state = q,
           NEW t \in Streams
    PROVE  Count(outbox', t, {q}) = Count(outbox, t, {q})
<1>1. CASE t = s
  BY <1>1, OneRow
<1>2. CASE t # s
  BY <1>2, RowOfAnother
<1> QED BY <1>1, <1>2

LEMMA RowEnters ==
    ASSUME NEW s \in Streams, NEW n \in 1..MaxPosition, OnlyRow(s, n), NEW q,
           outbox[<<s, n>>].state # q, outbox'[<<s, n>>].state = q
    PROVE  Count(outbox', s, {q}) = Count(outbox, s, {q}) + 1
BY OneRow

\* Appending an event records it.
LEMMA AppendRecords == ASSUME Inv, NEW s \in Streams, AppendEvent(s) PROVE Channel!Next
<1> DEFINE row == [AbsentRow EXCEPT !.state = "PENDING",
                                    !.occurredAt = ProducerNow, !.dueAt = ProducerNow]
<1>1. PICK n \in 1..MaxPosition :
          outbox[<<s, n>>].state = "ABSENT" /\ outbox' = [outbox EXCEPT ![<<s, n>>] = row]
  BY DEF AppendEvent
<1>2. outbox \in [Events -> Row] /\ <<s, n>> \in Events /\ applied' = applied
  BY DEF Inv, TypeOK, Events, AppendEvent
<1>3. row.state = "PENDING"
  BY DEF AbsentRow
<1> HIDE DEF row
<1>4. outbox'[<<s, n>>] = row /\ OnlyRow(s, n)
  BY <1>1, <1>2 DEF OnlyRow
<1>5. /\ \A t \in Streams \ {s} : Count(outbox', t, {"ABSENT"}) = Count(outbox, t, {"ABSENT"})
      /\ Count(outbox, s, {"ABSENT"}) = Count(outbox', s, {"ABSENT"}) + 1
  BY <1>1, <1>3, <1>4, OneRow
<1>6. \A q \in {"PUBLISHED", "DEAD_LETTER"} :
          \A t \in Streams : Count(outbox', t, {q}) = Count(outbox, t, {q})
  <2>1. /\ outbox[<<s, n>>].state \notin {"PUBLISHED", "DEAD_LETTER"}
        /\ outbox'[<<s, n>>].state \notin {"PUBLISHED", "DEAD_LETTER"}
    BY <1>1, <1>3, <1>4
  <2>2. ASSUME NEW q \in {"PUBLISHED", "DEAD_LETTER"}, NEW t \in Streams
        PROVE  Count(outbox', t, {q}) = Count(outbox, t, {q})
    <3>1. outbox[<<s, n>>].state = q <=> outbox'[<<s, n>>].state = q
      BY <2>1
    <3> QED BY <1>4, <3>1, RowStays
  <2> QED BY <2>2
<1>7. UNCHANGED <<applied, confirmed, abandoned>>
  BY <1>2, <1>6, ChannelState
<1>8. /\ Count(outbox, s, {"ABSENT"}) \in Nat /\ Count(outbox', s, {"ABSENT"}) \in Nat
      /\ MaxPosition \in Nat
  BY CountTypes, Config
<1>9. recorded[s] < MaxPosition
  BY <1>5, <1>8, ChannelState
<1>10. recorded' = [recorded EXCEPT ![s] = @ + 1]
  <2>1. \A t \in Streams \ {s} : recorded'[t] = recorded[t]
    BY <1>5, ChannelState
  <2>2. recorded'[s] = recorded[s] + 1
    BY <1>5, <1>8, ChannelState
  <2>3. recorded' = [t \in Streams |-> recorded'[t]] /\ recorded = [t \in Streams |-> recorded[t]]
    BY ChannelState
  <2> QED BY <2>1, <2>2, <2>3
<1> QED BY <1>7, <1>9, <1>10, ChannelSteps

\* The end of a delivery confirms the event, abandons the stream or does
\* nothing that the channel sees.
LEMMA SettleConfirms ==
    ASSUME Inv, InOrder, NEW w \in Workers, Settle(w)
    PROVE  Channel!Next \/ UNCHANGED Channel!vars
<1>1. CASE UNCHANGED outbox
  <2>1. applied' = applied
    BY SettledRow
  <2> QED BY <1>1, <2>1, QuietStep
<1>2. CASE ~UNCHANGED outbox
  <2>1. PICK e \in Events :
            /\ outbox[e].state = "PROCESSING"
            /\ outbox'[e].state \in {"PENDING", "PUBLISHED", "DEAD_LETTER"}
            /\ outbox'[e].state = "PUBLISHED" => Effective(e, applied)
            /\ \A f \in Events \ {e} : outbox'[f] = outbox[f]
    BY <1>2, SettledRow
  <2>2. PICK s \in Streams, n \in 1..MaxPosition : e = <<s, n>>
    BY DEF Events
  <2>o. OnlyRow(s, n) /\ outbox[<<s, n>>].state = "PROCESSING"
    BY <2>1, <2>2 DEF OnlyRow
  <2>3. UNCHANGED applied
    BY SettledRow
  <2> DEFINE c == Count(outbox, s, {"PUBLISHED"})
             L == Len(applied[s])
  <2>4. c \in Nat /\ c < n /\ n \in Nat
    <3>1. c \in Nat /\ At(outbox, s, {"PUBLISHED"}) = 1..c
      BY Published
    <3>2. n \notin At(outbox, s, {"PUBLISHED"})
      BY <2>1, <2>2 DEF At
    <3> QED BY <3>1, <3>2
  <2>5. c < recorded[s]
    <3>1. n <= MaxPosition - Count(outbox, s, {"ABSENT"})
      BY <2>1, <2>2, RecordedUpTo
    <3>2. Count(outbox, s, {"ABSENT"}) \in Nat /\ MaxPosition \in Nat
      BY CountTypes, Config
    <3> HIDE DEF c
    <3>3. c < MaxPosition - Count(outbox, s, {"ABSENT"})
      BY <2>4, <3>1, <3>2
    <3> QED BY <3>3, ChannelState
  <2>6. confirmed[s] = c
    BY ChannelState
  <2>7. recorded' = recorded
    <3>1. \A t \in Streams : Count(outbox', t, {"ABSENT"}) = Count(outbox, t, {"ABSENT"})
      <4>1. outbox[<<s, n>>].state = "ABSENT" <=> outbox'[<<s, n>>].state = "ABSENT"
        BY <2>1, <2>2
      <4> HIDE DEF c, L
      <4> QED BY <2>o, <4>1, RowStays
    <3> QED BY <3>1, ChannelState
  <2>8. CASE outbox'[e].state = "PENDING"
    <3>1. \A f \in Events : \A q \in {"ABSENT", "PUBLISHED", "DEAD_LETTER"} :
              outbox[f].state = q <=> outbox'[f].state = q
      BY <2>1, <2>8
    <3> QED BY <2>3, <3>1, QuietStep
  <2>9. CASE outbox'[e].state = "DEAD_LETTER"
    <3>1. \A t \in Streams : Count(outbox', t, {"PUBLISHED"}) = Count(outbox, t, {"PUBLISHED"})
      <4>1. outbox[<<s, n>>].state = "PUBLISHED" <=> outbox'[<<s, n>>].state = "PUBLISHED"
        BY <2>o, <2>2, <2>9
      <4> HIDE DEF c, L
      <4> QED BY <2>o, <4>1, RowStays
    <3>2. confirmed' = confirmed
      BY <3>1, ChannelState
    <3>3. /\ \A t \in Streams \ {s} : Count(outbox', t, {"DEAD_LETTER"}) = Count(outbox, t, {"DEAD_LETTER"})
          /\ Count(outbox', s, {"DEAD_LETTER"}) = Count(outbox, s, {"DEAD_LETTER"}) + 1
      <4>1. outbox[<<s, n>>].state # "DEAD_LETTER" /\ outbox'[<<s, n>>].state = "DEAD_LETTER"
        BY <2>o, <2>2, <2>9
      <4> HIDE DEF c, L
      <4>2. \A t \in Streams \ {s} : Count(outbox', t, {"DEAD_LETTER"}) = Count(outbox, t, {"DEAD_LETTER"})
        BY <2>o, RowOfAnother
      <4>3. Count(outbox', s, {"DEAD_LETTER"}) = Count(outbox, s, {"DEAD_LETTER"}) + 1
        BY <2>o, <4>1, RowEnters
      <4> QED BY <4>2, <4>3
    <3>4. Count(outbox', s, {"DEAD_LETTER"}) > 0
      BY <3>3, CountTypes
    <3>5. abandoned' = abandoned \cup {s}
      BY <3>3, <3>4, ChannelState
    <3> QED BY <2>3, <2>5, <2>6, <2>7, <3>2, <3>5, ChannelSteps
  <2>10. CASE outbox'[e].state = "PUBLISHED"
    <3>1. /\ \A t \in Streams \ {s} : Count(outbox', t, {"PUBLISHED"}) = Count(outbox, t, {"PUBLISHED"})
          /\ Count(outbox', s, {"PUBLISHED"}) = Count(outbox, s, {"PUBLISHED"}) + 1
      <4>1. outbox[<<s, n>>].state # "PUBLISHED" /\ outbox'[<<s, n>>].state = "PUBLISHED"
        BY <2>o, <2>2, <2>10
      <4> HIDE DEF c, L
      <4>2. \A t \in Streams \ {s} : Count(outbox', t, {"PUBLISHED"}) = Count(outbox, t, {"PUBLISHED"})
        BY <2>o, RowOfAnother
      <4>3. Count(outbox', s, {"PUBLISHED"}) = Count(outbox, s, {"PUBLISHED"}) + 1
        BY <2>o, <4>1, RowEnters
      <4> QED BY <4>2, <4>3
    <3>2. confirmed' = [confirmed EXCEPT ![s] = @ + 1]
      <4>1. \A t \in Streams \ {s} : confirmed'[t] = confirmed[t]
        BY <3>1, ChannelState
      <4>2. confirmed'[s] = confirmed[s] + 1
        BY <3>1, ChannelState
      <4>3. confirmed' = [t \in Streams |-> confirmed'[t]] /\ confirmed = [t \in Streams |-> confirmed[t]]
        BY ChannelState
      <4> QED BY <4>1, <4>2, <4>3
    <3>3. \A t \in Streams : Count(outbox', t, {"DEAD_LETTER"}) = Count(outbox, t, {"DEAD_LETTER"})
      <4>1. outbox[<<s, n>>].state = "DEAD_LETTER" <=> outbox'[<<s, n>>].state = "DEAD_LETTER"
        BY <2>o, <2>2, <2>10
      <4> HIDE DEF c, L
      <4> QED BY <2>o, <4>1, RowStays
    <3>4. abandoned' = abandoned
      BY <3>3, ChannelState
    <3>5. confirmed[s] < L
      <4>1. n \in 1..L
        BY <2>1, <2>2, <2>10 DEF Effective
      <4>2. L \in Nat
        BY AppliedTypes DEF Inv
      <4> HIDE DEF c, L
      <4> QED BY <2>4, <2>6, <4>1, <4>2
    <3>6. \A m \in 1..MaxPosition : outbox[<<s, m>>].state # "DEAD_LETTER"
      <4>1. ASSUME NEW m \in 1..MaxPosition, outbox[<<s, m>>].state = "DEAD_LETTER" PROVE FALSE
        <5>1. <<s, m>> \in Events /\ e \in Events
          BY <2>2 DEF Events
        <5>2. Unblocked(<<s, m>>) /\ Unblocked(e)
          BY <2>1, <4>1, <5>1 DEF InOrder, RowsInOrder
        <5>3. CASE m < n
          <6>1. <<s, m>> \in Predecessors(e)
            BY <2>2, <5>1, <5>3 DEF Predecessors
          <6> QED BY <4>1, <5>2, <6>1 DEF Unblocked
        <5>4. CASE n < m
          <6>1. e \in Predecessors(<<s, m>>)
            BY <2>2, <5>1, <5>4 DEF Predecessors
          <6> QED BY <2>1, <5>2, <6>1 DEF Unblocked
        <5>5. CASE m = n
          BY <2>1, <2>2, <4>1, <5>5
        <5>6. m < n \/ n < m \/ m = n
          BY Config
        <5> QED BY <5>3, <5>4, <5>5, <5>6
      <4> QED BY <4>1
    <3>7. s \notin abandoned
      <4>1. Count(outbox, s, {"DEAD_LETTER"}) = 0
        BY <3>6, NoneOf
      <4> QED BY <4>1, ChannelState
    <3> QED BY <2>3, <2>7, <3>2, <3>4, <3>5, <3>7, ChannelSteps
  <2> QED BY <2>1, <2>8, <2>9, <2>10
<1> QED BY <1>1, <1>2

\* A call that is received for the first time delivers the next event.
LEMMA ReceiveDelivers ==
    ASSUME Inv, InOrder, NEW call \in calls, Receive(call)
    PROVE  Channel!Next \/ UNCHANGED Channel!vars
<1> DEFINE s == call[1][1]
           n == call[1][2]
           c == Count(outbox, s, {"PUBLISHED"})
           L == Len(applied[s])
<1>1. TypeOK /\ UNCHANGED outbox
  BY DEF Inv, Receive
<1>2. s \in Streams /\ n \in 1..MaxPosition /\ call[1] = <<s, n>> /\ <<s, n>> \in Events
  BY <1>1 DEF TypeOK, Events
<1>3. applied' = IF n \in Range(applied[s]) THEN applied
                 ELSE [applied EXCEPT ![s] = Append(@, n)]
  BY DEF Receive
<1>4. Started(<<s, n>>)
  BY <1>2 DEF InOrder
<1> HIDE DEF s, n
<1>5. CASE n \in Range(applied[s])
  <2>1. UNCHANGED applied
    BY <1>3, <1>5
  <2> QED BY <1>1, <2>1, QuietStep
<1>6. CASE n \notin Range(applied[s])
  <2>1. L = n - 1
    BY <1>2, <1>4, <1>6, NextEffect
  <2>2. c = n - 1
    <3>1. c \in Nat /\ c <= L /\ At(outbox, s, {"PUBLISHED"}) = 1..c
      BY <1>2, Published
    <3>2. ASSUME n # 1 PROVE n - 1 \in 1..c
      <4>1. n - 1 \in 1..MaxPosition /\ n - 1 < n
        BY <1>2, <3>2, Config
      <4>2. <<s, n - 1>> \in Predecessors(<<s, n>>)
        BY <1>2, <4>1 DEF Predecessors, Events
      <4>3. outbox[<<s, n - 1>>].state = "PUBLISHED"
        BY <1>2, <1>4, <4>2 DEF InOrder, RowsInOrder, Unblocked
      <4> QED BY <3>1, <4>1, <4>3 DEF At
    <3> HIDE DEF c, L
    <3>3. n \in Nat /\ n >= 1
      BY <1>2
    <3> QED BY <2>1, <3>1, <3>2, <3>3
  <2>3. outbox[<<s, n>>].state # "ABSENT"
    <3>1. RowSound(outbox[<<s, n>>])
      BY <1>2 DEF Inv, ClaimsKnown
    <3> QED BY <1>4, <3>1 DEF Started, RowSound
  <2>4. confirmed[s] = c /\ c < recorded[s]
    <3>1. n <= MaxPosition - Count(outbox, s, {"ABSENT"})
      BY <1>2, <2>3, RecordedUpTo
    <3>2. Count(outbox, s, {"ABSENT"}) \in Nat /\ MaxPosition \in Nat /\ n \in Nat
      BY <1>2, CountTypes, Config
    <3>3. recorded[s] = MaxPosition - Count(outbox, s, {"ABSENT"}) /\ confirmed[s] = c
      BY <1>2, ChannelState
    <3> HIDE DEF c
    <3> QED BY <2>2, <3>1, <3>2, <3>3
  <2>5. applied' = [applied EXCEPT ![s] = Append(@, confirmed[s] + 1)]
    <3>1. n = confirmed[s] + 1
      <4>1. n \in Nat
        BY <1>2
      <4> HIDE DEF c
      <4> QED BY <2>2, <2>4, <4>1
    <3> QED BY <1>3, <1>6, <3>1
  <2>6. UNCHANGED <<recorded, confirmed, abandoned>>
    BY <1>1, ChannelState
  <2>7. Len(applied[s]) = confirmed[s]
    BY <2>1, <2>2, <2>4
  <2> QED BY <1>2, <2>4, <2>5, <2>6, <2>7, ChannelSteps
<1> QED BY <1>5, <1>6

\* Every other step is none of the channel.
LEMMA ChannelNext ==
    ASSUME Inv, InOrder, [Next]_vars
    PROVE  [Channel!Next]_(Channel!vars)
<1>1. ASSUME UNCHANGED <<outbox, applied>> PROVE UNCHANGED Channel!vars
  BY <1>1, QuietStep
<1>2. ASSUME NEW s \in Streams, AppendEvent(s) PROVE Channel!Next
  BY <1>2, AppendRecords
<1>3. ASSUME NEW w \in Workers, Run(w) PROVE Channel!Next \/ UNCHANGED Channel!vars
  <2>1. CASE \/ BeginCycle(w) \/ FinishBatch(w) \/ SkipExpired(w) \/ StartPublish(w)
             \/ PutAway(w) \/ PublishSucceeds(w) \/ PublishFails(w) \/ Stop(w)
    <3>1. UNCHANGED <<outbox, applied>>
      BY <2>1 DEF BeginCycle, FinishBatch, SkipExpired, StartPublish, PutAway,
                  PublishSucceeds, PublishFails, Stop
    <3> QED BY <1>1, <3>1
  <2>2. CASE ClaimDue(w)
    <3>1. \A e \in Events : \A q \in {"ABSENT", "PUBLISHED", "DEAD_LETTER"} :
              outbox[e].state = q <=> outbox'[e].state = q
      BY <2>2, ClaimRows
    <3>2. UNCHANGED applied
      BY <2>2, ClaimRows
    <3> QED BY <3>1, <3>2, QuietStep
  <2>3. CASE Settle(w)
    BY <2>3, SettleConfirms
  <2> QED BY <1>3, <2>1, <2>2, <2>3 DEF Run
<1>4. ASSUME NEW w \in Workers, Shutdown(w) \/ Crash(w) \/ Restart(w)
      PROVE  UNCHANGED Channel!vars
  <2>1. UNCHANGED <<outbox, applied>>
    BY <1>4 DEF Shutdown, Crash, Restart
  <2> QED BY <1>1, <2>1
<1>5. ASSUME NEW call \in calls, Receive(call) PROVE Channel!Next \/ UNCHANGED Channel!vars
  BY <1>5, ReceiveDelivers
<1>6. CASE Tick \/ UNCHANGED vars
  <2>1. UNCHANGED <<outbox, applied>>
    BY <1>6 DEF Tick, vars
  <2> QED BY <1>1, <2>1
<1> QED BY <1>2, <1>3, <1>4, <1>5, <1>6 DEF Next

LEMMA ChannelInit == Init => Channel!Init
<1> SUFFICES ASSUME Init PROVE Channel!Init
  OBVIOUS
<1>1. applied = [s \in Streams |-> <<>>]
      /\ \A s \in Streams : \A n \in 1..MaxPosition : outbox[<<s, n>>].state = "ABSENT"
  BY DEF Init, Events, AbsentRow
<1>2. ASSUME NEW s \in Streams
      PROVE  /\ Count(outbox, s, {"PUBLISHED"}) = 0 /\ Count(outbox, s, {"DEAD_LETTER"}) = 0
             /\ Count(outbox, s, {"ABSENT"}) = MaxPosition
  <2>1. \A n \in 1..MaxPosition : /\ outbox[<<s, n>>].state \notin {"PUBLISHED"}
                                  /\ outbox[<<s, n>>].state \notin {"DEAD_LETTER"}
    BY <1>1
  <2>2. At(outbox, s, {"ABSENT"}) = 1..MaxPosition
    BY <1>1 DEF At
  <2>3. Cardinality(1..MaxPosition) = MaxPosition
    BY Config, FS_Interval
  <2> QED BY <2>1, <2>2, <2>3, NoneOf DEF Count
<1>3. recorded = [s \in Streams |-> 0] /\ confirmed = [s \in Streams |-> 0] /\ abandoned = {}
  BY <1>2, ChannelState, Config
<1> QED BY <1>1, <1>3 DEF Channel!Init, recorded, confirmed, abandoned

\* Whatever workers crash, leases lapse and calls arrive late, each stream is a
\* stop-and-wait channel: its events take effect in order and once each, the
\* next only after the one before it is known to be delivered, and none after
\* a dead letter (ClaimDue's predecessor condition, the token of the settling
\* statements, the consumer's deduplication).
THEOREM StreamsStopAndWait == Spec => StopAndWaitChannel
<1>1. Spec => Channel!Init /\ [][Channel!Next]_(Channel!vars)
  BY ChannelInit, ChannelNext, InOrderHolds, PTL DEF Spec
<1> QED BY <1>1 DEF StopAndWaitChannel, Channel!Spec

-----------------------------------------------------------------------------
(* The cap on a retry delay *)

\* What the loop leaves in `cap` turn by turn.
CapTurns(f, base, max, turns) ==
    f = [n \in 1..turns |-> IF n = 1 THEN base ELSE NextCap(f[n - 1], max)]

LEMMA WrappedIsExact == ASSUME NEW n \in 0..TopDuration PROVE Wrapped(n) = n
<1> DEFINE m == 2 * (TopDuration + 1)
<1>1. m \in Nat \ {0} /\ n \in Nat /\ n < m /\ n <= TopDuration
  BY DurationAssumption
<1> HIDE DEF m
<1>2. n % m = n
  BY <1>1
<1>3. n % (2 * (TopDuration + 1)) = n
  BY <1>2, Zenon DEF m
<1>4. ~(n > TopDuration)
  BY <1>1, DurationAssumption
<1> QED BY <1>3, <1>4, Zenon DEF Wrapped

LEMMA NextCapIsDouble ==
    ASSUME NEW max \in 1..TopDuration, NEW cap \in 1..max
    PROVE  NextCap(cap, max) = Lesser(2 * cap, max) /\ NextCap(cap, max) \in cap..max
<1>1. max \in Nat /\ cap \in Nat /\ cap <= max /\ 1 <= cap /\ max <= TopDuration
  BY DurationAssumption
<1>2. CASE cap >= max
  BY <1>1, <1>2 DEF NextCap, Lesser
<1>3. CASE cap < max /\ cap > max \div 2
  BY <1>1, <1>3 DEF NextCap, Lesser
<1>4. CASE cap < max /\ ~(cap > max \div 2)
  <2>1. 2 * cap <= max /\ cap * 2 = 2 * cap /\ cap * 2 \in 0..TopDuration
    <3>1. max \div 2 \in Int /\ 2 * (max \div 2) <= max
      BY <1>1
    <3>2. cap <= max \div 2
      BY <1>1, <1>4, <3>1
    <3>3. cap * 2 = 2 * cap /\ cap * 2 \in Nat
      BY <1>1
    <3> QED BY <1>1, <3>1, <3>2, <3>3, DurationAssumption
  <2>2. NextCap(cap, max) = cap * 2
    BY <1>4, <2>1, WrappedIsExact DEF NextCap
  <2> QED BY <1>1, <2>1, <2>2 DEF Lesser
<1> QED BY <1>1, <1>2, <1>3, <1>4

\* Induction, as a set of numbers that holds 0 and is closed under + 1.
LEMMA CountedUp ==
    ASSUME NEW T, 0 \in T, \A n \in Nat : n \in T => n + 1 \in T
    PROVE  Nat \subseteq T
<1> DEFINE U == Nat \ T
           R == OpToRel(<, Nat)
<1>1. IsWellFoundedOn(R, Nat)
  BY NatLessThanWellFounded, Zenon
<1>2. \A m, n \in Nat : n < m => <<n, m>> \in R
  BY DEF OpToRel
<1> HIDE DEF R
<1>3. ASSUME U # {} PROVE FALSE
  <2>1. U \subseteq Nat
    OBVIOUS
  <2>2. PICK m \in U : \A n \in U : ~(<<n, m>> \in R)
    <3> HIDE DEF U
    <3> QED BY <1>1, <1>3, <2>1, WFMin
  <2>3. m \in Nat /\ m # 0 /\ m \notin T
    OBVIOUS
  <2>4. m - 1 \in Nat /\ m - 1 < m /\ (m - 1) + 1 = m
    BY <2>3
  <2>5. m - 1 \in T
    BY <1>2, <2>2, <2>3, <2>4
  <2> QED BY <2>3, <2>4, <2>5
<1> QED BY <1>3

LEMMA CapTurnsExist ==
    ASSUME NEW base, NEW max, NEW turns \in Nat \ {0}
    PROVE  \E f : CapTurns(f, base, max, turns)
<1> DEFINE T == {n \in Nat : \E f : CapTurns(f, base, max, n + 1)}
<1>1. 0 \in T
  <2>1. CapTurns([n \in 1..1 |-> base], base, max, 0 + 1)
    BY DEF CapTurns
  <2> QED BY <2>1
<1>2. ASSUME NEW n \in Nat, n \in T PROVE n + 1 \in T
  <2>1. PICK f : CapTurns(f, base, max, n + 1)
    BY <1>2
  <2> DEFINE g == [i \in 1..((n + 1) + 1) |-> IF i = (n + 1) + 1 THEN NextCap(f[n + 1], max) ELSE f[i]]
  <2>2. \A i \in 1..((n + 1) + 1) : i # (n + 1) + 1 => i \in 1..(n + 1)
    OBVIOUS
  <2>3. \A i \in 1..(n + 1) : f[i] = IF i = 1 THEN base ELSE NextCap(f[i - 1], max)
    <3> HIDE DEF NextCap
    <3> QED BY <2>1 DEF CapTurns
  <2>4. ASSUME NEW i \in 1..((n + 1) + 1)
        PROVE  g[i] = IF i = 1 THEN base ELSE NextCap(g[i - 1], max)
    <3>1. CASE i = (n + 1) + 1
      <4>1. g[i] = NextCap(f[n + 1], max) /\ i # 1
        BY <3>1
      <4>2. i - 1 = n + 1 /\ n + 1 \in 1..((n + 1) + 1) /\ n + 1 # (n + 1) + 1
        BY <3>1
      <4>3. g[i - 1] = f[n + 1]
        BY <4>2
      <4> HIDE DEF g
      <4> QED BY <4>1, <4>3
    <3>2. CASE i # (n + 1) + 1
      <4>1. i \in 1..(n + 1) /\ g[i] = f[i]
        BY <2>2, <3>2
      <4>2. i # 1 => i - 1 \in 1..((n + 1) + 1) /\ i - 1 # (n + 1) + 1
        BY <4>1
      <4>3. i # 1 => g[i - 1] = f[i - 1]
        BY <4>2
      <4> HIDE DEF g
      <4> QED BY <2>3, <4>1, <4>3
    <3> QED BY <3>1, <3>2
  <2>5. g = [i \in 1..((n + 1) + 1) |-> IF i = 1 THEN base ELSE NextCap(g[i - 1], max)]
    <3>1. g = [i \in 1..((n + 1) + 1) |-> g[i]]
      OBVIOUS
    <3> HIDE DEF g
    <3> QED BY <2>4, <3>1
  <2> HIDE DEF g
  <2>6. CapTurns(g, base, max, (n + 1) + 1)
    BY <2>5 DEF CapTurns
  <2> QED BY <2>6
<1> HIDE DEF T
<1>3. turns - 1 \in T
  BY <1>1, <1>2, CountedUp
<1>4. (turns - 1) + 1 = turns
  OBVIOUS
<1> QED BY <1>3, <1>4 DEF T

LEMMA RetryCapTurns ==
    ASSUME NEW base, NEW max, NEW attempt \in Nat \ {0}
    PROVE  \E f : CapTurns(f, base, max, attempt) /\ RetryCap(base, max, attempt) = f[attempt]
<1> DEFINE cap == CHOOSE f : CapTurns(f, base, max, attempt)
<1>1. CapTurns(cap, base, max, attempt)
  BY CapTurnsExist, Zenon
<1>2. RetryCap(base, max, attempt) = cap[attempt]
  BY Zenon DEF RetryCap, CapTurns
<1> QED BY <1>1, <1>2

LEMMA TurnByTurn ==
    ASSUME NEW base, NEW max, NEW turns \in Nat \ {0}, NEW f, CapTurns(f, base, max, turns)
    PROVE  /\ f[1] = base
           /\ \A n \in Nat \ {0} : n + 1 <= turns => f[n + 1] = NextCap(f[n], max)
<1> HIDE DEF NextCap
<1>1. \A i \in 1..turns : f[i] = IF i = 1 THEN base ELSE NextCap(f[i - 1], max)
  BY DEF CapTurns
<1>2. f[1] = base
  BY <1>1
<1>3. ASSUME NEW n \in Nat \ {0}, n + 1 <= turns PROVE f[n + 1] = NextCap(f[n], max)
  <2>1. n + 1 \in 1..turns /\ n + 1 # 1 /\ (n + 1) - 1 = n
    BY <1>3
  <2> QED BY <1>1, <2>1
<1> QED BY <1>2, <1>3

\* However many turns there are, the first ones are the same, and stay
\* between the base and the maximum.
LEMMA SameTurns ==
    ASSUME NEW max \in 1..TopDuration, NEW base \in 1..max,
           NEW k \in Nat \ {0}, NEW l \in Nat \ {0}, k <= l,
           NEW f, NEW g, CapTurns(f, base, max, k), CapTurns(g, base, max, l)
    PROVE  f[k] = g[k] /\ f[k] \in base..max
<1> DEFINE T == {n \in Nat : n + 1 <= k => f[n + 1] = g[n + 1] /\ f[n + 1] \in base..max}
<1>1. max \in Nat /\ base \in Nat /\ 1 <= base /\ base <= max
  BY DurationAssumption
<1>2. f[1] = base /\ \A n \in Nat \ {0} : n + 1 <= k => f[n + 1] = NextCap(f[n], max)
  BY TurnByTurn
<1>3. g[1] = base /\ \A n \in Nat \ {0} : n + 1 <= l => g[n + 1] = NextCap(g[n], max)
  BY TurnByTurn
<1>4. 0 \in T
  BY <1>1, <1>2, <1>3
<1>5. ASSUME NEW n \in Nat, n \in T PROVE n + 1 \in T
  <2> SUFFICES ASSUME (n + 1) + 1 <= k
               PROVE  f[(n + 1) + 1] = g[(n + 1) + 1] /\ f[(n + 1) + 1] \in base..max
    OBVIOUS
  <2>1. n + 1 <= k /\ n + 1 \in Nat \ {0} /\ (n + 1) + 1 <= l
    OBVIOUS
  <2>2. f[n + 1] = g[n + 1] /\ f[n + 1] \in base..max
    BY <1>5, <2>1
  <2>3. f[(n + 1) + 1] = NextCap(f[n + 1], max) /\ g[(n + 1) + 1] = NextCap(g[n + 1], max)
    BY <1>2, <1>3, <2>1
  <2>4. f[n + 1] \in 1..max
    BY <1>1, <2>2
  <2>5. NextCap(f[n + 1], max) \in f[n + 1]..max
    BY <2>4, NextCapIsDouble
  <2>6. NextCap(f[n + 1], max) \in base..max
    BY <1>1, <2>2, <2>5
  <2> QED BY <2>2, <2>3, <2>6
<1> HIDE DEF T
<1>6. k - 1 \in T /\ (k - 1) + 1 = k
  BY <1>4, <1>5, CountedUp
<1>7. (k - 1) + 1 <= k => f[(k - 1) + 1] = g[(k - 1) + 1] /\ f[(k - 1) + 1] \in base..max
  BY <1>6 DEF T
<1> QED BY <1>6, <1>7

\* On a machine word of any width, with any configuration that Validate lets
\* through, retryCap starts at the base, doubles with every attempt until it
\* meets the maximum, and never leaves what lies between them: no overflow.
THEOREM RetryCapDoubles ==
    ASSUME NEW max \in 1..TopDuration, NEW base \in 1..max, NEW attempt \in Nat \ {0}
    PROVE  /\ RetryCap(base, max, 1) = base
           /\ RetryCap(base, max, attempt) \in base..max
           /\ RetryCap(base, max, attempt + 1) = Lesser(2 * RetryCap(base, max, attempt), max)
<1>1. RetryCap(base, max, 1) = base
  <2>1. PICK f : CapTurns(f, base, max, 1) /\ RetryCap(base, max, 1) = f[1]
    BY RetryCapTurns
  <2> QED BY <2>1, TurnByTurn
<1>2. PICK f : CapTurns(f, base, max, attempt) /\ RetryCap(base, max, attempt) = f[attempt]
  BY RetryCapTurns
<1>3. PICK g : CapTurns(g, base, max, attempt + 1) /\ RetryCap(base, max, attempt + 1) = g[attempt + 1]
  BY RetryCapTurns
<1>4. f[attempt] = g[attempt] /\ f[attempt] \in base..max
  BY <1>2, <1>3, SameTurns
<1>5. g[attempt + 1] = NextCap(g[attempt], max)
  BY <1>3, TurnByTurn
<1>6. g[attempt] \in 1..max
  BY <1>4, DurationAssumption
<1>7. NextCap(g[attempt], max) = Lesser(2 * g[attempt], max)
  BY <1>6, NextCapIsDouble
<1> QED BY <1>1, <1>2, <1>3, <1>4, <1>5, <1>7

-----------------------------------------------------------------------------
(* The closed form of the cap *)

DoubledTurns(f, base, turns) ==
    f = [n \in 1..turns |-> IF n = 1 THEN base ELSE 2 * f[n - 1]]

LEMMA DoubledTurnsExist ==
    ASSUME NEW base, NEW turns \in Nat \ {0}
    PROVE  \E f : DoubledTurns(f, base, turns)
<1> DEFINE T == {n \in Nat : \E f : DoubledTurns(f, base, n + 1)}
<1>1. 0 \in T
  <2>1. DoubledTurns([n \in 1..1 |-> base], base, 0 + 1)
    BY DEF DoubledTurns
  <2> QED BY <2>1
<1>2. ASSUME NEW n \in Nat, n \in T PROVE n + 1 \in T
  <2>1. PICK f : DoubledTurns(f, base, n + 1)
    BY <1>2
  <2> DEFINE g == [i \in 1..((n + 1) + 1) |-> IF i = (n + 1) + 1 THEN 2 * f[n + 1] ELSE f[i]]
  <2>2. \A i \in 1..((n + 1) + 1) : i # (n + 1) + 1 => i \in 1..(n + 1)
    OBVIOUS
  <2>3. \A i \in 1..(n + 1) : f[i] = IF i = 1 THEN base ELSE 2 * f[i - 1]
    BY <2>1 DEF DoubledTurns
  <2>4. ASSUME NEW i \in 1..((n + 1) + 1)
        PROVE  g[i] = IF i = 1 THEN base ELSE 2 * g[i - 1]
    <3>1. CASE i = (n + 1) + 1
      <4>1. g[i] = 2 * f[n + 1] /\ i # 1
        BY <3>1
      <4>2. i - 1 = n + 1 /\ n + 1 \in 1..((n + 1) + 1) /\ n + 1 # (n + 1) + 1
        BY <3>1
      <4>3. g[i - 1] = f[n + 1]
        BY <4>2
      <4> HIDE DEF g
      <4> QED BY <4>1, <4>3
    <3>2. CASE i # (n + 1) + 1
      <4>1. i \in 1..(n + 1) /\ g[i] = f[i]
        BY <2>2, <3>2
      <4>2. i # 1 => i - 1 \in 1..((n + 1) + 1) /\ i - 1 # (n + 1) + 1
        BY <4>1
      <4>3. i # 1 => g[i - 1] = f[i - 1]
        BY <4>2
      <4> HIDE DEF g
      <4> QED BY <2>3, <4>1, <4>3
    <3> QED BY <3>1, <3>2
  <2>5. g = [i \in 1..((n + 1) + 1) |-> IF i = 1 THEN base ELSE 2 * g[i - 1]]
    <3>1. g = [i \in 1..((n + 1) + 1) |-> g[i]]
      OBVIOUS
    <3> HIDE DEF g
    <3> QED BY <2>4, <3>1
  <2> HIDE DEF g
  <2>6. DoubledTurns(g, base, (n + 1) + 1)
    BY <2>5 DEF DoubledTurns
  <2> QED BY <2>6
<1> HIDE DEF T
<1>3. turns - 1 \in T
  BY <1>1, <1>2, CountedUp
<1>4. (turns - 1) + 1 = turns
  OBVIOUS
<1> QED BY <1>3, <1>4 DEF T

LEMMA DoubledIs ==
    ASSUME NEW base, NEW attempt \in Nat \ {0}
    PROVE  \E f : /\ DoubledTurns(f, base, attempt)
                  /\ Doubled(base, attempt) = f[attempt]
<1> DEFINE double == CHOOSE f : DoubledTurns(f, base, attempt)
<1>1. DoubledTurns(double, base, attempt)
  BY DoubledTurnsExist, Zenon
<1>2. Doubled(base, attempt) = double[attempt]
  BY Zenon DEF Doubled, DoubledTurns
<1> QED BY <1>1, <1>2

\* The loop stops at the maximum, and doubling what is capped and capping what
\* is doubled come to the same.
LEMMA LoopMeetsFormula ==
    ASSUME NEW max \in 1..TopDuration, NEW base \in 1..max, NEW attempt \in Nat \ {0}
    PROVE  RetryCap(base, max, attempt) = Capped(base, max, attempt)
<1>1. PICK f : CapTurns(f, base, max, attempt) /\ RetryCap(base, max, attempt) = f[attempt]
  BY RetryCapTurns
<1>2. PICK d : DoubledTurns(d, base, attempt) /\ Doubled(base, attempt) = d[attempt]
  BY DoubledIs
<1> DEFINE Meets(n) == /\ d[n] \in Nat /\ base <= d[n]
                       /\ f[n] = Lesser(d[n], max)
           T == {n \in Nat : n + 1 <= attempt => Meets(n + 1)}
<1>3. max \in Nat /\ base \in Nat /\ 1 <= base /\ base <= max
  BY DurationAssumption
<1>4. f[1] = base /\ \A n \in Nat \ {0} : n + 1 <= attempt => f[n + 1] = NextCap(f[n], max)
  BY <1>1, TurnByTurn
<1>5. \A i \in 1..attempt : d[i] = IF i = 1 THEN base ELSE 2 * d[i - 1]
  BY <1>2 DEF DoubledTurns
<1>6. d[1] = base /\ \A n \in Nat \ {0} : n + 1 <= attempt => d[n + 1] = 2 * d[n]
  <2>1. ASSUME NEW n \in Nat \ {0}, n + 1 <= attempt PROVE d[n + 1] = 2 * d[n]
    <3>1. n + 1 \in 1..attempt /\ n + 1 # 1 /\ (n + 1) - 1 = n
      BY <2>1
    <3> QED BY <1>5, <3>1
  <2>2. 1 \in 1..attempt
    OBVIOUS
  <2> QED BY <1>5, <2>1, <2>2
<1>7. 0 \in T
  <2>1. Meets(1)
    BY <1>3, <1>4, <1>6 DEF Lesser
  <2> HIDE DEF Meets
  <2> QED BY <2>1
<1>8. ASSUME NEW n \in Nat, n \in T PROVE n + 1 \in T
  <2> SUFFICES ASSUME (n + 1) + 1 <= attempt PROVE Meets((n + 1) + 1)
    OBVIOUS
  <2>1. n + 1 \in Nat \ {0} /\ n + 1 <= attempt
    OBVIOUS
  <2>2. Meets(n + 1)
    BY <1>8, <2>1
  <2>3. f[(n + 1) + 1] = NextCap(f[n + 1], max) /\ d[(n + 1) + 1] = 2 * d[n + 1]
    BY <1>4, <1>6, <2>1
  <2>4. f[n + 1] \in 1..max
    BY <1>3, <2>2 DEF Lesser
  <2>5. f[(n + 1) + 1] = Lesser(2 * f[n + 1], max)
    BY <2>3, <2>4, NextCapIsDouble
  <2> DEFINE c == f[n + 1]
             e == d[n + 1]
  <2>6. e \in Nat /\ base <= e /\ c = Lesser(e, max)
    BY <2>2
  <2> HIDE DEF c, e
  <2>7. Lesser(2 * c, max) = Lesser(2 * e, max) /\ 2 * e \in Nat /\ base <= 2 * e
    BY <1>3, <2>6 DEF Lesser
  <2> QED BY <2>3, <2>5, <2>7 DEF c, e
<1> HIDE DEF T
<1>9. attempt - 1 \in T /\ (attempt - 1) + 1 = attempt
  BY <1>7, <1>8, CountedUp
<1>10. Meets(attempt)
  <2> HIDE DEF Meets
  <2>1. (attempt - 1) + 1 <= attempt => Meets((attempt - 1) + 1)
    BY <1>9 DEF T
  <2> QED BY <1>9, <2>1
<1> QED BY <1>1, <1>2, <1>10 DEF Capped

\* On machine words of any width the loop of retryCap is its formula: for every
\* configuration that Validate lets through, and for the attempts of every
\* delivery that workers make (retryCap in delivery.go).
THEOREM BackoffIsFormula == Spec => []CapIsFormula
<1>1. WordIsCapped
  BY LoopMeetsFormula, DurationAssumption DEF WordIsCapped
<1>2. ASSUME Inv, NEW w \in Workers, worker[w].item # NoItem
      PROVE  RetryCap(RetryBaseDelay, RetryMaxDelay, worker[w].item.attempts)
                 = Capped(RetryBaseDelay, RetryMaxDelay, worker[w].item.attempts)
  <2>1. worker[w] \in WorkerState
    BY <1>2 DEF Inv, TypeOK
  <2>2. worker[w].item \in Claim
    BY <1>2, <2>1 DEF WorkerState
  <2>3. worker[w].item.attempts \in Nat \ {0}
    BY <2>2, Config DEF Claim
  <2>4. RetryMaxDelay \in 1..TopDuration /\ RetryBaseDelay \in 1..RetryMaxDelay
    BY DeliveryConfigAssumption, DurationAssumption
  <2> QED BY <2>3, <2>4, LoopMeetsFormula
<1>3. Inv => CapIsFormula
  BY <1>1, <1>2 DEF CapIsFormula
<1> QED BY <1>3, InvHolds, PTL

=============================================================================
