--------------------------- MODULE OutboxDelivery ---------------------------
(***************************************************************************)
(* The Platform outbox and its delivery workers.  Producers append events  *)
(* to ordered aggregate streams; worker processes claim due events under a *)
(* lease, call the publisher, and acknowledge, reschedule or dead-letter   *)
(* with their claim token; the receiver deduplicates by event.             *)
(*                                                                         *)
(* An action is one SQL statement, one call or return of the publisher, or *)
(* one turn of the worker's loop.  Each process has its own clock.         *)
(***************************************************************************)
EXTENDS RetryBackoff, Sequences, FiniteSets, Functions

CONSTANTS
    Workers,            \* delivery worker processes
    Streams,            \* aggregate streams, 1..n in the order of their ids
    MaxPosition,        \* bound: events appended to one stream
    LeaseDuration, RetryBaseDelay, RetryMaxDelay,
    MaxDeliveryInvocations, BatchSize,
    MaxAttemptCount,    \* the largest attempt_count its column can hold
    Skew,               \* how far each worker's clock is ahead of `clock`
    ProducerSkew,       \* the same for the processes that append
    MaxDisruptions      \* bound: crashes, shutdowns, lapses while working

ASSUME StreamAssumption == IsFiniteSet(Streams) /\ Streams = 1..Cardinality(Streams)

\* DeliveryConfig.Validate: one count is reserved for the recovery claim.
ASSUME DeliveryConfigAssumption ==
    /\ LeaseDuration \in Nat \ {0}
    /\ RetryBaseDelay \in Nat \ {0}
    /\ RetryMaxDelay \in RetryBaseDelay..TopDuration
    /\ MaxAttemptCount \in Nat
    /\ MaxDeliveryInvocations \in 1..(MaxAttemptCount - 1)
    /\ BatchSize \in Nat \ {0}

\* The clocks differ by a largest amount (the last conjunct).
ASSUME BoundAssumption ==
    /\ MaxPosition \in Nat
    /\ MaxDisruptions \in Nat
    /\ ProducerSkew \in Nat
    /\ Skew \in [Workers -> Nat]
    /\ Workers = {} \/ \E u, v \in Workers : \A x, y \in Workers :
                           Skew[x] - Skew[y] <= Skew[u] - Skew[v]

Events == Streams \X (1..MaxPosition)

NoToken == 0

VARIABLES
    outbox,       \* event -> its row, state "ABSENT" before it is appended
    worker,       \* worker -> where it is in its loop, and what it holds
    calls,        \* <<event, token>> of publisher calls not yet received
    applied,      \* stream -> positions whose effect the receiver committed
    invoked,      \* event -> number of publisher invocations (history)
    clock,        \* real time
    issued,       \* claim tokens used so far
    disruptions

vars == <<outbox, worker, calls, applied, invoked, clock, issued, disruptions>>

-----------------------------------------------------------------------------
(* Rows and clocks *)

Now(w) == clock + Skew[w]

ProducerNow == clock + ProducerSkew

AbsentRow == [state |-> "ABSENT", attempts |-> 0, occurredAt |-> 0, dueAt |-> 0,
              token |-> NoToken, lease |-> 0]

Predecessors(e) == {f \in Events : f[1] = e[1] /\ f[2] < e[2]}

Released(row, state) == [row EXCEPT !.state = state, !.token = NoToken, !.lease = 0]

\* Plausible bugs: an expired claim is never taken again; a claim is taken
\* while its lease runs; a rescheduled event does not wait.
DueWithoutReclaim(asOf, e) == outbox[e].state = "PENDING" /\ outbox[e].dueAt <= asOf

DueBeforeExpiry(asOf, e) ==
    \/ outbox[e].state = "PENDING" /\ outbox[e].dueAt <= asOf
    \/ outbox[e].state = "PROCESSING" /\ outbox[e].lease <= asOf + LeaseDuration

DueAtOnce(asOf, e) ==
    \/ outbox[e].state = "PENDING"
    \/ outbox[e].state = "PROCESSING" /\ outbox[e].lease <= asOf

Due(asOf, e) ==
    \/ outbox[e].state = "PENDING" /\ outbox[e].dueAt <= asOf
    \/ outbox[e].state = "PROCESSING" /\ outbox[e].lease <= asOf

\* A plausible bug: a dead-lettered predecessor does not hold the stream.
UnblockedByDeadLetter(e) ==
    \A f \in Predecessors(e) : outbox[f].state \in {"PUBLISHED", "DEAD_LETTER"}

Unblocked(e) == \A f \in Predecessors(e) : outbox[f].state = "PUBLISHED"

Candidates(asOf) == {e \in Events : Due(asOf, e) /\ Unblocked(e)}

\* ORDER BY stream LIMIT BatchSize; a stream has at most one candidate.
\* SKIP LOCKED drops the rows that another statement holds at this moment.
FirstOf(candidates) ==
    {e \in candidates : Cardinality({f \in candidates : f[1] < e[1]}) < BatchSize}

\* Rows that an acknowledgement of another worker may be locking.
LockedElsewhere(w) ==
    {worker[u].item.event : u \in {v \in Workers \ {w} : worker[v].pc = "settling"}}

-----------------------------------------------------------------------------
(* Workers *)

NoItem == [event |-> <<0, 0>>, attempts |-> 0]

Idle == [pc |-> "waiting", asOf |-> 0, token |-> NoToken, batch |-> {},
         item |-> NoItem, verdict |-> "none", cancelled |-> FALSE]

Stopped == [Idle EXCEPT !.pc = "stopped"]

\* The lease of every claim of the cycle.
Lease(w) == worker[w].asOf + LeaseDuration

\* The outcome of a publisher call that returned an error.
FailureVerdict(w) ==
    IF worker[w].cancelled THEN "stop"
    ELSE IF Now(w) >= Lease(w) THEN "expired"
    ELSE IF worker[w].item.attempts = MaxDeliveryInvocations THEN "dead"
    ELSE "retry"

\* A plausible bug: off by one.
MayInvokeOnceMore(attempts) == attempts <= MaxDeliveryInvocations + 1

\* A claim past the last invocation is only put away.
MayInvoke(attempts) == attempts <= MaxDeliveryInvocations

\* A plausible bug: the statement looks at the state and not at the token.
OwnsByState(w, e) == outbox[e].state = "PROCESSING"

Owns(w, e) == outbox[e].state = "PROCESSING" /\ outbox[e].token = worker[w].token

-----------------------------------------------------------------------------
(* Producers *)

\* Append: the row lock on the stream's counter gives the next position.
AppendEvent(s) ==
    \E n \in 1..MaxPosition :
        /\ outbox[<<s, n>>].state = "ABSENT"
        /\ \A f \in Predecessors(<<s, n>>) : outbox[f].state # "ABSENT"
        /\ outbox' = [outbox EXCEPT ![<<s, n>>] =
                [AbsentRow EXCEPT !.state = "PENDING",
                                  !.occurredAt = ProducerNow, !.dueAt = ProducerNow]]
        /\ UNCHANGED <<worker, calls, applied, invoked, clock, issued, disruptions>>

-----------------------------------------------------------------------------
(* The claim cycle: RunOnce *)

BeginCycle(w) ==
    /\ worker[w].pc = "waiting" /\ ~worker[w].cancelled
    /\ worker' = [worker EXCEPT ![w].pc = "claiming", ![w].asOf = Now(w)]
    /\ UNCHANGED <<outbox, calls, applied, invoked, clock, issued, disruptions>>

\* ClaimDue, one statement.  It fails as a whole when a count would overflow;
\* the error ends the runner.
ClaimDue(w) ==
    /\ worker[w].pc = "claiming" /\ ~worker[w].cancelled
    /\ \E locked \in SUBSET (LockedElsewhere(w) \intersect Candidates(worker[w].asOf)) :
        LET taken == FirstOf(Candidates(worker[w].asOf) \ locked)
        IN  IF \E e \in taken : outbox[e].attempts = MaxAttemptCount
            THEN /\ worker' = [worker EXCEPT ![w] = Stopped]
                 /\ UNCHANGED <<outbox, issued>>
            ELSE /\ issued' = IF taken = {} THEN issued ELSE issued + 1
                 /\ outbox' = [e \in Events |->
                        IF e \in taken
                        THEN [outbox[e] EXCEPT !.state = "PROCESSING",
                                               !.attempts = @ + 1,
                                               !.token = issued',
                                               !.lease = Lease(w)]
                        ELSE outbox[e]]
                 /\ worker' = [worker EXCEPT
                        ![w].pc = "delivering",
                        ![w].token = IF taken = {} THEN NoToken ELSE issued',
                        ![w].batch = {[event |-> e, attempts |-> outbox'[e].attempts]
                                        : e \in taken}]
    /\ UNCHANGED <<calls, applied, invoked, clock, disruptions>>

FinishBatch(w) ==
    /\ worker[w].pc = "delivering" /\ worker[w].batch = {}
    /\ worker' = [worker EXCEPT ![w] = [Idle EXCEPT !.cancelled = worker[w].cancelled]]
    /\ UNCHANGED <<outbox, calls, applied, invoked, clock, issued, disruptions>>

\* The claims come back in no particular order.
NextClaim(w, claim) ==
    /\ worker[w].pc = "delivering" /\ ~worker[w].cancelled
    /\ claim \in worker[w].batch

\* An earlier delivery of the batch used up the lease.
SkipExpired(w) ==
    \E claim \in worker[w].batch :
        /\ NextClaim(w, claim)
        /\ Now(w) >= Lease(w)
        /\ worker' = [worker EXCEPT ![w].batch = @ \ {claim}]
        /\ UNCHANGED <<outbox, calls, applied, invoked, clock, issued, disruptions>>

StartPublish(w) ==
    \E claim \in worker[w].batch :
        /\ NextClaim(w, claim)
        /\ Now(w) < Lease(w)
        /\ MayInvoke(claim.attempts)
        /\ worker' = [worker EXCEPT ![w].pc = "publishing",
                                    ![w].batch = @ \ {claim}, ![w].item = claim]
        /\ calls' = calls \union {<<claim.event, worker[w].token>>}
        /\ invoked' = [invoked EXCEPT ![claim.event] = @ + 1]
        /\ UNCHANGED <<outbox, applied, clock, issued, disruptions>>

\* A recovery claim: the publisher is not called again.
PutAway(w) ==
    \E claim \in worker[w].batch :
        /\ NextClaim(w, claim)
        /\ Now(w) < Lease(w)
        /\ ~MayInvoke(claim.attempts)
        /\ worker' = [worker EXCEPT ![w].pc = "settling", ![w].batch = @ \ {claim},
                                    ![w].item = claim, ![w].verdict = "dead"]
        /\ UNCHANGED <<outbox, calls, applied, invoked, clock, issued, disruptions>>

-----------------------------------------------------------------------------
(* One delivery: deliver *)

\* The publisher returns nil only after the receiver has the event.
PublishSucceeds(w) ==
    /\ worker[w].pc = "publishing"
    /\ <<worker[w].item.event, worker[w].token>> \notin calls
    /\ worker' = [worker EXCEPT ![w].pc = "settling", ![w].verdict = "published"]
    /\ UNCHANGED <<outbox, calls, applied, invoked, clock, issued, disruptions>>

\* It may fail at any time, also when the receiver has or will have the event.
PublishFails(w) ==
    /\ worker[w].pc = "publishing"
    /\ worker' = [worker EXCEPT ![w] =
            CASE FailureVerdict(w) = "stop" -> Stopped
              [] FailureVerdict(w) = "expired" ->
                    [@ EXCEPT !.pc = "delivering", !.item = NoItem]
              [] OTHER -> [@ EXCEPT !.pc = "settling", !.verdict = FailureVerdict(w)]]
    /\ UNCHANGED <<outbox, calls, applied, invoked, clock, issued, disruptions>>

\* MarkPublished, MarkDeadLetter or Reschedule: a row that is not owned any
\* more is left alone, and the worker goes on.
Settle(w) ==
    LET e == worker[w].item.event
        verdict == worker[w].verdict
    IN  /\ worker[w].pc = "settling"
        /\ worker' = [worker EXCEPT ![w].pc = "delivering",
                                    ![w].item = NoItem, ![w].verdict = "none"]
        /\ IF ~Owns(w, e) THEN UNCHANGED outbox
           ELSE \/ /\ verdict = "published"
                   /\ outbox' = [outbox EXCEPT ![e] = Released(@, "PUBLISHED")]
                \/ /\ verdict = "dead"
                   /\ outbox' = [outbox EXCEPT ![e] = Released(@, "DEAD_LETTER")]
                \/ /\ verdict = "retry"
                   /\ \E delay \in 0..RetryCap(RetryBaseDelay, RetryMaxDelay,
                                                worker[w].item.attempts) :
                        outbox' = [outbox EXCEPT ![e] =
                            [Released(@, "PENDING") EXCEPT !.dueAt = Now(w) + delay]]
        /\ UNCHANGED <<calls, applied, invoked, clock, issued, disruptions>>

\* The receiver commits the effect together with the deduplication marker.  A
\* call may arrive after its sender gave up on it.
Receive(call) ==
    LET s == call[1][1]
        n == call[1][2]
    IN  /\ call \in calls
        /\ calls' = calls \ {call}
        /\ applied' = IF n \in Range(applied[s]) THEN applied
                      ELSE [applied EXCEPT ![s] = Append(@, n)]
        /\ UNCHANGED <<outbox, worker, invoked, clock, issued, disruptions>>

-----------------------------------------------------------------------------
(* Processes and time *)

Disrupt == disruptions < MaxDisruptions /\ disruptions' = disruptions + 1

\* A cancelled context is seen before the next claim, before the next item,
\* and by a statement that runs under it; a success is still acknowledged.
Stop(w) ==
    /\ worker[w].cancelled
    /\ \/ worker[w].pc \in {"waiting", "claiming", "delivering"}
       \/ worker[w].pc = "settling" /\ worker[w].verdict # "published"
    /\ worker' = [worker EXCEPT ![w] = Stopped]
    /\ UNCHANGED <<outbox, calls, applied, invoked, clock, issued, disruptions>>

Shutdown(w) ==
    /\ worker[w].pc # "stopped" /\ ~worker[w].cancelled
    /\ worker' = [worker EXCEPT ![w].cancelled = TRUE]
    /\ Disrupt
    /\ UNCHANGED <<outbox, calls, applied, invoked, clock, issued>>

\* The process dies, or a statement fails and ends the runner.
Crash(w) ==
    /\ worker[w].pc # "stopped"
    /\ worker' = [worker EXCEPT ![w] = Stopped]
    /\ Disrupt
    /\ UNCHANGED <<outbox, calls, applied, invoked, clock, issued>>

Restart(w) ==
    /\ worker[w].pc = "stopped"
    /\ worker' = [worker EXCEPT ![w] = Idle]
    /\ UNCHANGED <<outbox, calls, applied, invoked, clock, issued, disruptions>>

\* Something is scheduled for later on the clock of some worker.
Awaited == \E w \in Workers, e \in Events :
              \/ outbox[e].state = "PENDING" /\ outbox[e].dueAt > Now(w)
              \/ outbox[e].state = "PROCESSING" /\ outbox[e].lease > Now(w)

Working(w) == \/ worker[w].batch # {} \/ worker[w].item # NoItem
              \/ worker[w].pc = "claiming" /\ worker[w].asOf # Now(w)

\* Time that passes during a delivery counts as a disruption.
Tick ==
    /\ Awaited
    /\ IF \E w \in Workers : Working(w) THEN Disrupt ELSE UNCHANGED disruptions
    /\ clock' = clock + 1
    /\ UNCHANGED <<outbox, worker, calls, applied, invoked, issued>>

-----------------------------------------------------------------------------

Init == /\ outbox = [e \in Events |-> AbsentRow]
        /\ worker = [w \in Workers |-> Idle]
        /\ calls = {}
        /\ applied = [s \in Streams |-> <<>>]
        /\ invoked = [e \in Events |-> 0]
        /\ clock = 0
        /\ issued = 0
        /\ disruptions = 0

\* What a running worker does of itself.
Run(w) == \/ BeginCycle(w) \/ ClaimDue(w) \/ FinishBatch(w)
          \/ SkipExpired(w) \/ StartPublish(w) \/ PutAway(w)
          \/ PublishSucceeds(w) \/ PublishFails(w) \/ Settle(w) \/ Stop(w)

Next == \/ \E s \in Streams : AppendEvent(s)
        \/ \E w \in Workers : Run(w) \/ Shutdown(w) \/ Crash(w) \/ Restart(w)
        \/ \E call \in calls : Receive(call)
        \/ Tick

Spec == Init /\ [][Next]_vars

\* A worker keeps running, a publisher call ends with its deadline, time
\* passes, and a worker that stopped is started again by its operator.  The
\* receiver is not assumed to receive anything.
FairSpec == /\ Spec
            /\ \A w \in Workers : WF_vars(Run(w)) /\ WF_vars(Restart(w))
            /\ WF_vars(Tick)

-----------------------------------------------------------------------------
(* Properties *)

Row == [state : {"ABSENT", "PENDING", "PROCESSING", "PUBLISHED", "DEAD_LETTER"},
        attempts : 0..MaxAttemptCount, occurredAt : Nat, dueAt : Nat,
        token : Nat, lease : Nat]

Claim == [event : Events, attempts : 1..MaxAttemptCount]

WorkerState == [pc : {"waiting", "claiming", "delivering", "publishing", "settling",
                      "stopped"},
                asOf : Nat, token : Nat, batch : SUBSET Claim,
                item : Claim \union {NoItem},
                verdict : {"none", "published", "dead", "retry"}, cancelled : BOOLEAN]

\* Type invariant, with the table's own check: exactly a claimed row has a
\* token and a lease (platform_outbox_events_state_consistent).
TypeOK ==
    /\ outbox \in [Events -> Row]
    /\ \A e \in Events : /\ outbox[e].state = "PROCESSING" <=> outbox[e].token # NoToken
                         /\ outbox[e].state = "PROCESSING" <=> outbox[e].lease # 0
                         /\ outbox[e].token <= issued
    /\ worker \in [Workers -> WorkerState]
    /\ calls \subseteq Events \X (1..issued)
    /\ applied \in [Streams -> Seq(1..MaxPosition)]
    /\ invoked \in [Events -> Nat]
    /\ clock \in Nat /\ issued \in Nat /\ disruptions \in 0..MaxDisruptions

\* The publisher is called at most MaxDeliveryInvocations times for an event,
\* whatever crashes, lapsed leases and late acknowledgements happen
\* (ADR-022: "the maximum is 10 delivery invocations of the publisher").
InvocationBound == \A e \in Events : invoked[e] <= MaxDeliveryInvocations

\* A count above the limit belongs to a recovery claim: the event is claimed
\* or put away, and no worker, however late, makes it deliverable again
\* (ADR-022: attempt_count exceeds the limit only in the recovery case).
RecoveryNeverRetries ==
    \A e \in Events : outbox[e].attempts > MaxDeliveryInvocations =>
                        outbox[e].state \in {"PROCESSING", "DEAD_LETTER", "PUBLISHED"}

\* What claims may add up to, in rows that the table accepts.
ClaimsBounded == TypeOK /\ InvocationBound /\ RecoveryNeverRetries

\* retryCap(attempt) = min(base * 2^(attempt-1), max), for every delivery and
\* for every configuration of the machine word: nothing overflows on the way to
\* a maximum close to the largest duration.
CapIsFormula ==
    /\ WordIsCapped
    /\ \A w \in Workers : worker[w].item # NoItem =>
           RetryCap(RetryBaseDelay, RetryMaxDelay, worker[w].item.attempts)
               = Capped(RetryBaseDelay, RetryMaxDelay, worker[w].item.attempts)

\* How far one worker's clock can be ahead of another's.
MaxSkewDifference ==
    LET differences == {Skew[u] - Skew[v] : u, v \in Workers}
    IN  CHOOSE d \in differences : \A c \in differences : c <= d

\* Two workers are in a publisher call for the same event only when the lease
\* of one of them is over, up to the difference of their clocks: the claim
\* statement gives no live claim away (outbox.sql: "concurrent workers cannot
\* own the same live claim").
OneLiveDelivery ==
    \A u, v \in Workers :
        /\ u # v
        /\ worker[u].pc = "publishing" /\ worker[v].pc = "publishing"
        /\ worker[u].item.event = worker[v].item.event
        => \/ Now(u) + MaxSkewDifference >= Lease(u)
           \/ Now(v) + MaxSkewDifference >= Lease(v)

\* No acknowledgement is refused by the table: published_at is the worker's
\* clock, the check wants it at or after occurred_at, the producer's clock,
\* and nothing in deliver compares the two
\* (platform_outbox_events_state_consistent).
PublishStampAccepted ==
    \A w \in Workers :
        /\ worker[w].pc = "settling" /\ worker[w].verdict = "published"
        /\ Owns(w, worker[w].item.event)
        => Now(w) >= outbox[worker[w].item.event].occurredAt

\* ADR-022, "Retry and dead-letter": "Retryable failures after invocations 1
\* through 9 are rescheduled. A retryable failure after invocation 10 marks
\* the event DEAD_LETTER": a publisher error dead-letters an event only at
\* its last invocation.
FailuresBeforeLastAreRescheduled ==
    \A w \in Workers :
        /\ worker[w].pc = "settling" /\ worker[w].verdict = "dead"
        /\ worker[w].item.attempts <= MaxDeliveryInvocations
        => invoked[worker[w].item.event] = MaxDeliveryInvocations

-----------------------------------------------------------------------------
(* The abstract channel *)

CountOf(s, states) == Cardinality({n \in 1..MaxPosition : outbox[<<s, n>>].state \in states})

Channel == INSTANCE StopAndWait WITH
    recorded  <- [s \in Streams |-> MaxPosition - CountOf(s, {"ABSENT"})],
    confirmed <- [s \in Streams |-> CountOf(s, {"PUBLISHED"})],
    abandoned <- {s \in Streams : CountOf(s, {"DEAD_LETTER"}) > 0}

\* Workers, leases and retries implement one stop-and-wait channel per stream:
\* effects in order, once each, the next only after the previous is known to
\* be delivered, none after a dead letter (worker-event-standard.md:
\* ordering per aggregate stream, at-least-once with deduplication).
StopAndWaitChannel == Channel!Spec

\* Every event that is appended is published in the end, or it is or waits
\* behind a dead letter: no crash, lost acknowledgement or lapsed lease
\* leaves it claimed for ever.
EventuallySettled ==
    \A e \in Events :
        outbox[e].state # "ABSENT" ~>
            \/ outbox[e].state = "PUBLISHED"
            \/ \E f \in Predecessors(e) \union {e} : outbox[f].state = "DEAD_LETTER"

=============================================================================
