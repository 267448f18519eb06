----------------------------- MODULE RateLimiter -----------------------------
(***************************************************************************)
(* The limiter over PostgreSQL, called by requests of several API hosts.   *)
(* A request reads its clock, waits for the advisory lock of its key, and  *)
(* decides in one transaction as of the time it read; so decisions are     *)
(* serial, and their times are not in order.                               *)
(***************************************************************************)
EXTENDS RollingWindow

CONSTANTS
    MaxClock,        \* bound on real time
    Lag,             \* how long a request waits, and how far hosts differ
    Maintenance,     \* TRUE when something calls CleanupExpired
    Never            \* no promise is open

ASSUME BoundAssumption ==
    /\ MaxClock \in Nat /\ Lag \in Nat /\ Maintenance \in BOOLEAN
    /\ Never \notin Int

VARIABLES
    clock,
    events,          \* auth_rate_limit_events
    request,         \* request -> its key and its `now`
    pc,
    verdict,         \* request -> what Check answered
    epoch,           \* key -> resets so far (history)
    decided,         \* request -> when, and in which epoch, it was decided (history)
    promise          \* key -> from when the next check must be admitted (history)

vars == <<clock, events, request, pc, verdict, epoch, decided, promise>>

PC == {"idle", "waiting", "done"}

Verdict == {"none", "allowed", "denied", "unavailable", "cleared"}

Now == (clock - Lag)..clock

\* A request derives its key and reads the clock of its host.
Arrive(a, k) ==
    /\ pc[a] = "idle"
    /\ \E now \in Now : request' = [request EXCEPT ![a] = [key |-> k, now |-> now]]
    /\ pc' = [pc EXCEPT ![a] = "waiting"]
    /\ UNCHANGED <<clock, events, verdict, epoch, decided, promise>>

Answer(a, answer) ==
    /\ pc' = [pc EXCEPT ![a] = "done"]
    /\ verdict' = [verdict EXCEPT ![a] = answer]
    /\ decided' = [decided EXCEPT ![a] = [at |-> clock, epoch |-> epoch[request[a].key]]]

Earlier(promised, time) == IF promised = Never THEN time ELSE Min({promised, time})

Check(a) ==
    LET k == request[a].key
        now == request[a].now
    IN  /\ pc[a] = "waiting"
        /\ events' = Checked(events, a, k, now)
        /\ IF Allowed(events, k, now)
           THEN /\ Answer(a, "allowed")
                /\ promise' = [promise EXCEPT ![k] = Never]
           ELSE /\ Answer(a, "denied")
                /\ promise' = [promise EXCEPT ![k] = Earlier(@, now + RetryAfter(events, k, now))]
        /\ UNCHANGED <<clock, request, epoch>>

\* The store fails, before its commit or after it.
Unavailable(a) ==
    /\ pc[a] = "waiting"
    /\ \/ UNCHANGED <<events, promise>>
       \/ /\ events' = Checked(events, a, request[a].key, request[a].now)
          /\ promise' = [promise EXCEPT ![request[a].key] = Never]
    /\ Answer(a, "unavailable")
    /\ UNCHANGED <<clock, request, epoch>>

\* A login that succeeded clears the failures of its email.
Reset(a) ==
    LET k == request[a].key IN
    /\ pc[a] = "waiting"
    /\ events' = Cleared(events, k)
    /\ epoch' = [epoch EXCEPT ![k] = @ + 1]
    /\ promise' = [promise EXCEPT ![k] = Never]
    /\ Answer(a, "cleared")
    /\ UNCHANGED <<clock, request>>

\* A plausible bug: the sweep compares the time of the event.
Begun(now) == {e \in events : e.expires - Window[e.key] <= now}

Expired(now) == {e \in events : e.expires <= now}

\* One statement over all keys, without any advisory lock.
CleanupExpired ==
    /\ Maintenance
    /\ Expired(clock) # {}
    /\ events' = events \ Expired(clock)
    /\ UNCHANGED <<clock, request, pc, verdict, epoch, decided, promise>>

\* No request that waits is older than Lag.
Tick ==
    /\ clock < MaxClock
    /\ \A a \in Attempt : pc[a] = "waiting" => request[a].now > clock - Lag
    /\ clock' = clock + 1
    /\ UNCHANGED <<events, request, pc, verdict, epoch, decided, promise>>

Init ==
    /\ clock = 0
    /\ events = {}
    /\ request \in [Attempt -> {[key |-> k, now |-> 0] : k \in Key}]
    /\ \A a, b \in Attempt : request[a] = request[b]
    /\ pc = [a \in Attempt |-> "idle"]
    /\ verdict = [a \in Attempt |-> "none"]
    /\ epoch = [k \in Key |-> 0]
    /\ decided = [a \in Attempt |-> [at |-> 0, epoch |-> 0]]
    /\ promise = [k \in Key |-> Never]

Next ==
    \/ \E a \in Attempt :
           \/ \E k \in Key : Arrive(a, k)
           \/ Check(a)
           \/ Unavailable(a)
           \/ Reset(a)
    \/ CleanupExpired
    \/ Tick

Spec == Init /\ [][Next]_vars

-----------------------------------------------------------------------------
(* Properties *)

\* The variables stay in their types.
TypeOK ==
    /\ clock \in 0..MaxClock
    /\ events \subseteq RateEvent
    /\ request \in [Attempt -> [key : Key, now : Int]]
    /\ pc \in [Attempt -> PC]
    /\ verdict \in [Attempt -> Verdict]
    /\ epoch \in [Key -> Nat]
    /\ decided \in [Attempt -> [at : Nat, epoch : Nat]]
    /\ promise \in [Key -> Int \cup {Never}]

\* A key never stores more events than its limit, whatever order the times
\* of the checks come in: what a check as of an earlier time counts is all
\* there is, since the events it does not see are gone.
StoredBound == \A k \in Key : Cardinality(EventsOf(events, k)) <= Limit[k]

Admitted(k, era) ==
    {a \in Attempt : verdict[a] = "allowed" /\ request[a].key = k /\ decided[a].epoch = era}

\* In real time no more than Limit requests of a key are admitted in any
\* interval shorter than the window by Lag, between two resets: that much
\* of the window survives hosts whose clocks and waits differ by Lag.
AdmissionsBounded ==
    \A k \in Key : \A a \in Attempt :
        LET from == decided[a].at
            near == {b \in Admitted(k, decided[a].epoch) :
                        decided[b].at \in from..(from + Window[k] - Lag - 1)}
        IN  a \in Admitted(k, decided[a].epoch) => Cardinality(near) <= Limit[k]

\* The limit is kept by the store and in real time.
LimitHolds == TypeOK /\ StoredBound /\ AdmissionsBounded

\* What Retry-After tells a client is enough: a check of the key as of a
\* time no earlier than that is admitted, unless another was admitted in
\* between.
RetryAfterHonest ==
    [][\A a \in Attempt :
           /\ pc[a] = "waiting"
           /\ pc'[a] = "done"
           /\ promise[request[a].key] # Never
           /\ request[a].now >= promise[request[a].key]
           => verdict'[a] # "denied"]_vars

=============================================================================
