---------------------------- MODULE RollingWindow ----------------------------
(***************************************************************************)
(* The rolling window of the authentication rate limiter: what one check   *)
(* does to the stored events of a key, as of the time of the request.      *)
(*                                                                         *)
(* A key is an identity under a policy; Limit and Window are the policy's. *)
(***************************************************************************)
EXTENDS Integers, FiniteSets, FiniteSetsExt

CONSTANTS
    Attempt,         \* requests; an event is named by the one that left it
    Key,             \* policies with an identity (email, address or family)
    Limit,           \* key -> events that may be active at a time
    Window           \* key -> how long an event stays active

ASSUME PolicyAssumption ==
    /\ Limit \in [Key -> Nat \ {0}]
    /\ Window \in [Key -> Nat \ {0}]

RateEvent == [id : Attempt, key : Key, expires : Int]

EventsOf(events, k) == {e \in events : e.key = k}

ExpiredForKey(events, k, now) == {e \in EventsOf(events, k) : e.expires <= now}

Active(events, k, now) == {e \in EventsOf(events, k) : e.expires > now}

EarliestExpiry(events, k, now) == Min({e.expires : e \in Active(events, k, now)})

NewEvent(a, k, now) == [id |-> a, key |-> k, expires |-> now + Window[k]]

DeleteExpired(events, k, now) == events \ ExpiredForKey(events, k, now)

Exhausted(events, k, now) == Cardinality(Active(events, k, now)) >= Limit[k]

\* A plausible bug: the client is told to come back at once.
RetryAtOnce(events, k, now) == 1

\* Never less than a second.
RetryAfter(events, k, now) == Max({EarliestExpiry(events, k, now) - now, 1})

\* The stored events after a check of key k by request a.
Checked(events, a, k, now) ==
    LET live == DeleteExpired(events, k, now)
    IN  IF Exhausted(live, k, now) THEN live ELSE live \cup {NewEvent(a, k, now)}

Allowed(events, k, now) == ~Exhausted(DeleteExpired(events, k, now), k, now)

\* ResetLoginEmailFailures.
Cleared(events, k) == events \ EventsOf(events, k)

=============================================================================
