--------------------------- MODULE RefreshSessions ---------------------------
(***************************************************************************)
(* One generation of a refresh-token family as the domain sees it and as   *)
(* its row is written: the checks every row must pass, the successor a     *)
(* rotation plans, and what the SQL statements do to one row.              *)
(*                                                                         *)
(* Times are integers; a time that is absent is NoTime.                    *)
(***************************************************************************)
EXTENDS Integers

CONSTANTS
    Family,          \* token families; each names its first generation too
    Request,         \* refresh and logout requests; each names the generation
                     \* it may insert
    IdleLifetime,    \* SessionIdleLifetime
    AbsoluteLimit,   \* SessionAbsoluteLimit
    NoSession,       \* no row, or no replacement
    NoTime

ASSUME LifetimeAssumption ==
    /\ IdleLifetime \in Nat \ {0}
    /\ AbsoluteLimit \in Nat
    /\ IdleLifetime <= AbsoluteLimit

ASSUME NameAssumption ==
    /\ Family \cap Request = {}
    /\ NoSession \notin Family \cup Request
    /\ NoTime \notin Int

Session == Family \cup Request

State == {"active", "replaced", "revoked", "expired"}

Reason == {"none", "refresh_token_reuse", "current_session_logout"}

Time == Int \cup {NoTime}

Row == [family : Family, state : State, replacement : Session \cup {NoSession},
        created : Int, replaced : Time, idle : Int, absolute : Int,
        revoked : Time, reason : Reason]

Before(s, t) == s # NoTime /\ s < t

\* The replacement and the revocation columns agree with the state.
LifecycleOK(id, row) ==
    LET hasReplacement == row.replacement # NoSession
        hasRevocation == row.revoked # NoTime
    IN  /\ row.replacement # id
        /\ hasReplacement <=> row.replaced # NoTime
        /\ hasRevocation <=> row.reason # "none"
        /\ ~Before(row.replaced, row.created)
        /\ ~Before(row.revoked, row.created)
        /\ row.state \in {"active", "expired"} => ~hasReplacement /\ ~hasRevocation
        /\ row.state = "replaced" => hasReplacement /\ ~hasRevocation
        /\ row.state = "revoked" => hasRevocation

\* Every row is built by this constructor, and read back through it.
WellFormed(id, row) ==
    /\ row.idle > row.created
    /\ row.absolute > row.created
    /\ row.idle <= row.absolute
    /\ LifecycleOK(id, row)

\* What the row mapper accepts, and the constraints of the table with it.
Readable(id, row) == row.state \in State /\ WellFormed(id, row)

NewActive(family, created, idle, absolute) ==
    [family |-> family, state |-> "active", replacement |-> NoSession,
     created |-> created, replaced |-> NoTime, idle |-> idle,
     absolute |-> absolute, revoked |-> NoTime, reason |-> "none"]

IsExpiredAt(row, now) ==
    row.state = "expired" \/ now >= row.idle \/ now >= row.absolute

IsActiveAt(row, now) == row.state = "active" /\ ~IsExpiredAt(row, now)

Eligible(row, now) == row.state = "active" /\ ~IsExpiredAt(row, now)

MinTime(left, right) == IF left < right THEN left ELSE right

\* The new generation keeps the absolute expiry of the login.
Successor(row, now) ==
    NewActive(row.family, now, MinTime(now + IdleLifetime, row.absolute), row.absolute)

MarkedReplaced(row, successor, now) ==
    [row EXCEPT !.state = "replaced", !.replacement = successor, !.replaced = now]

\* The plan is refused when either row of it would be malformed.
CanPlanReplacement(id, row, successor, now) ==
    /\ Eligible(row, now)
    /\ successor # id
    /\ WellFormed(successor, Successor(row, now))
    /\ WellFormed(id, MarkedReplaced(row, successor, now))

MarkedRevoked(row, now, reason) ==
    [row EXCEPT !.state = "revoked", !.revoked = now, !.reason = reason]

MarkedExpired(row) == [row EXCEPT !.state = "expired"]

=============================================================================
