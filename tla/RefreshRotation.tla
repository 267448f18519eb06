--------------------------- MODULE RefreshRotation ---------------------------
(***************************************************************************)
(* Refresh and logout of the Identity service over PostgreSQL: each request*)
(* is one READ COMMITTED transaction that locks the presented generation,  *)
(* then rotates it, or revokes its family when it was presented before, or *)
(* rejects it.  Requests read their clock before they wait for a lock.     *)
(*                                                                         *)
(* An action is one SQL statement with the Go code up to the next one.     *)
(* `draft[r]` is the row versions that the transaction of r holds, locked  *)
(* and perhaps changed; the rows themselves change when it commits.        *)
(***************************************************************************)
EXTENDS RefreshSessions, FiniteSets

CONSTANTS
    MaxClock,        \* bound on real time
    Skew,            \* how far the clock of an API host may lag
    Faults,          \* TRUE when the database may fail a transaction
    Maintenance      \* TRUE when expired sessions may be marked

ASSUME BoundAssumption == MaxClock \in Nat /\ Skew \in Nat /\ {Faults, Maintenance} \subseteq BOOLEAN

VARIABLES
    clock,
    userActive,      \* account_status of the user of every family
    rows,            \* refresh_sessions, as committed
    draft,           \* request -> row versions its transaction holds
    req,             \* request -> what it presented, and its `now`
    pc,              \* request -> its next statement
    todo,            \* request -> rows its family UPDATE has yet to reach
    log,             \* request -> audit events its transaction wrote
    audit,           \* request -> audit events committed
    answer,          \* request -> what the caller is told
    snapshot         \* request -> rows its family UPDATE saw (history)

vars == <<clock, userActive, rows, draft, req, pc, todo, log, audit, answer, snapshot>>

Op == {"refresh", "logout"}

InTransaction == {"decide", "replace", "revoke", "commit"}

PC == {"idle", "lock", "done"} \cup InTransaction

Action == {"refresh_success", "refresh_failure", "logout", "token_family_revocation",
           "refresh_token_reuse", "disabled_account_rejection"}

Event == [action : Action, severity : {"info", "warning", "high"}]

Events(actions, severity) == {[action |-> a, severity |-> severity] : a \in actions}

Answer == {"none", "ok", "rejected", "limited", "unavailable", "conflict",
           "constraint", "deadlock", "fault"}

\* What a host reads: real time starts at 0, and it may lag.
Now == {now \in 0..clock : now >= clock - Skew}

NoRow == [state |-> "none"]

Exists(s) == rows[s] # NoRow

\* The rows that the transaction of r has locked.
Held(r) == {s \in Session : draft[r][s] # NoRow}

LockedByOther(r, s) == \E q \in Request \ {r} : s \in Held(q)

\* What a statement of r sees of row s.
Seen(r, s) == IF s \in Held(r) THEN draft[r][s] ELSE rows[s]

Presented(r) == req[r].token

FamilyOf(r) == rows[Presented(r)].family

Members(f) == {s \in Session : rows[s] # NoRow /\ rows[s].family = f}

NoVersions == [s \in Session |-> NoRow]

Holding(r, s, row) == draft' = [draft EXCEPT ![r][s] = row]

\* SELECT ... FOR UPDATE: waits for the transaction that holds the row, then
\* sees what it left.
SelectForUpdate(r, s) == ~LockedByOther(r, s) /\ Holding(r, s, rows[s])

InsertGeneration(versions, id, row) == [versions EXCEPT ![id] = row]

-----------------------------------------------------------------------------
(* The transaction *)

\* The record writer refuses reuse evidence that is not of high severity.
AuditAllowed(e) == e.action = "refresh_token_reuse" => e.severity = "high"

Finish(r, result) ==
    /\ pc' = [pc EXCEPT ![r] = "done"]
    /\ answer' = [answer EXCEPT ![r] = result]

\* The failure record is written outside the transaction, when it can be.
BestEffortAudit(r, events) ==
    audit' \in {[audit EXCEPT ![r] = @ \cup events], audit}

Rollback(r, result) ==
    /\ draft' = [draft EXCEPT ![r] = NoVersions]
    /\ todo' = [todo EXCEPT ![r] = {}]
    /\ log' = [log EXCEPT ![r] = {}]
    /\ IF req[r].op = "refresh"
       THEN BestEffortAudit(r, Events({"refresh_failure"}, "warning"))
       ELSE UNCHANGED audit
    /\ Finish(r, result)
    /\ UNCHANGED <<clock, userActive, rows, req, snapshot>>

\* Evidence that may not be written takes the transaction with it.
Append(r, events, result) ==
    IF \A e \in events : AuditAllowed(e)
    THEN /\ log' = [log EXCEPT ![r] = events]
         /\ answer' = [answer EXCEPT ![r] = result]
         /\ pc' = [pc EXCEPT ![r] = "commit"]
         /\ UNCHANGED <<clock, userActive, rows, draft, req, todo, audit, snapshot>>
    ELSE Rollback(r, "fault")

\* A plausible bug: the evidence of a rejection is rolled back with it.
CommitWithoutEvidence(r) ==
    /\ pc[r] = "commit"
    /\ rows' = [s \in Session |-> Seen(r, s)]
    /\ draft' = [draft EXCEPT ![r] = NoVersions]
    /\ log' = [log EXCEPT ![r] = {}]
    /\ pc' = [pc EXCEPT ![r] = "done"]
    /\ UNCHANGED <<clock, userActive, req, todo, audit, answer, snapshot>>

Commit(r) ==
    /\ pc[r] = "commit"
    /\ rows' = [s \in Session |-> Seen(r, s)]
    /\ draft' = [draft EXCEPT ![r] = NoVersions]
    /\ audit' = [audit EXCEPT ![r] = @ \cup log[r]]
    /\ log' = [log EXCEPT ![r] = {}]
    /\ pc' = [pc EXCEPT ![r] = "done"]
    /\ UNCHANGED <<clock, userActive, req, todo, answer, snapshot>>

-----------------------------------------------------------------------------
(* Locking the presented generation *)

\* A caller presents a token that was issued, once or again.
Begin(r, op, s) ==
    /\ pc[r] = "idle"
    /\ Exists(s)
    /\ \E now \in Now : req' = [req EXCEPT ![r] = [op |-> op, token |-> s, now |-> now]]
    /\ pc' = [pc EXCEPT ![r] = "lock"]
    /\ UNCHANGED <<clock, userActive, rows, draft, todo, log, audit, answer, snapshot>>

\* A token that names no session.
RejectUnknown(r, op) ==
    /\ pc[r] = "idle"
    /\ req' = [req EXCEPT ![r].op = op]
    /\ Finish(r, "rejected")
    /\ IF op = "refresh"
       THEN BestEffortAudit(r, Events({"refresh_failure"}, "warning"))
       ELSE UNCHANGED audit
    /\ UNCHANGED <<clock, userActive, rows, draft, todo, log, snapshot>>

\* A row that the mapper cannot read back answers nothing.
LockByDigest(r) ==
    /\ pc[r] = "lock"
    /\ Readable(Presented(r), rows[Presented(r)])
    /\ SelectForUpdate(r, Presented(r))
    /\ pc' = [pc EXCEPT ![r] = "decide"]
    /\ UNCHANGED <<clock, userActive, rows, req, todo, log, audit, answer, snapshot>>

Deciding(r, op) == pc[r] = "decide" /\ req[r].op = op

Current(r) == Seen(r, Presented(r))

Spent(row) == row.state \in {"replaced", "revoked"}

-----------------------------------------------------------------------------
(* Revoking a family *)

StillActive(row) == row.state = "active"

NotYetRevoked(row) == row.state # "revoked"

\* A plausible bug: only the presented generation is revoked.
RevokePresented(r) ==
    /\ todo' = [todo EXCEPT ![r] = {Presented(r)}]
    /\ snapshot' = [snapshot EXCEPT ![r] = Members(FamilyOf(r))]
    /\ pc' = [pc EXCEPT ![r] = "revoke"]
    /\ UNCHANGED <<clock, userActive, rows, draft, req, log, audit, answer>>

\* The UPDATE takes its snapshot of the family when it starts.
RevokeFamily(r) ==
    /\ todo' = [todo EXCEPT ![r] = {s \in Members(FamilyOf(r)) : NotYetRevoked(Seen(r, s))}]
    /\ snapshot' = [snapshot EXCEPT ![r] = Members(FamilyOf(r))]
    /\ pc' = [pc EXCEPT ![r] = "revoke"]
    /\ UNCHANGED <<clock, userActive, rows, draft, req, log, audit, answer>>

ReasonOf(r) ==
    IF req[r].op = "refresh" THEN "refresh_token_reuse" ELSE "current_session_logout"

\* A plausible bug: the time of the revocation is not checked.
RevokeRowUnchecked(r, s) ==
    /\ pc[r] = "revoke"
    /\ s \in todo[r]
    /\ ~LockedByOther(r, s)
    /\ Holding(r, s, MarkedRevoked(Seen(r, s), req[r].now, ReasonOf(r)))
    /\ todo' = [todo EXCEPT ![r] = @ \ {s}]
    /\ UNCHANGED <<clock, userActive, rows, req, pc, log, audit, answer, snapshot>>

\* It waits for a row that is held, and looks again at what it then finds.
\* A time before the row was created violates a constraint of the table.
RevokeRow(r, s) ==
    /\ pc[r] = "revoke"
    /\ s \in todo[r]
    /\ ~LockedByOther(r, s)
    /\ LET row == MarkedRevoked(Seen(r, s), req[r].now, ReasonOf(r)) IN
       IF ~NotYetRevoked(Seen(r, s))
       THEN /\ todo' = [todo EXCEPT ![r] = @ \ {s}]
            /\ UNCHANGED <<clock, userActive, rows, draft, req, pc, log, audit, answer, snapshot>>
       ELSE IF ~Readable(s, row)
       THEN Rollback(r, "constraint")
       ELSE /\ Holding(r, s, row)
            /\ todo' = [todo EXCEPT ![r] = @ \ {s}]
            /\ UNCHANGED <<clock, userActive, rows, req, pc, log, audit, answer, snapshot>>

ReuseEvidence(r) == Events({"refresh_token_reuse", "token_family_revocation", "refresh_failure"}, "high")

LogoutEvidence(r) == Events({"logout", "token_family_revocation"}, "info")

FamilyRevoked(r) ==
    /\ pc[r] = "revoke"
    /\ todo[r] = {}
    /\ IF req[r].op = "refresh"
       THEN Append(r, ReuseEvidence(r), "rejected")
       ELSE Append(r, LogoutEvidence(r), "ok")

-----------------------------------------------------------------------------
(* Refresh *)

Replay(r) ==
    /\ Deciding(r, "refresh")
    /\ Spent(Current(r))
    /\ RevokeFamily(r)

RejectExpired(r) ==
    /\ Deciding(r, "refresh")
    /\ ~Spent(Current(r))
    /\ IsExpiredAt(Current(r), req[r].now)
    /\ Rollback(r, "rejected")

Presentable(r) == Deciding(r, "refresh") /\ IsActiveAt(Current(r), req[r].now)

RejectDisabled(r) ==
    /\ Presentable(r)
    /\ ~userActive
    /\ Append(r, Events({"disabled_account_rejection", "refresh_failure"}, "warning"), "rejected")

\* The limiter decides in a transaction of its own.
CheckRefreshLimit(r) ==
    /\ Presentable(r)
    /\ userActive
    /\ \/ /\ pc' = [pc EXCEPT ![r] = "replace"]
          /\ UNCHANGED <<clock, userActive, rows, draft, req, todo, log, audit, answer, snapshot>>
       \/ Rollback(r, "limited")
       \/ Faults /\ Rollback(r, "unavailable")

\* The partial unique index: another active generation of the family.
Rival(r, f) ==
    \E s \in Members(f) \ {Presented(r)} : Seen(r, s).state = "active"

\* A plausible bug: the presented generation stays active.
RotateAlongside(r) ==
    LET row == Current(r) IN
    /\ pc[r] = "replace"
    /\ draft' = [draft EXCEPT ![r][r] = Successor(row, req[r].now)]
    /\ log' = [log EXCEPT ![r] = Events({"refresh_success"}, "info")]
    /\ answer' = [answer EXCEPT ![r] = "ok"]
    /\ pc' = [pc EXCEPT ![r] = "commit"]
    /\ UNCHANGED <<clock, userActive, rows, req, todo, audit, snapshot>>

\* MarkReplaced and InsertReplacement.
Rotate(r) ==
    LET row == Current(r)
        now == req[r].now
    IN  /\ pc[r] = "replace"
        /\ IF ~CanPlanReplacement(Presented(r), row, r, now)
           THEN Rollback(r, "rejected")
           ELSE IF Rival(r, row.family) \/ rows[Presented(r)].state # "active"
           THEN Rollback(r, "conflict")
           ELSE /\ draft' = [draft EXCEPT ![r] =
                       InsertGeneration([@ EXCEPT ![Presented(r)] = MarkedReplaced(row, r, now)],
                                        r, Successor(row, now))]
                /\ log' = [log EXCEPT ![r] = Events({"refresh_success"}, "info")]
                /\ answer' = [answer EXCEPT ![r] = "ok"]
                /\ pc' = [pc EXCEPT ![r] = "commit"]
                /\ UNCHANGED <<clock, userActive, rows, req, todo, audit, snapshot>>

Refresh(r) ==
    \/ \E s \in Session : Begin(r, "refresh", s)
    \/ RejectUnknown(r, "refresh")
    \/ Replay(r)
    \/ RejectExpired(r)
    \/ RejectDisabled(r)
    \/ CheckRefreshLimit(r)
    \/ Rotate(r)

-----------------------------------------------------------------------------
(* Logout *)

RejectLogout(r) ==
    /\ Deciding(r, "logout")
    /\ ~IsActiveAt(Current(r), req[r].now)
    /\ Rollback(r, "rejected")

RevokeOnLogout(r) ==
    /\ Deciding(r, "logout")
    /\ IsActiveAt(Current(r), req[r].now)
    /\ RevokeFamily(r)

Logout(r) ==
    \/ \E s \in Session : Begin(r, "logout", s)
    \/ RejectUnknown(r, "logout")
    \/ RejectLogout(r)
    \/ RevokeOnLogout(r)

-----------------------------------------------------------------------------
(* What else happens *)

\* Register and login insert the first generation of a new family.
CreateInitial(f) ==
    /\ ~Exists(f)
    /\ userActive
    /\ \E now \in Now :
           rows' = InsertGeneration(rows, f,
                        NewActive(f, now, now + IdleLifetime, now + AbsoluteLimit))
    /\ UNCHANGED <<clock, userActive, draft, req, pc, todo, log, audit, answer, snapshot>>

\* One statement; it waits until none of the rows it wants is held.
MarkExpired ==
    LET stale == {s \in Session : Exists(s) /\ rows[s].state = "active"
                                  /\ (rows[s].idle <= clock \/ rows[s].absolute <= clock)}
    IN  /\ Maintenance
        /\ stale # {}
        /\ \A r \in Request : Held(r) \cap stale = {}
        /\ rows' = [s \in Session |-> IF s \in stale THEN MarkedExpired(rows[s]) ELSE rows[s]]
        /\ UNCHANGED <<clock, userActive, draft, req, pc, todo, log, audit, answer, snapshot>>

\* An operator disables the account.
DisableUser ==
    /\ userActive
    /\ userActive' = FALSE
    /\ UNCHANGED <<clock, rows, draft, req, pc, todo, log, audit, answer, snapshot>>

Tick ==
    /\ clock < MaxClock
    /\ clock' = clock + 1
    /\ UNCHANGED <<userActive, rows, draft, req, pc, todo, log, audit, answer, snapshot>>

Fail(r) ==
    /\ Faults
    /\ pc[r] \in InTransaction
    /\ Rollback(r, "fault")

WaitsFor(p, q) ==
    /\ p # q
    /\ pc[p] = "revoke"
    /\ todo[p] \cap Held(q) # {}

\* What would happen if nothing broke it.
KeepWaiting(r) == FALSE

\* PostgreSQL breaks a cycle of waiting transactions by failing one of them.
BreakDeadlock(r) ==
    /\ \E cycle \in SUBSET Request :
           r \in cycle /\ \A p \in cycle : \E q \in cycle : WaitsFor(p, q)
    /\ Rollback(r, "deadlock")

Step(r) ==
    \/ LockByDigest(r)
    \/ Refresh(r)
    \/ Logout(r)
    \/ \E s \in Session : RevokeRow(r, s)
    \/ FamilyRevoked(r)
    \/ Commit(r)
    \/ BreakDeadlock(r)

Init ==
    /\ clock = 0
    /\ userActive = TRUE
    /\ rows = [s \in Session |-> NoRow]
    /\ draft = [r \in Request |-> NoVersions]
    /\ req = [r \in Request |-> [op |-> "refresh", token |-> NoSession, now |-> 0]]
    /\ pc = [r \in Request |-> "idle"]
    /\ todo = [r \in Request |-> {}]
    /\ log = [r \in Request |-> {}]
    /\ audit = [r \in Request |-> {}]
    /\ answer = [r \in Request |-> "none"]
    /\ snapshot = [r \in Request |-> {}]

Next ==
    \/ \E r \in Request : Step(r) \/ Fail(r)
    \/ \E f \in Family : CreateInitial(f)
    \/ MarkExpired
    \/ DisableUser
    \/ Tick

Spec == Init /\ [][Next]_vars

\* A host never abandons a request that it began.
FairSpec == Spec /\ \A r \in Request : WF_vars(Step(r))

-----------------------------------------------------------------------------
(* Properties *)

\* The variables stay in their types.
TypeOK ==
    /\ clock \in 0..MaxClock
    /\ userActive \in BOOLEAN
    /\ rows \in [Session -> Row \cup {NoRow}]
    /\ draft \in [Request -> [Session -> Row \cup {NoRow}]]
    /\ req \in [Request -> [op : Op, token : Session \cup {NoSession}, now : Int]]
    /\ pc \in [Request -> PC]
    /\ todo \in [Request -> SUBSET Session]
    /\ log \in [Request -> SUBSET Event]
    /\ audit \in [Request -> SUBSET Event]
    /\ answer \in [Request -> Answer]
    /\ snapshot \in [Request -> SUBSET Session]

\* Every committed row can be read back by the constructor, whatever clocks
\* the rotations and revocations of its family were stamped with: a row
\* that could not would make its token unanswerable.
RowsWellFormed == \A s \in Session : Exists(s) => WellFormed(s, rows[s])

\* The generations of a family are one chain: each one but the first was
\* inserted by the rotation of exactly one other, of the same family, that
\* can never be presented with success again.  So a token is spent once,
\* however many requests present it at a time.
ChainIntact ==
    /\ \A r \in Request : Exists(r) =>
           \E s \in Session : /\ Exists(s)
                             /\ rows[s].replacement = r
                             /\ rows[s].family = rows[r].family
                             /\ Spent(rows[s])
    /\ \A s, t \in Session :
           Exists(s) /\ Exists(t) /\ rows[s].replacement = rows[t].replacement
           /\ rows[s].replacement # NoSession => s = t
    /\ \A s, t \in Session :
           Exists(s) /\ Exists(t) /\ rows[s].family = rows[t].family
           /\ rows[s].state = "active" /\ rows[t].state = "active" => s = t

\* No sequence of rotations carries a family past the absolute limit of the
\* login that began it.
FamilyNeverOutlivesLogin ==
    \A s \in Session : Exists(s) =>
        LET end == rows[rows[s].family].created + AbsoluteLimit
        IN  rows[s].created < end /\ rows[s].idle <= end /\ rows[s].absolute = end

\* The row lock of the presented generation is enough: no rotation ever
\* meets another active generation of its family, so none is refused by
\* the unique index.
NoRotationConflicts == \A r \in Request : answer[r] # "conflict"

\* The families, at every moment that another request may look at them.
FamiliesSound ==
    /\ TypeOK
    /\ RowsWellFormed
    /\ ChainIntact
    /\ FamilyNeverOutlivesLogin
    /\ NoRotationConflicts

\* The rows that a replay's UPDATE saw when it began are all revoked once
\* its evidence is committed, also those that other requests held, rotated
\* or revoked while it ran.
ReplayRevokesWhatItSaw ==
    \A r \in Request :
        ReuseEvidence(r) \subseteq audit[r] =>
            \A s \in snapshot[r] : rows[s].state = "revoked"

\* After a logout that was answered with success no generation of the
\* family can be refreshed again, also when refreshes of it were waiting.
LogoutIsFinal ==
    \A r \in Request :
        pc[r] = "done" /\ req[r].op = "logout" /\ answer[r] = "ok" =>
            \A s \in Members(FamilyOf(r)) : rows[s].state = "revoked"

\* Evidence and effect commit together: a generation exists iff a success
\* of its request is recorded, a revocation that is recorded took effect,
\* and one that took effect is recorded by a request for its reason.
EvidenceMatchesRows ==
    /\ \A r \in Request :
           Exists(r) <=> Events({"refresh_success"}, "info") \subseteq audit[r]
    /\ \A r \in Request : \A e \in audit[r] :
           e.action = "token_family_revocation" => rows[Presented(r)].state = "revoked"
    /\ \A s \in Session : Exists(s) /\ rows[s].state = "revoked" =>
           \E r \in Request :
               /\ Presented(r) # NoSession
               /\ FamilyOf(r) = rows[s].family
               /\ ReasonOf(r) = rows[s].reason
               /\ (IF req[r].op = "refresh" THEN ReuseEvidence(r) ELSE LogoutEvidence(r))
                      \subseteq audit[r]

\* Every request that began is answered, also when replays of different
\* generations of one family wait for each other's rows.
EveryRequestAnswered == \A r \in Request : pc[r] = "lock" ~> pc[r] = "done"

\* The rows, read as tokens: a request's statements up to its commit are
\* stutters, and the commit is one exchange or one revocation.
TokenStatus(s) ==
    CASE ~Exists(s) -> "unissued"
      [] Exists(s) /\ rows[s].state = "active" -> "live"
      [] Exists(s) /\ rows[s].state = "replaced" -> "spent"
      [] OTHER -> "dead"

Tokens == INSTANCE SingleUseTokens WITH
    Token <- Session,
    NoFamily <- NoSession,
    status <- [s \in Session |-> TokenStatus(s)],
    lineage <- [s \in Session |-> IF Exists(s) THEN rows[s].family ELSE NoSession]

\* Under every interleaving of refreshes, replays, logouts, logins and the
\* expiry sweep, tokens are issued, exchanged one for one, and ended for
\* good, each family apart from the others.
ImplementsSingleUseTokens == Tokens!Spec

=============================================================================
