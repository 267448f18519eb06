------------------------ MODULE RefreshRotationProofs ------------------------
(***************************************************************************)
(* Refresh-token families, for any families, requests, lifetimes and lags: *)
(* what every transaction holds in each phase, the soundness of the        *)
(* families, the evidence of what was done to them, and the step simulation*)
(* of SingleUseTokens.                                                     *)
(***************************************************************************)
EXTENDS RefreshRotation, TLAPS

-----------------------------------------------------------------------------
(* The invariant *)

\* A row version that the family UPDATE has yet to change, or has changed.
Untouched(r, s) == draft[r][s] = rows[s]

Revised(r, s) ==
    /\ rows[s].state # "revoked"
    /\ draft[r][s] = MarkedRevoked(rows[s], req[r].now, ReasonOf(r))
    /\ WellFormed(s, draft[r][s])

Kept(r) == [NoVersions EXCEPT ![Presented(r)] = rows[Presented(r)]]

Revoking(r) ==
    \A s \in Held(r) :
        /\ Exists(s)
        /\ rows[s].family = rows[Presented(r)].family
        /\ Untouched(r, s) \/ Revised(r, s)

Rotated(r) ==
    LET row == rows[Presented(r)] IN
    /\ ~Exists(r)
    /\ CanPlanReplacement(Presented(r), row, r, req[r].now)
    /\ draft[r] = InsertGeneration([NoVersions EXCEPT ![Presented(r)] =
                                        MarkedReplaced(row, r, req[r].now)],
                                   r, Successor(row, req[r].now))

\* What a request holds and knows in each phase of its transaction.
Transaction(r) ==
    /\ pc[r] \in InTransaction \cup {"lock"} => Presented(r) \in Session /\ Exists(Presented(r))
    /\ pc[r] \in {"idle", "lock", "done"} => draft[r] = NoVersions
    /\ pc[r] \in {"decide", "replace"} => draft[r] = Kept(r)
    /\ pc[r] = "replace" => IsActiveAt(rows[Presented(r)], req[r].now)
    /\ pc[r] = "revoke" => /\ Revoking(r)
                           /\ \A s \in todo[r] : /\ Exists(s)
                                                 /\ rows[s].family = rows[Presented(r)].family
    /\ pc[r] = "commit" => Revoking(r) \/ Rotated(r)
    /\ pc[r] # "done" => ~Exists(r)
    /\ answer[r] # "conflict"

\* Where a committed row stands in its family.
Placed(s) ==
    LET row == rows[s] IN
    Exists(s) => /\ WellFormed(s, row)
                 /\ Exists(row.family)
                 /\ row.absolute = rows[row.family].created + AbsoluteLimit
                 /\ row.replacement # NoSession => row.replacement \in Request /\ Exists(row.replacement)

LocksExclusive == \A q, r \in Request : q # r => Held(q) \cap Held(r) = {}

Inv ==
    /\ TypeOK
    /\ LocksExclusive
    /\ \A r \in Request : Transaction(r)
    /\ \A s \in Session : Placed(s)
    /\ ChainIntact

-----------------------------------------------------------------------------
(* Rows *)

LEMMA Names == /\ Family \cap Request = {} /\ NoSession \notin Session /\ NoTime \notin Int
               /\ Family \subseteq Session /\ Request \subseteq Session
               /\ IdleLifetime \in Nat \ {0} /\ AbsoluteLimit \in Nat
               /\ IdleLifetime <= AbsoluteLimit
BY NameAssumption, LifetimeAssumption DEF Session

LEMMA NoRowIsNone == /\ NoRow \notin Row
                     /\ \A row \in Row : row # NoRow
BY DEF NoRow, Row, State

LEMMA NewActiveRow ==
    ASSUME NEW f \in Family, NEW created \in Int, NEW idle \in Int, NEW absolute \in Int
    PROVE  NewActive(f, created, idle, absolute) \in Row
<1>1. "active" \in State /\ "none" \in Reason /\ NoTime \in Time
  BY DEF State, Reason, Time
<1> QED BY <1>1 DEF NewActive, Row

\* The first generation of a login.
LEMMA NewActiveWellFormed ==
    ASSUME NEW f \in Family, NEW now \in Int
    PROVE  LET row == NewActive(f, now, now + IdleLifetime, now + AbsoluteLimit)
           IN  /\ row \in Row /\ WellFormed(f, row)
               /\ row.family = f /\ row.created = now /\ row.state = "active"
               /\ row.absolute = now + AbsoluteLimit /\ row.replacement = NoSession
<1> DEFINE row == NewActive(f, now, now + IdleLifetime, now + AbsoluteLimit)
<1>1. /\ row.family = f /\ row.state = "active" /\ row.replacement = NoSession
      /\ row.created = now /\ row.replaced = NoTime
      /\ row.idle = now + IdleLifetime /\ row.absolute = now + AbsoluteLimit
      /\ row.revoked = NoTime /\ row.reason = "none"
  BY DEF NewActive
<1>2. row \in Row
  <2>1. now + IdleLifetime \in Int /\ now + AbsoluteLimit \in Int
    BY Names
  <2> QED BY <2>1, NewActiveRow
<1>3. row.replacement # f
  BY <1>1, Names
<1>4. LifecycleOK(f, row)
  BY <1>1, <1>3, Names DEF LifecycleOK, Before
<1>5. row.idle > row.created /\ row.absolute > row.created /\ row.idle <= row.absolute
  BY <1>1, Names
<1>6. WellFormed(f, row)
  BY <1>4, <1>5 DEF WellFormed
<1> QED BY <1>1, <1>2, <1>6

LEMMA RevokedRow ==
    ASSUME NEW row \in Row, NEW now \in Int, NEW reason \in Reason
    PROVE  LET new == MarkedRevoked(row, now, reason)
           IN  /\ new \in Row /\ new.state = "revoked" /\ new.family = row.family
               /\ new.created = row.created /\ new.absolute = row.absolute
               /\ new.replacement = row.replacement
BY DEF MarkedRevoked, Row, State, Time

LEMMA ExpiredRow ==
    ASSUME NEW s \in Session, NEW row \in Row, WellFormed(s, row), row.state = "active"
    PROVE  LET new == MarkedExpired(row)
           IN  /\ new \in Row /\ new.state = "expired" /\ new.family = row.family
               /\ new.created = row.created /\ new.absolute = row.absolute
               /\ new.replacement = row.replacement
               /\ WellFormed(s, new)
BY DEF MarkedExpired, Row, State, WellFormed, LifecycleOK, Before

LEMMA ReplacedRow ==
    ASSUME NEW s \in Session, NEW r \in Session, NEW row \in Row, NEW now \in Int
    PROVE  /\ LET old == MarkedReplaced(row, r, now)
              IN  /\ old \in Row /\ old.state = "replaced" /\ old.family = row.family
                  /\ old.created = row.created /\ old.absolute = row.absolute
                  /\ old.replacement = r
           /\ LET new == Successor(row, now)
              IN  /\ new \in Row /\ new.state = "active" /\ new.family = row.family
                  /\ new.absolute = row.absolute /\ new.replacement = NoSession
<1>1. LET old == MarkedReplaced(row, r, now)
      IN  /\ old \in Row /\ old.state = "replaced" /\ old.family = row.family
          /\ old.created = row.created /\ old.absolute = row.absolute
          /\ old.replacement = r
  BY DEF MarkedReplaced, Row, State, Time
<1>2. LET new == Successor(row, now)
      IN  /\ new \in Row /\ new.state = "active" /\ new.family = row.family
          /\ new.absolute = row.absolute /\ new.replacement = NoSession
  <2>1. /\ row.family \in Family /\ row.absolute \in Int
        /\ now + IdleLifetime \in Int
    BY Names DEF Row
  <2>2. MinTime(now + IdleLifetime, row.absolute) \in Int
    BY <2>1 DEF MinTime
  <2>3. Successor(row, now) \in Row
    BY <2>1, <2>2, NewActiveRow DEF Successor
  <2> QED BY <2>3 DEF Successor, NewActive
<1> QED BY <1>1, <1>2

LEMMA ActiveRow ==
    ASSUME NEW s \in Session, NEW row \in Row, WellFormed(s, row), row.state = "active"
    PROVE  row.replacement = NoSession
BY DEF WellFormed, LifecycleOK

-----------------------------------------------------------------------------
(* Initially *)

LEMMA InitInv == Init => Inv
<1> SUFFICES ASSUME Init PROVE Inv
  OBVIOUS
<1>1. TypeOK
  BY BoundAssumption DEF Init, TypeOK, NoVersions, NoRow, Op, PC, Answer
<1>2. \A s \in Session : ~Exists(s)
  BY DEF Init, Exists
<1>3. \A r \in Request : Held(r) = {}
  BY DEF Init, Held, NoVersions
<1>4. \A r \in Request : Transaction(r)
  BY <1>2, Names DEF Init, Transaction, InTransaction
<1>5. ChainIntact
  BY <1>2, Names DEF ChainIntact
<1> QED BY <1>1, <1>2, <1>3, <1>4, <1>5 DEF Inv, Placed, LocksExclusive

-----------------------------------------------------------------------------
(* Steps that leave the rows alone *)

\* What the other requests know stays true when one of them moves.
LEMMA OthersKeep ==
    ASSUME Inv, NEW r \in Request, UNCHANGED rows,
           \A q \in Request \ {r} :
               UNCHANGED <<draft[q], req[q], pc[q], todo[q], answer[q]>>,
           Transaction(r)', TypeOK',
           \A s \in Held(r)' : s \in Held(r) \/ \A q \in Request \ {r} : s \notin Held(q)
    PROVE  Inv'
<1>1. \A s \in Session : Exists(s)' = Exists(s) /\ Placed(s)'
  BY DEF Inv, Exists, Placed
<1>2. ChainIntact'
  BY DEF Inv, ChainIntact, Exists
<1>3. \A q \in Request \ {r} : Held(q)' = Held(q)
  BY DEF Held
<1>4. LocksExclusive'
  BY <1>3 DEF Inv, LocksExclusive
<1>5. ASSUME NEW q \in Request \ {r} PROVE Transaction(q)'
  <2>1. Transaction(q)
    BY DEF Inv
  <2>2. Presented(q)' = Presented(q) /\ ReasonOf(q)' = ReasonOf(q)
    BY DEF Presented, ReasonOf
  <2>3. Revoking(q)' = Revoking(q)
    BY <1>3, <2>2 DEF Revoking, Untouched, Revised, Exists
  <2>4. Rotated(q)' = Rotated(q) /\ Kept(q)' = Kept(q)
    BY <2>2 DEF Rotated, Kept, Exists
  <2> QED BY <2>1, <2>2, <2>3, <2>4, <1>1 DEF Transaction, Exists
<1> QED BY <1>1, <1>2, <1>4, <1>5 DEF Inv

LEMMA Evidence == \A actions \in SUBSET Action, severity \in {"info", "warning", "high"} :
                      Events(actions, severity) \subseteq Event
BY DEF Events, Event

LEMMA RollbackInv ==
    ASSUME Inv, NEW r \in Request, NEW result \in Answer \ {"conflict"}, Rollback(r, result)
    PROVE  Inv'
<1>1. /\ draft' = [draft EXCEPT ![r] = NoVersions] /\ todo' = [todo EXCEPT ![r] = {}]
      /\ log' = [log EXCEPT ![r] = {}]
      /\ pc' = [pc EXCEPT ![r] = "done"] /\ answer' = [answer EXCEPT ![r] = result]
      /\ UNCHANGED <<clock, userActive, rows, req, snapshot>>
  BY DEF Rollback, Finish
<1>2. TypeOK
  BY DEF Inv
<1>3. audit' \in [Request -> SUBSET Event]
  <2>1. Events({"refresh_failure"}, "warning") \subseteq Event
    BY Evidence DEF Action
  <2>2. audit' \in {[audit EXCEPT ![r] = @ \cup Events({"refresh_failure"}, "warning")], audit}
    BY DEF Rollback, BestEffortAudit
  <2> QED BY <1>2, <2>1, <2>2 DEF TypeOK
<1>4. TypeOK'
  <2>1. NoVersions \in [Session -> Row \cup {NoRow}]
    BY DEF NoVersions
  <2>2. draft' \in [Request -> [Session -> Row \cup {NoRow}]]
    BY <1>1, <1>2, <2>1 DEF TypeOK
  <2>3. pc' \in [Request -> PC] /\ answer' \in [Request -> Answer]
    BY <1>1, <1>2 DEF TypeOK, PC
  <2>4. todo' \in [Request -> SUBSET Session] /\ log' \in [Request -> SUBSET Event]
    BY <1>1, <1>2 DEF TypeOK
  <2> QED BY <1>1, <1>2, <1>3, <2>2, <2>3, <2>4 DEF TypeOK
<1>5. pc'[r] = "done" /\ draft'[r] = NoVersions /\ answer'[r] = result
  BY <1>1, <1>2 DEF TypeOK
<1>6. Transaction(r)'
  BY <1>5 DEF Transaction, InTransaction
<1>7. Held(r)' = {}
  BY <1>5 DEF Held, NoVersions
<1>8. \A q \in Request \ {r} : UNCHANGED <<draft[q], req[q], pc[q], todo[q], answer[q]>>
  BY <1>1, <1>2 DEF TypeOK
<1> QED BY <1>1, <1>4, <1>6, <1>7, <1>8, OthersKeep

\* A transaction that locked its row and changed nothing.
LEMMA KeptIsRevoking ==
    ASSUME Inv, NEW r \in Request, Presented(r) \in Session, Exists(Presented(r)), draft[r] = Kept(r)
    PROVE  Held(r) = {Presented(r)} /\ Untouched(r, Presented(r)) /\ Revoking(r)
<1>1. Held(r) = {Presented(r)} /\ Untouched(r, Presented(r))
  BY DEF Kept, Held, NoVersions, Untouched, Exists
<1> QED BY <1>1 DEF Revoking

LEMMA AppendInv ==
    ASSUME Inv, NEW r \in Request, NEW events \in SUBSET Event, NEW result \in {"ok", "rejected"},
           pc[r] \in {"decide", "revoke"}, Revoking(r), Append(r, events, result)
    PROVE  Inv'
<1>1. CASE Rollback(r, "fault")
  BY <1>1, RollbackInv DEF Answer
<1>2. CASE /\ log' = [log EXCEPT ![r] = events]
           /\ answer' = [answer EXCEPT ![r] = result]
           /\ pc' = [pc EXCEPT ![r] = "commit"]
           /\ UNCHANGED <<clock, userActive, rows, draft, req, todo, audit, snapshot>>
  <2>1. TypeOK
    BY DEF Inv
  <2>2. TypeOK'
    BY <1>2, <2>1 DEF TypeOK, PC, InTransaction, Answer
  <2>3. pc'[r] = "commit" /\ answer'[r] = result
    BY <1>2, <2>1 DEF TypeOK
  <2>4. Held(r)' = Held(r)
    BY <1>2 DEF Held
  <2>5. Revoking(r)'
    BY <1>2, <2>4 DEF Revoking, Exists, Presented, Untouched, Revised, ReasonOf
  <2>6. Transaction(r)'
    BY <1>2, <2>3, <2>5 DEF Inv, Transaction, InTransaction, Exists, Presented
  <2>7. \A q \in Request \ {r} : UNCHANGED <<draft[q], req[q], pc[q], todo[q], answer[q]>>
    BY <1>2, <2>1 DEF TypeOK
  <2> QED BY <1>2, <2>2, <2>4, <2>6, <2>7, OthersKeep
<1> QED BY <1>1, <1>2 DEF Append

-----------------------------------------------------------------------------
(* Beginning and locking *)

LEMMA BeginInv ==
    ASSUME Inv, NEW r \in Request, NEW op \in Op, NEW s \in Session, Begin(r, op, s)
    PROVE  Inv'
<1>1. PICK now \in Now : req' = [req EXCEPT ![r] = [op |-> op, token |-> s, now |-> now]]
  BY DEF Begin
<1>2. /\ pc[r] = "idle" /\ Exists(s) /\ pc' = [pc EXCEPT ![r] = "lock"]
      /\ UNCHANGED <<clock, userActive, rows, draft, todo, log, audit, answer, snapshot>>
  BY DEF Begin
<1>3. TypeOK /\ now \in Int
  BY DEF Inv, TypeOK, Now
<1>4. TypeOK'
  BY <1>1, <1>2, <1>3 DEF TypeOK, PC
<1>5. pc'[r] = "lock" /\ req'[r].token = s /\ draft'[r] = draft[r]
  BY <1>1, <1>2, <1>3 DEF TypeOK
<1>6. Transaction(r)'
  BY <1>2, <1>5 DEF Inv, Transaction, InTransaction, Exists, Presented
<1>7. Held(r)' = Held(r)
  BY <1>2 DEF Held
<1>8. \A q \in Request \ {r} : UNCHANGED <<draft[q], req[q], pc[q], todo[q], answer[q]>>
  BY <1>1, <1>2, <1>3 DEF TypeOK
<1> QED BY <1>2, <1>4, <1>6, <1>7, <1>8, OthersKeep

LEMMA RejectUnknownInv ==
    ASSUME Inv, NEW r \in Request, NEW op \in Op, RejectUnknown(r, op)
    PROVE  Inv'
<1>1. /\ pc[r] = "idle" /\ req' = [req EXCEPT ![r].op = op]
      /\ pc' = [pc EXCEPT ![r] = "done"] /\ answer' = [answer EXCEPT ![r] = "rejected"]
      /\ UNCHANGED <<clock, userActive, rows, draft, todo, log, snapshot>>
  BY DEF RejectUnknown, Finish
<1>2. TypeOK
  BY DEF Inv
<1>3. audit' \in [Request -> SUBSET Event]
  <2>1. Events({"refresh_failure"}, "warning") \subseteq Event
    BY Evidence DEF Action
  <2>2. audit' \in {[audit EXCEPT ![r] = @ \cup Events({"refresh_failure"}, "warning")], audit}
    BY DEF RejectUnknown, BestEffortAudit
  <2>3. audit \in [Request -> SUBSET Event]
    BY <1>2 DEF TypeOK
  <2> HIDE DEF Event
  <2>4. audit[r] \cup Events({"refresh_failure"}, "warning") \in SUBSET Event
    BY <2>1, <2>3
  <2>5. [audit EXCEPT ![r] = @ \cup Events({"refresh_failure"}, "warning")] \in [Request -> SUBSET Event]
    BY <2>3, <2>4
  <2> QED BY <2>2, <2>3, <2>5
<1>4. TypeOK'
  <2>1. req' \in [Request -> [op : Op, token : Session \cup {NoSession}, now : Int]]
    <3> DEFINE R == [op : Op, token : Session \cup {NoSession}, now : Int]
    <3>1. req \in [Request -> R]
      BY <1>2 DEF TypeOK
    <3>2. [req[r] EXCEPT !.op = op] \in R
      BY <3>1
    <3>3. req' = [req EXCEPT ![r] = [req[r] EXCEPT !.op = op]]
      BY <1>1
    <3> HIDE DEF R
    <3>4. req' \in [Request -> R]
      BY <3>1, <3>2, <3>3
    <3> QED BY <3>4 DEF R
  <2>2. pc' \in [Request -> PC] /\ answer' \in [Request -> Answer]
    BY <1>1, <1>2 DEF TypeOK, PC, Answer
  <2> QED BY <1>1, <1>2, <1>3, <2>1, <2>2 DEF TypeOK
<1>5. pc'[r] = "done" /\ answer'[r] = "rejected" /\ draft'[r] = NoVersions
  BY <1>1, <1>2 DEF TypeOK, Inv, Transaction
<1>6. Transaction(r)'
  BY <1>5 DEF Transaction, InTransaction
<1>7. Held(r)' = Held(r)
  BY <1>1 DEF Held
<1>8. \A q \in Request \ {r} : UNCHANGED <<draft[q], req[q], pc[q], todo[q], answer[q]>>
  BY <1>1, <1>2 DEF TypeOK
<1> QED BY <1>1, <1>4, <1>6, <1>7, <1>8, OthersKeep

LEMMA LockByDigestInv == ASSUME Inv, NEW r \in Request, LockByDigest(r) PROVE Inv'
<1> DEFINE p == Presented(r)
<1>1. /\ pc[r] = "lock" /\ ~LockedByOther(r, p) /\ draft' = [draft EXCEPT ![r][p] = rows[p]]
      /\ pc' = [pc EXCEPT ![r] = "decide"]
      /\ UNCHANGED <<clock, userActive, rows, req, todo, log, audit, answer, snapshot>>
  BY DEF LockByDigest, SelectForUpdate, Holding
<1>2. /\ TypeOK /\ p \in Session /\ Exists(p) /\ draft[r] = NoVersions /\ ~Exists(r)
      /\ answer[r] # "conflict"
  BY <1>1 DEF Inv, Transaction
<1>3. rows[p] \in Row \cup {NoRow}
  BY <1>2 DEF TypeOK
<1>4. TypeOK'
  <2>1. draft' \in [Request -> [Session -> Row \cup {NoRow}]]
    BY <1>1, <1>2, <1>3 DEF TypeOK
  <2>2. pc' \in [Request -> PC]
    BY <1>1, <1>2 DEF TypeOK, PC, InTransaction
  <2> QED BY <1>1, <1>2, <2>1, <2>2 DEF TypeOK
<1>5. pc'[r] = "decide" /\ draft'[r] = [NoVersions EXCEPT ![p] = rows[p]]
  BY <1>1, <1>2 DEF TypeOK
<1>6. Transaction(r)'
  BY <1>1, <1>2, <1>5 DEF Transaction, InTransaction, Kept, Presented, Exists
<1>7. Held(r)' \subseteq {p}
  BY <1>5 DEF Held, NoVersions
<1>8. \A q \in Request \ {r} : UNCHANGED <<draft[q], req[q], pc[q], todo[q], answer[q]>>
  BY <1>1, <1>2 DEF TypeOK
<1>9. \A q \in Request \ {r} : p \notin Held(q)
  BY <1>1 DEF LockedByOther
<1> QED BY <1>1, <1>4, <1>6, <1>7, <1>8, <1>9, OthersKeep

-----------------------------------------------------------------------------
(* Deciding *)

\* What holds when the presented generation is locked.
LEMMA Locked ==
    ASSUME Inv, NEW r \in Request, pc[r] \in {"decide", "replace"}
    PROVE  /\ Presented(r) \in Session /\ Exists(Presented(r)) /\ draft[r] = Kept(r)
           /\ Held(r) = {Presented(r)} /\ Revoking(r)
           /\ Current(r) = rows[Presented(r)] /\ ~Exists(r) /\ answer[r] # "conflict"
           /\ rows[Presented(r)] \in Row
<1>1. /\ Presented(r) \in Session /\ Exists(Presented(r)) /\ draft[r] = Kept(r)
      /\ ~Exists(r) /\ answer[r] # "conflict"
  BY DEF Inv, Transaction, InTransaction
<1>2. Held(r) = {Presented(r)} /\ Untouched(r, Presented(r)) /\ Revoking(r)
  BY <1>1, KeptIsRevoking
<1>3. Current(r) = rows[Presented(r)]
  BY <1>2 DEF Current, Seen, Untouched
<1>4. rows[Presented(r)] \in Row
  BY <1>1 DEF Inv, TypeOK, Exists
<1> QED BY <1>1, <1>2, <1>3, <1>4

LEMMA RevokeFamilyInv ==
    ASSUME Inv, NEW r \in Request, pc[r] = "decide", RevokeFamily(r)
    PROVE  Inv'
<1> DEFINE members == Members(FamilyOf(r))
<1>1. /\ todo' = [todo EXCEPT ![r] = {s \in members : NotYetRevoked(Seen(r, s))}]
      /\ snapshot' = [snapshot EXCEPT ![r] = members]
      /\ pc' = [pc EXCEPT ![r] = "revoke"]
      /\ UNCHANGED <<clock, userActive, rows, draft, req, log, audit, answer>>
  BY DEF RevokeFamily
<1>2. TypeOK /\ members \subseteq Session
  BY DEF Inv, Members
<1>3. TypeOK'
  BY <1>1, <1>2 DEF TypeOK, PC, InTransaction
<1>4. pc'[r] = "revoke" /\ todo'[r] \subseteq members
  BY <1>1, <1>2 DEF TypeOK
<1>5. \A s \in members : Exists(s) /\ rows[s].family = rows[Presented(r)].family
  BY DEF Members, FamilyOf, Exists
<1>6. Held(r)' = Held(r)
  BY <1>1 DEF Held
<1>7. Revoking(r)'
  BY <1>1, <1>6, Locked DEF Revoking, Exists, Presented, Untouched, Revised, ReasonOf
<1>8. Transaction(r)'
  BY <1>1, <1>4, <1>5, <1>7, Locked DEF Transaction, InTransaction, Exists, Presented
<1>9. \A q \in Request \ {r} : UNCHANGED <<draft[q], req[q], pc[q], todo[q], answer[q]>>
  BY <1>1, <1>2 DEF TypeOK
<1> QED BY <1>1, <1>3, <1>6, <1>8, <1>9, OthersKeep

LEMMA CheckRefreshLimitInv == ASSUME Inv, NEW r \in Request, CheckRefreshLimit(r) PROVE Inv'
<1>1. CASE Rollback(r, "limited") \/ Rollback(r, "unavailable")
  BY <1>1, RollbackInv DEF Answer
<1>2. CASE /\ pc' = [pc EXCEPT ![r] = "replace"]
           /\ UNCHANGED <<clock, userActive, rows, draft, req, todo, log, audit, answer, snapshot>>
  <2>1. TypeOK /\ pc[r] = "decide" /\ IsActiveAt(Current(r), req[r].now)
    BY DEF Inv, CheckRefreshLimit, Presentable, Deciding
  <2>2. TypeOK'
    BY <1>2, <2>1 DEF TypeOK, PC, InTransaction
  <2>3. pc'[r] = "replace"
    BY <1>2, <2>1 DEF TypeOK
  <2>4. Held(r)' = Held(r)
    BY <1>2 DEF Held
  <2>5. Transaction(r)'
    BY <1>2, <2>1, <2>3, Locked DEF Transaction, InTransaction, Exists, Presented, Kept
  <2>6. \A q \in Request \ {r} : UNCHANGED <<draft[q], req[q], pc[q], todo[q], answer[q]>>
    BY <1>2, <2>1 DEF TypeOK
  <2> QED BY <1>2, <2>2, <2>4, <2>5, <2>6, OthersKeep
<1> QED BY <1>1, <1>2 DEF CheckRefreshLimit

LEMMA RejectDisabledInv == ASSUME Inv, NEW r \in Request, RejectDisabled(r) PROVE Inv'
<1>1. pc[r] = "decide"
  BY DEF RejectDisabled, Presentable, Deciding
<1>2. Events({"disabled_account_rejection", "refresh_failure"}, "warning") \in SUBSET Event
  BY Evidence DEF Action
<1> QED BY <1>1, <1>2, Locked, AppendInv DEF RejectDisabled

-----------------------------------------------------------------------------
(* Rotating *)

\* The unique index has nothing to refuse: the family's one active generation
\* is the one that is locked.
LEMMA NoRival ==
    ASSUME Inv, NEW r \in Request, pc[r] = "replace"
    PROVE  /\ ~Rival(r, Current(r).family)
           /\ rows[Presented(r)].state = "active"
<1> DEFINE p == Presented(r)
<1>1. IsActiveAt(rows[p], req[r].now)
  BY DEF Inv, Transaction
<1>2. rows[p].state = "active"
  BY <1>1 DEF IsActiveAt
<1>3. ASSUME NEW s \in Members(rows[p].family) \ {p} PROVE Seen(r, s).state # "active"
  <2>1. Seen(r, s) = rows[s] /\ Exists(s) /\ s \in Session /\ rows[s].family = rows[p].family
    BY Locked DEF Seen, Members, Exists
  <2>2. rows[s].state # "active"
    BY <1>2, <2>1, Locked DEF Inv, ChainIntact
  <2> QED BY <2>1, <2>2
<1> QED BY <1>2, <1>3, Locked DEF Rival

LEMMA RotateInv == ASSUME Inv, NEW r \in Request, Rotate(r) PROVE Inv'
<1> DEFINE p == Presented(r)
           now == req[r].now
           row == rows[p]
<1>1. pc[r] = "replace" /\ Current(r) = row
  BY Locked DEF Rotate
<1>2. CASE Rollback(r, "rejected")
  BY <1>2, RollbackInv DEF Answer
<1>3. CASE ~Rollback(r, "rejected")
  <2>1. CanPlanReplacement(p, row, r, now)
    BY <1>1, <1>3 DEF Rotate
  <2>2. /\ draft' = [draft EXCEPT ![r] =
                InsertGeneration([draft[r] EXCEPT ![p] = MarkedReplaced(row, r, now)],
                                 r, Successor(row, now))]
        /\ log' = [log EXCEPT ![r] = Events({"refresh_success"}, "info")]
        /\ answer' = [answer EXCEPT ![r] = "ok"]
        /\ pc' = [pc EXCEPT ![r] = "commit"]
        /\ UNCHANGED <<clock, userActive, rows, req, todo, audit, snapshot>>
    BY <1>1, <2>1, NoRival DEF Rotate
  <2>3. /\ TypeOK /\ p \in Session /\ r \in Session /\ row \in Row /\ now \in Int
        /\ draft[r] = Kept(r) /\ ~Exists(r) /\ Held(r) = {p}
    BY <1>1, Locked, Names DEF Inv, TypeOK
  <2>4. MarkedReplaced(row, r, now) \in Row /\ Successor(row, now) \in Row
    BY <2>3, ReplacedRow
  <2>5. draft'[r] = InsertGeneration([NoVersions EXCEPT ![p] = MarkedReplaced(row, r, now)],
                                     r, Successor(row, now))
    BY <2>2, <2>3 DEF TypeOK, Kept, InsertGeneration, NoVersions
  <2>6. TypeOK'
    <3>1. draft'[r] \in [Session -> Row \cup {NoRow}]
      BY <2>3, <2>4, <2>5 DEF InsertGeneration, NoVersions
    <3>2. draft' \in [Request -> [Session -> Row \cup {NoRow}]]
      BY <2>2, <2>3, <3>1 DEF TypeOK
    <3>3. log' \in [Request -> SUBSET Event]
      <4>1. Events({"refresh_success"}, "info") \subseteq Event
        BY Evidence DEF Action
      <4> QED BY <2>2, <2>3, <4>1 DEF TypeOK
    <3>4. pc' \in [Request -> PC] /\ answer' \in [Request -> Answer]
      BY <2>2, <2>3 DEF TypeOK, PC, InTransaction, Answer
    <3> QED BY <2>2, <2>3, <3>2, <3>3, <3>4 DEF TypeOK
  <2>7. pc'[r] = "commit" /\ answer'[r] = "ok"
    BY <2>2, <2>3 DEF TypeOK
  <2>8. Rotated(r)'
    BY <2>1, <2>2, <2>3, <2>5 DEF Rotated, Exists, Presented
  <2>9. Transaction(r)'
    BY <1>1, <2>2, <2>3, <2>7, <2>8, Locked DEF Transaction, InTransaction, Exists, Presented
  <2>10. Held(r)' \subseteq {p, r}
    BY <2>3, <2>5 DEF Held, InsertGeneration, NoVersions
  <2>11. \A q \in Request \ {r} : UNCHANGED <<draft[q], req[q], pc[q], todo[q], answer[q]>>
    BY <2>2, <2>3 DEF TypeOK
  <2>12. ASSUME NEW q \in Request \ {r} PROVE r \notin Held(q)
    <3>1. CASE pc[q] \in {"idle", "lock", "done"}
      BY <2>3, <3>1 DEF Inv, Transaction, Held, NoVersions
    <3>2. CASE pc[q] \in {"decide", "replace"}
      BY <2>3, <3>2, Locked
    <3>3. CASE Revoking(q)
      BY <2>3, <3>3 DEF Revoking
    <3>4. CASE pc[q] = "commit" /\ Rotated(q)
      <4>1. Presented(q) \in Session /\ Exists(Presented(q))
        BY <3>4 DEF Inv, Transaction, InTransaction
      <4>2. Held(q) \subseteq {Presented(q), q}
        BY <3>4, <4>1, Names DEF Rotated, Held, InsertGeneration, NoVersions
      <4> QED BY <2>3, <4>1, <4>2
    <3> QED BY <2>3, <3>1, <3>2, <3>3, <3>4 DEF Inv, Transaction, TypeOK, PC, InTransaction
  <2> QED BY <2>2, <2>3, <2>6, <2>9, <2>10, <2>11, <2>12, OthersKeep
<1> QED BY <1>2, <1>3

-----------------------------------------------------------------------------
(* Revoking *)

LEMMA RevokeRowInv ==
    ASSUME Inv, NEW r \in Request, NEW s \in Session, RevokeRow(r, s)
    PROVE  Inv'
<1> DEFINE row == MarkedRevoked(Seen(r, s), req[r].now, ReasonOf(r))
<1>1. /\ pc[r] = "revoke" /\ s \in todo[r] /\ ~LockedByOther(r, s)
      /\ TypeOK /\ Transaction(r)
  BY DEF RevokeRow, Inv
<1>2. /\ Revoking(r) /\ Exists(s) /\ rows[s].family = rows[Presented(r)].family
      /\ rows[s] \in Row /\ req[r].now \in Int /\ ReasonOf(r) \in Reason
  BY <1>1 DEF Transaction, TypeOK, Exists, ReasonOf, Reason
<1>3. \A q \in Request \ {r} : s \notin Held(q)
  BY <1>1 DEF LockedByOther
<1>4. CASE Rollback(r, "constraint")
  BY <1>4, RollbackInv DEF Answer
<1>5. CASE /\ todo' = [todo EXCEPT ![r] = @ \ {s}]
           /\ UNCHANGED <<clock, userActive, rows, draft, req, pc, log, audit, answer, snapshot>>
  <2>1. TypeOK'
    BY <1>1, <1>5 DEF TypeOK
  <2>2. Held(r)' = Held(r) /\ todo'[r] \subseteq todo[r]
    BY <1>1, <1>5 DEF Held, TypeOK
  <2>3. Revoking(r)'
    BY <1>2, <1>5, <2>2 DEF Revoking, Exists, Presented, Untouched, Revised, ReasonOf
  <2>4. Transaction(r)'
    BY <1>1, <1>5, <2>2, <2>3 DEF Transaction, InTransaction, Exists, Presented
  <2>5. \A q \in Request \ {r} : UNCHANGED <<draft[q], req[q], pc[q], todo[q], answer[q]>>
    BY <1>1, <1>5 DEF TypeOK
  <2> QED BY <1>5, <2>1, <2>2, <2>4, <2>5, OthersKeep
<1>6. CASE /\ NotYetRevoked(Seen(r, s)) /\ Readable(s, row)
           /\ draft' = [draft EXCEPT ![r][s] = row]
           /\ todo' = [todo EXCEPT ![r] = @ \ {s}]
           /\ UNCHANGED <<clock, userActive, rows, req, pc, log, audit, answer, snapshot>>
  <2>1. Seen(r, s) = rows[s]
    BY <1>2, <1>6, RevokedRow DEF Seen, Revoking, Untouched, Revised, NotYetRevoked
  <2>2. row \in Row
    BY <1>2, <2>1, RevokedRow
  <2>3. TypeOK'
    <3>1. draft' \in [Request -> [Session -> Row \cup {NoRow}]]
      BY <1>1, <1>6, <2>2 DEF TypeOK
    <3>2. todo' \in [Request -> SUBSET Session]
      BY <1>1, <1>6 DEF TypeOK
    <3> QED BY <1>1, <1>6, <3>1, <3>2 DEF TypeOK
  <2>4. draft'[r] = [draft[r] EXCEPT ![s] = row] /\ todo'[r] \subseteq todo[r]
    BY <1>1, <1>6 DEF TypeOK
  <2>5. draft'[r][s] = row /\ \A t \in Session \ {s} : draft'[r][t] = draft[r][t]
    BY <1>1, <2>4 DEF TypeOK
  <2>6. Held(r)' \subseteq Held(r) \cup {s}
    BY <2>5 DEF Held
  <2>7. Revised(r, s)'
    BY <1>6, <2>1, <2>5 DEF Revised, NotYetRevoked, Readable, ReasonOf
  <2>8. ASSUME NEW t \in Held(r)'
        PROVE  /\ Exists(t)' /\ rows'[t].family = rows'[Presented(r)'].family
               /\ Untouched(r, t)' \/ Revised(r, t)'
    <3>1. CASE t = s
      BY <1>2, <1>6, <2>7, <3>1 DEF Exists, Presented
    <3>2. CASE t # s
      <4>1. t \in Held(r) /\ draft'[r][t] = draft[r][t]
        BY <2>5, <2>6, <3>2 DEF Held
      <4> QED BY <1>2, <1>6, <4>1 DEF Revoking, Exists, Presented, Untouched, Revised, ReasonOf
    <3> QED BY <3>1, <3>2
  <2>9. Revoking(r)'
    BY <2>8 DEF Revoking
  <2>10. Transaction(r)'
    BY <1>1, <1>6, <2>4, <2>9 DEF Transaction, InTransaction, Exists, Presented
  <2>11. \A q \in Request \ {r} : UNCHANGED <<draft[q], req[q], pc[q], todo[q], answer[q]>>
    BY <1>1, <1>6 DEF TypeOK
  <2> QED BY <1>3, <1>6, <2>3, <2>6, <2>10, <2>11, OthersKeep
<1> QED BY <1>4, <1>5, <1>6 DEF RevokeRow, Holding

LEMMA FamilyRevokedInv == ASSUME Inv, NEW r \in Request, FamilyRevoked(r) PROVE Inv'
<1>1. pc[r] = "revoke" /\ Revoking(r)
  BY DEF FamilyRevoked, Inv, Transaction
<1>2. ReuseEvidence(r) \in SUBSET Event /\ LogoutEvidence(r) \in SUBSET Event
  BY Evidence DEF ReuseEvidence, LogoutEvidence, Action
<1> QED BY <1>1, <1>2, AppendInv DEF FamilyRevoked

-----------------------------------------------------------------------------
(* Steps that change the rows *)

\* A request goes on undisturbed while others' rows change.
LEMMA Undisturbed ==
    ASSUME Inv, NEW q \in Request,
           UNCHANGED <<draft[q], req[q], pc[q], todo[q], answer[q]>>,
           \A s \in Session : Exists(s) => Exists(s)' /\ rows'[s].family = rows[s].family,
           \A s \in Held(q) : Exists(s) => rows'[s] = rows[s],
           pc[q] # "done" /\ ~Exists(q) => ~Exists(q)'
    PROVE  Transaction(q)'
<1>1. Transaction(q) /\ TypeOK
  BY DEF Inv
<1>2. Presented(q)' = Presented(q) /\ ReasonOf(q)' = ReasonOf(q) /\ Held(q)' = Held(q)
  BY DEF Presented, ReasonOf, Held
<1>3. pc[q] \in InTransaction \cup {"lock"} => Presented(q) \in Session /\ Exists(Presented(q))
  BY <1>1 DEF Transaction
<1>4. ASSUME pc[q] \in InTransaction, Revoking(q) PROVE Revoking(q)'
  <2>1. Presented(q) \in Session /\ Exists(Presented(q))
    BY <1>3, <1>4
  <2>2. ASSUME NEW s \in Held(q)
        PROVE  /\ Exists(s)' /\ rows'[s].family = rows'[Presented(q)].family
               /\ Untouched(q, s)' \/ Revised(q, s)'
    <3>1. /\ s \in Session /\ Exists(s) /\ rows[s].family = rows[Presented(q)].family
          /\ Untouched(q, s) \/ Revised(q, s)
      BY <1>4 DEF Revoking, Held
    <3>2. rows'[s] = rows[s] /\ Exists(s)'
      BY <3>1
    <3>3. rows'[Presented(q)].family = rows[Presented(q)].family
      BY <2>1
    <3> QED BY <1>2, <3>1, <3>2, <3>3 DEF Untouched, Revised
  <2> QED BY <1>2, <2>2 DEF Revoking
<1>5. ASSUME pc[q] \in {"decide", "replace"}
      PROVE  rows'[Presented(q)] = rows[Presented(q)]
  BY <1>5, Locked
<1>6. ASSUME pc[q] = "commit", Rotated(q) PROVE Rotated(q)'
  <2>1. Presented(q) \in Session /\ Exists(Presented(q)) /\ ~Exists(q) /\ q \in Session
    BY <1>3, <1>6, Names DEF InTransaction, Rotated
  <2>2. draft[q][Presented(q)] = MarkedReplaced(rows[Presented(q)], q, req[q].now)
    BY <1>6, <2>1 DEF Rotated, InsertGeneration, NoVersions
  <2>3. draft[q][Presented(q)].state = "replaced"
    <3>1. rows[Presented(q)] \in Row /\ req[q].now \in Int
      BY <1>1, <2>1 DEF TypeOK, Exists
    <3> QED BY <2>1, <2>2, <3>1, ReplacedRow
  <2>4. Presented(q) \in Held(q)
    BY <2>1, <2>3 DEF Held, NoRow
  <2>5. rows'[Presented(q)] = rows[Presented(q)] /\ ~Exists(q)'
    BY <1>6, <2>1, <2>4
  <2> QED BY <1>2, <1>6, <2>5 DEF Rotated
<1>7. /\ pc'[q] \in InTransaction \cup {"lock"} => Presented(q)' \in Session /\ Exists(Presented(q))'
      /\ pc'[q] \in {"idle", "lock", "done"} => draft'[q] = NoVersions
      /\ answer'[q] # "conflict"
  BY <1>1, <1>2, <1>3 DEF Transaction, Exists
<1>8. pc'[q] \in {"decide", "replace"} => draft'[q] = Kept(q)'
  BY <1>1, <1>2, <1>5 DEF Transaction, Kept
<1>9. pc'[q] = "replace" => IsActiveAt(rows[Presented(q)], req[q].now)'
  BY <1>1, <1>2, <1>5 DEF Transaction
<1>10. pc'[q] = "revoke" => /\ Revoking(q)'
                            /\ \A s \in todo'[q] : /\ Exists(s)'
                                                   /\ rows'[s].family = rows'[Presented(q)'].family
  BY <1>1, <1>2, <1>3, <1>4 DEF Transaction, InTransaction, TypeOK
<1>11. pc'[q] = "commit" => Revoking(q)' \/ Rotated(q)'
  BY <1>1, <1>4, <1>6 DEF Transaction, InTransaction
<1>12. pc'[q] # "done" => ~Exists(q)'
  BY <1>1 DEF Transaction
<1> QED BY <1>7, <1>8, <1>9, <1>10, <1>11, <1>12 DEF Transaction

\* Rows that are revoked or expire leave their families sound.
LEMMA Ended ==
    ASSUME Inv, rows' \in [Session -> Row \cup {NoRow}],
           \A s \in Session :
               \/ rows'[s] = rows[s]
               \/ /\ Exists(s) /\ rows'[s] \in Row /\ WellFormed(s, rows'[s])
                  /\ rows'[s].family = rows[s].family
                  /\ rows'[s].created = rows[s].created
                  /\ rows'[s].absolute = rows[s].absolute
                  /\ rows'[s].replacement = rows[s].replacement
                  /\ \/ rows'[s].state = "revoked"
                     \/ rows'[s].state = "expired" /\ rows[s].state = "active"
    PROVE  /\ \A s \in Session : Exists(s)' = Exists(s) /\ Placed(s)'
           /\ \A s \in Session : Exists(s) => rows'[s].family = rows[s].family
           /\ ChainIntact'
<1>1. TypeOK /\ ChainIntact /\ \A s \in Session : Placed(s)
  BY DEF Inv
<1>2. \A s \in Session : Exists(s)' = Exists(s)
  BY NoRowIsNone DEF Exists
<1>3. \A s \in Session : Exists(s) =>
          /\ rows'[s].family = rows[s].family /\ rows'[s].created = rows[s].created
          /\ rows'[s].absolute = rows[s].absolute /\ rows'[s].replacement = rows[s].replacement
          /\ rows'[s].state = "active" => rows[s].state = "active"
          /\ Spent(rows[s]) => Spent(rows'[s])
  BY DEF Spent
<1>4. ASSUME NEW s \in Session PROVE Placed(s)'
  <2>1. SUFFICES ASSUME Exists(s)
                 PROVE  /\ WellFormed(s, rows'[s])
                        /\ Exists(rows[s].family)'
                        /\ rows'[s].absolute = rows'[rows'[s].family].created + AbsoluteLimit
                        /\ rows'[s].replacement # NoSession =>
                               rows'[s].replacement \in Request /\ Exists(rows[s].replacement)'
    BY <1>2 DEF Placed, Exists
  <2>2. rows[s].family \in Session
    BY <1>1, <2>1, Names DEF TypeOK, Exists, Row
  <2>3. /\ WellFormed(s, rows[s]) /\ Exists(rows[s].family)
        /\ rows[s].absolute = rows[rows[s].family].created + AbsoluteLimit
        /\ rows[s].replacement # NoSession =>
               rows[s].replacement \in Request /\ Exists(rows[s].replacement)
    BY <1>1, <2>1 DEF Placed
  <2>4. WellFormed(s, rows'[s])
    BY <2>3
  <2>5. Exists(rows[s].family)' /\ rows'[rows'[s].family].created = rows[rows[s].family].created
    BY <1>2, <1>3, <2>1, <2>2, <2>3 DEF Exists
  <2>6. rows'[s].replacement # NoSession =>
            rows'[s].replacement \in Request /\ Exists(rows[s].replacement)'
    BY <1>2, <1>3, <2>1, <2>3, Names DEF Exists
  <2> QED BY <1>3, <2>1, <2>3, <2>4, <2>5, <2>6
<1>5. ChainIntact'
  <2>1. ASSUME NEW r \in Request, Exists(r)'
        PROVE  \E s \in Session : /\ Exists(s)' /\ rows'[s].replacement = r
                                  /\ rows'[s].family = rows'[r].family
                                  /\ Spent(rows'[s])
    <3>1. r \in Session /\ Exists(r)
      BY <1>2, <2>1, Names
    <3>2. PICK s \in Session : /\ Exists(s) /\ rows[s].replacement = r
                               /\ rows[s].family = rows[r].family /\ Spent(rows[s])
      BY <1>1, <3>1 DEF ChainIntact
    <3> QED BY <1>2, <1>3, <3>1, <3>2
  <2>2. ASSUME NEW s \in Session, NEW t \in Session, Exists(s)', Exists(t)',
               rows'[s].replacement = rows'[t].replacement, rows'[s].replacement # NoSession
        PROVE  s = t
    <3>1. Exists(s) /\ Exists(t)
      BY <1>2, <2>2
    <3> QED BY <1>1, <1>3, <2>2, <3>1 DEF ChainIntact
  <2>3. ASSUME NEW s \in Session, NEW t \in Session, Exists(s)', Exists(t)',
               rows'[s].family = rows'[t].family,
               rows'[s].state = "active", rows'[t].state = "active"
        PROVE  s = t
    <3>1. Exists(s) /\ Exists(t)
      BY <1>2, <2>3
    <3> QED BY <1>1, <1>3, <2>3, <3>1 DEF ChainIntact
  <2> QED BY <2>1, <2>2, <2>3 DEF ChainIntact, Exists
<1> QED BY <1>2, <1>3, <1>4, <1>5

\* A rotation extends the chain of its family by one generation.
LEMMA Extended ==
    ASSUME Inv, NEW r \in Request, NEW p \in Session, p = Presented(r), Exists(p), Rotated(r),
           NEW old, NEW new,
           old = MarkedReplaced(rows[p], r, req[r].now),
           new = Successor(rows[p], req[r].now),
           rows' = [rows EXCEPT ![p] = old, ![r] = new]
    PROVE  /\ rows' \in [Session -> Row \cup {NoRow}]
           /\ \A s \in Session : Exists(s)' <=> Exists(s) \/ s = r
           /\ \A s \in Session : Exists(s) => rows'[s].family = rows[s].family
           /\ \A s \in Session : Placed(s)'
           /\ ChainIntact'
<1> DEFINE row == rows[p]
<1>1. /\ p \in Session /\ r \in Session /\ p # r /\ row \in Row /\ ~Exists(r)
      /\ req[r].now \in Int /\ TypeOK
      /\ CanPlanReplacement(p, row, r, req[r].now)
  BY Names DEF Inv, TypeOK, Exists, Rotated
<1>2. /\ row.state = "active" /\ WellFormed(r, new) /\ WellFormed(p, old)
  BY <1>1 DEF CanPlanReplacement, Eligible
<1>3. /\ old \in Row /\ old.state = "replaced" /\ old.family = row.family
      /\ old.created = row.created /\ old.absolute = row.absolute /\ old.replacement = r
      /\ new \in Row /\ new.state = "active" /\ new.family = row.family
      /\ new.absolute = row.absolute /\ new.replacement = NoSession
  BY <1>1, ReplacedRow
<1>4. rows'[p] = old /\ rows'[r] = new /\ \A s \in Session \ {p, r} : rows'[s] = rows[s]
  BY <1>1 DEF TypeOK
<1>5. rows' \in [Session -> Row \cup {NoRow}]
  BY <1>1, <1>3 DEF TypeOK
<1>6. \A s \in Session : Exists(s)' <=> Exists(s) \/ s = r
  BY <1>1, <1>3, <1>4, NoRowIsNone DEF Exists
<1>7. \A s \in Session : Exists(s) => /\ rows'[s].family = rows[s].family
                                      /\ rows'[s].created = rows[s].created
                                      /\ rows'[s].absolute = rows[s].absolute
  BY <1>1, <1>3, <1>4
<1>8. row.replacement = NoSession
  BY <1>1, <1>2, ActiveRow DEF Inv, Placed
<1>9. ASSUME NEW s \in Session PROVE Placed(s)'
  <2>1. CASE ~Exists(s) /\ s # r
    BY <1>6, <2>1 DEF Placed
  <2>2. CASE Exists(s)
    <3>1. /\ WellFormed(s, rows[s]) /\ Exists(rows[s].family)
          /\ rows[s].absolute = rows[rows[s].family].created + AbsoluteLimit
          /\ rows[s].replacement # NoSession =>
                 rows[s].replacement \in Request /\ Exists(rows[s].replacement)
          /\ rows[s].family \in Session
      BY <2>2, <1>1, Names DEF Inv, Placed, TypeOK, Exists, Row
    <3>2. s # r /\ WellFormed(s, rows'[s])
      BY <1>1, <1>2, <1>4, <2>2, <3>1
    <3>3. Exists(rows[s].family)' /\ rows'[rows'[s].family].created = rows[rows[s].family].created
      BY <1>6, <1>7, <2>2, <3>1 DEF Exists
    <3>4. rows'[s].replacement # NoSession =>
              rows'[s].replacement \in Request /\ Exists(rows[s].replacement)'
      <4>1. \A t \in Session : Exists(t) \/ t = r => rows'[t] # NoRow
        BY <1>6 DEF Exists
      <4>2. CASE s = p
        <5>1. rows'[s].replacement = r /\ r \in Session
          BY <1>1, <1>3, <1>4, <4>2
        <5> QED BY <4>1, <5>1 DEF Exists
      <4>3. CASE s # p
        BY <1>4, <3>1, <3>2, <4>1, <4>3, Names DEF Exists
      <4> QED BY <4>2, <4>3
    <3> QED BY <1>7, <2>2, <3>1, <3>2, <3>3, <3>4 DEF Placed
  <2>3. CASE s = r
    <3>1. /\ Exists(row.family) /\ row.absolute = rows[row.family].created + AbsoluteLimit
          /\ row.family \in Session
      BY <1>1, Names DEF Inv, Placed, Row
    <3>2. Exists(rows[r].family)' /\ rows'[rows'[r].family].created = rows[row.family].created
      <4>1. rows'[r].family = row.family /\ rows'[row.family] # NoRow
        BY <1>3, <1>4, <1>6, <3>1 DEF Exists
      <4>2. rows'[row.family].created = rows[row.family].created
        BY <1>7, <3>1
      <4> QED BY <4>1, <4>2 DEF Exists
    <3> QED BY <1>2, <1>3, <1>4, <2>3, <3>1, <3>2 DEF Placed
  <2> QED BY <2>1, <2>2, <2>3
<1>10. ChainIntact'
  <2>1. ASSUME NEW q \in Request, Exists(q)'
        PROVE  \E s \in Session : /\ Exists(s)' /\ rows'[s].replacement = q
                                  /\ rows'[s].family = rows'[q].family
                                  /\ Spent(rows'[s])
    <3>1. CASE q = r
      <4>1. /\ Exists(p)' /\ rows'[p].replacement = q /\ rows'[p].family = rows'[q].family
            /\ Spent(rows'[p])
        BY <1>1, <1>3, <1>4, <1>6, <3>1 DEF Spent
      <4> QED BY <1>1, <4>1
    <3>2. CASE q # r
      <4>1. q \in Session /\ Exists(q)
        BY <1>6, <2>1, <3>2, Names
      <4>2. PICK s \in Session : /\ Exists(s) /\ rows[s].replacement = q
                                 /\ rows[s].family = rows[q].family /\ Spent(rows[s])
        BY <4>1 DEF Inv, ChainIntact
      <4>3. s # p /\ s # r
        BY <1>1, <1>8, <4>1, <4>2, Names
      <4> QED BY <1>4, <1>6, <1>7, <4>1, <4>2, <4>3
    <3> QED BY <3>1, <3>2
  <2>2. ASSUME NEW s \in Session, NEW t \in Session, Exists(s)', Exists(t)',
               rows'[s].replacement = rows'[t].replacement, rows'[s].replacement # NoSession
        PROVE  s = t
    <3>1. \A u \in Session : Exists(u)' /\ rows'[u].replacement = r => u = p
      <4>1. ASSUME NEW u \in Session, Exists(u)', rows'[u].replacement = r, u # p PROVE FALSE
        <5>1. u # r
          BY <1>1, <1>3, <1>4, <4>1, Names
        <5>2. rows'[u] = rows[u] /\ Exists(u)
          BY <1>4, <1>6, <4>1, <5>1
        <5>3. Exists(r)
          BY <1>1, <4>1, <5>2, Names DEF Inv, Placed
        <5> QED BY <1>1, <5>3
      <4> QED BY <4>1
    <3>2. s # r /\ t # r
      BY <1>3, <1>4, <2>2
    <3>3. CASE s = p \/ t = p
      <4>1. rows'[p].replacement = r
        BY <1>3, <1>4
      <4>2. rows'[s].replacement = r /\ rows'[t].replacement = r
        BY <2>2, <3>3, <4>1
      <4> QED BY <2>2, <3>1, <4>2
    <3>4. CASE s # p /\ t # p
      <4>1. Exists(s) /\ Exists(t) /\ rows'[s] = rows[s] /\ rows'[t] = rows[t]
        BY <1>4, <1>6, <2>2, <3>2, <3>4
      <4> QED BY <2>2, <4>1 DEF Inv, ChainIntact
    <3> QED BY <3>3, <3>4
  <2>3. ASSUME NEW s \in Session, NEW t \in Session, Exists(s)', Exists(t)',
               rows'[s].family = rows'[t].family,
               rows'[s].state = "active", rows'[t].state = "active"
        PROVE  s = t
    <3>1. s # p /\ t # p
      BY <1>3, <1>4, <2>3
    <3>2. \A u \in Session : Exists(u) /\ u # p /\ rows[u].family = row.family
                                => rows[u].state # "active"
      BY <1>1, <1>2 DEF Inv, ChainIntact
    <3>3. CASE s = r \/ t = r
      BY <1>1, <1>3, <1>4, <1>6, <2>3, <3>1, <3>2, <3>3
    <3>4. CASE s # r /\ t # r
      <4>1. Exists(s) /\ Exists(t) /\ rows'[s] = rows[s] /\ rows'[t] = rows[t]
        BY <1>4, <1>6, <2>3, <3>1, <3>4
      <4> QED BY <2>3, <4>1 DEF Inv, ChainIntact
    <3> QED BY <3>3, <3>4
  <2> QED BY <2>1, <2>2, <2>3 DEF ChainIntact
<1> QED BY <1>5, <1>6, <1>7, <1>9, <1>10

\* A login begins a family of one.
LEMMA CreateInitialInv == ASSUME Inv, NEW f \in Family, CreateInitial(f) PROVE Inv'
<1>1. PICK now \in Now : rows' = InsertGeneration(rows, f,
                             NewActive(f, now, now + IdleLifetime, now + AbsoluteLimit))
  BY DEF CreateInitial
<1> DEFINE new == NewActive(f, now, now + IdleLifetime, now + AbsoluteLimit)
<1>2. /\ ~Exists(f) /\ f \in Session /\ f \notin Request /\ TypeOK
      /\ UNCHANGED <<clock, userActive, draft, req, pc, todo, log, audit, answer, snapshot>>
  BY Names DEF CreateInitial, Inv
<1>3. now \in Int
  BY DEF Now
<1>4. /\ new \in Row /\ WellFormed(f, new)
      /\ new.family = f /\ new.created = now /\ new.state = "active"
      /\ new.absolute = now + AbsoluteLimit /\ new.replacement = NoSession
  BY <1>3, NewActiveWellFormed
<1> HIDE DEF new
<1>5. rows'[f] = new /\ \A s \in Session \ {f} : rows'[s] = rows[s]
  BY <1>1, <1>2 DEF InsertGeneration, TypeOK, new
<1>6. TypeOK'
  <2>1. rows' \in [Session -> Row \cup {NoRow}]
    BY <1>1, <1>2, <1>4 DEF InsertGeneration, TypeOK, new
  <2> QED BY <1>2, <2>1 DEF TypeOK
<1>7. \A s \in Session : Exists(s)' <=> Exists(s) \/ s = f
  BY <1>2, <1>4, <1>5, NoRowIsNone DEF Exists
<1>8. \A s \in Session : Exists(s) => rows'[s] = rows[s]
  BY <1>2, <1>5
<1>9. ASSUME NEW s \in Session PROVE Placed(s)'
  <2>1. CASE ~Exists(s) /\ s # f
    BY <1>7, <2>1 DEF Placed
  <2>2. CASE Exists(s)
    <3>1. /\ Placed(s) /\ rows'[s] = rows[s] /\ rows[s].family \in Session
      BY <1>2, <1>8, <2>2, Names DEF Inv, TypeOK, Exists, Row
    <3> QED BY <1>7, <1>8, <2>2, <3>1, Names DEF Placed, Exists
  <2>3. CASE s = f
    BY <1>2, <1>4, <1>5, <1>7, <2>3 DEF Placed, Exists
  <2> QED BY <2>1, <2>2, <2>3
<1>10. ChainIntact'
  <2>1. ASSUME NEW q \in Request, Exists(q)'
        PROVE  \E s \in Session : /\ Exists(s)' /\ rows'[s].replacement = q
                                  /\ rows'[s].family = rows'[q].family
                                  /\ Spent(rows'[s])
    <3>1. q \in Session /\ Exists(q)
      BY <1>2, <1>7, <2>1, Names
    <3>2. PICK s \in Session : /\ Exists(s) /\ rows[s].replacement = q
                               /\ rows[s].family = rows[q].family /\ Spent(rows[s])
      BY <3>1 DEF Inv, ChainIntact
    <3> QED BY <1>7, <1>8, <3>1, <3>2
  <2>2. ASSUME NEW s \in Session, NEW t \in Session, Exists(s)', Exists(t)',
               rows'[s].replacement = rows'[t].replacement, rows'[s].replacement # NoSession
        PROVE  s = t
    <3>1. Exists(s) /\ Exists(t) /\ rows'[s] = rows[s] /\ rows'[t] = rows[t]
      BY <1>4, <1>5, <1>7, <1>8, <2>2
    <3> QED BY <2>2, <3>1 DEF Inv, ChainIntact
  <2>3. ASSUME NEW s \in Session, NEW t \in Session, Exists(s)', Exists(t)',
               rows'[s].family = rows'[t].family,
               rows'[s].state = "active", rows'[t].state = "active"
        PROVE  s = t
    <3>1. \A u \in Session : Exists(u) => rows[u].family # f
      BY <1>2 DEF Inv, Placed
    <3>2. CASE s = f \/ t = f
      BY <1>4, <1>5, <1>7, <1>8, <2>3, <3>1, <3>2
    <3>3. CASE s # f /\ t # f
      <4>1. Exists(s) /\ Exists(t) /\ rows'[s] = rows[s] /\ rows'[t] = rows[t]
        BY <1>7, <1>8, <2>3, <3>3
      <4> QED BY <2>3, <4>1 DEF Inv, ChainIntact
    <3> QED BY <3>2, <3>3
  <2> QED BY <2>1, <2>2, <2>3 DEF ChainIntact
<1>11. ASSUME NEW q \in Request PROVE Transaction(q)'
  <2>1. Held(q) \subseteq Session /\ q \in Session /\ q # f
    BY <1>2, Names DEF Held
  <2>2. pc[q] # "done" /\ ~Exists(q) => ~Exists(q)'
    BY <1>7, <2>1
  <2> QED BY <1>2, <1>7, <1>8, <2>1, <2>2, Undisturbed
<1>12. LocksExclusive'
  BY <1>2 DEF Inv, LocksExclusive, Held
<1> QED BY <1>6, <1>9, <1>10, <1>11, <1>12 DEF Inv

LEMMA MarkExpiredInv == ASSUME Inv, MarkExpired PROVE Inv'
<1> DEFINE stale == {s \in Session : Exists(s) /\ rows[s].state = "active"
                                     /\ (rows[s].idle <= clock \/ rows[s].absolute <= clock)}
<1>1. /\ \A r \in Request : Held(r) \cap stale = {}
      /\ rows' = [s \in Session |-> IF s \in stale THEN MarkedExpired(rows[s]) ELSE rows[s]]
      /\ UNCHANGED <<clock, userActive, draft, req, pc, todo, log, audit, answer, snapshot>>
  BY DEF MarkExpired
<1>2. TypeOK
  BY DEF Inv
<1>3. \A s \in stale : /\ s \in Session /\ Exists(s) /\ rows[s].state = "active"
                       /\ rows[s] \in Row /\ WellFormed(s, rows[s])
  BY <1>2 DEF TypeOK, Exists, Inv, Placed
<1>4. ASSUME NEW s \in stale
      PROVE  /\ rows'[s] \in Row /\ WellFormed(s, rows'[s])
             /\ rows'[s].family = rows[s].family
             /\ rows'[s].created = rows[s].created
             /\ rows'[s].absolute = rows[s].absolute
             /\ rows'[s].replacement = rows[s].replacement
             /\ rows'[s].state = "expired"
  BY <1>1, <1>3, ExpiredRow
<1>5. \A s \in Session \ stale : rows'[s] = rows[s]
  BY <1>1
<1> HIDE DEF stale
<1>6. rows' \in [Session -> Row \cup {NoRow}]
  BY <1>1, <1>2, <1>4, <1>5 DEF TypeOK
<1>7. /\ \A s \in Session : Exists(s)' = Exists(s) /\ Placed(s)'
      /\ \A s \in Session : Exists(s) => rows'[s].family = rows[s].family
      /\ ChainIntact'
  BY <1>3, <1>4, <1>5, <1>6, Ended
<1>8. ASSUME NEW q \in Request PROVE Transaction(q)'
  <2>1. Held(q) \subseteq Session \ stale /\ q \in Session
    BY <1>1, Names DEF Held
  <2>2. pc[q] # "done" /\ ~Exists(q) => ~Exists(q)'
    BY <1>7, <2>1
  <2> QED BY <1>1, <1>5, <1>7, <2>1, <2>2, Undisturbed
<1>9. LocksExclusive' /\ TypeOK'
  BY <1>1, <1>2, <1>6 DEF Inv, LocksExclusive, Held, TypeOK
<1> QED BY <1>7, <1>8, <1>9 DEF Inv

\* What a commit does to the rows: a revocation, or one rotation.
LEMMA CommittedRevocation ==
    ASSUME Inv, NEW r \in Request, Commit(r), Revoking(r)
    PROVE  /\ rows' \in [Session -> Row \cup {NoRow}]
           /\ \A s \in Session :
                  \/ rows'[s] = rows[s]
                  \/ /\ s \in Held(r) /\ rows[s].family = rows[Presented(r)].family
                     /\ Exists(s) /\ rows'[s] \in Row /\ WellFormed(s, rows'[s])
                     /\ rows'[s].family = rows[s].family
                     /\ rows'[s].created = rows[s].created
                     /\ rows'[s].absolute = rows[s].absolute
                     /\ rows'[s].replacement = rows[s].replacement
                     /\ rows'[s].state = "revoked"
<1>1. TypeOK /\ rows' = [s \in Session |-> Seen(r, s)]
  BY DEF Inv, Commit
<1>2. rows' \in [Session -> Row \cup {NoRow}]
  BY <1>1 DEF Seen, TypeOK
<1>3. ASSUME NEW s \in Session, rows'[s] # rows[s]
      PROVE  /\ s \in Held(r) /\ rows[s].family = rows[Presented(r)].family
             /\ Exists(s) /\ rows'[s] \in Row /\ WellFormed(s, rows'[s])
             /\ rows'[s].family = rows[s].family
             /\ rows'[s].created = rows[s].created
             /\ rows'[s].absolute = rows[s].absolute
             /\ rows'[s].replacement = rows[s].replacement
             /\ rows'[s].state = "revoked"
  <2>1. s \in Held(r) /\ rows'[s] = draft[r][s]
    BY <1>1, <1>3 DEF Seen
  <2>2. Exists(s) /\ rows[s].family = rows[Presented(r)].family /\ Revised(r, s)
    BY <1>3, <2>1 DEF Revoking, Untouched
  <2>3. rows[s] \in Row /\ req[r].now \in Int /\ ReasonOf(r) \in Reason
    BY <1>1, <2>2 DEF TypeOK, Exists, ReasonOf, Reason
  <2> QED BY <2>1, <2>2, <2>3, RevokedRow DEF Revised
<1> QED BY <1>2, <1>3

LEMMA CommittedRotation ==
    ASSUME Inv, NEW r \in Request, Commit(r), Rotated(r)
    PROVE  /\ Presented(r) \in Session /\ Exists(Presented(r)) /\ Presented(r) # r
           /\ rows[Presented(r)] \in Row /\ rows[Presented(r)].state = "active"
           /\ Held(r) = {Presented(r), r}
           /\ rows' = [rows EXCEPT
                           ![Presented(r)] = MarkedReplaced(rows[Presented(r)], r, req[r].now),
                           ![r] = Successor(rows[Presented(r)], req[r].now)]
<1> DEFINE p == Presented(r)
           old == MarkedReplaced(rows[p], r, req[r].now)
           new == Successor(rows[p], req[r].now)
<1>1. /\ TypeOK /\ p \in Session /\ Exists(p) /\ r \in Session /\ p # r
      /\ rows[p] \in Row /\ req[r].now \in Int
      /\ rows' = [s \in Session |-> Seen(r, s)]
  BY Names DEF Inv, TypeOK, Commit, Transaction, InTransaction, Rotated, Exists
<1>2. rows[p].state = "active"
  BY DEF Rotated, CanPlanReplacement, Eligible
<1>3. old \in Row /\ new \in Row
  BY <1>1, ReplacedRow
<1> HIDE DEF old, new
<1>4. draft[r] = [NoVersions EXCEPT ![p] = old, ![r] = new]
  BY <1>1 DEF Rotated, InsertGeneration, NoVersions, old, new
<1>5. /\ draft[r][p] = old /\ draft[r][r] = new
      /\ \A s \in Session \ {p, r} : draft[r][s] = NoRow
  BY <1>1, <1>4 DEF NoVersions
<1>6. Held(r) = {p, r}
  BY <1>1, <1>3, <1>5, NoRowIsNone DEF Held
<1>7. rows' = [rows EXCEPT ![p] = old, ![r] = new]
  BY <1>1, <1>5, <1>6 DEF Seen, TypeOK
<1> QED BY <1>1, <1>2, <1>6, <1>7 DEF old, new

LEMMA CommitInv == ASSUME Inv, NEW r \in Request, Commit(r) PROVE Inv'
<1>1. /\ TypeOK /\ pc[r] = "commit" /\ rows' = [s \in Session |-> Seen(r, s)]
      /\ draft' = [draft EXCEPT ![r] = NoVersions]
      /\ audit' = [audit EXCEPT ![r] = @ \cup log[r]] /\ log' = [log EXCEPT ![r] = {}]
      /\ pc' = [pc EXCEPT ![r] = "done"]
      /\ UNCHANGED <<clock, userActive, req, todo, answer, snapshot>>
      /\ Revoking(r) \/ Rotated(r)
  BY DEF Inv, Commit, Transaction
<1>2. /\ rows' \in [Session -> Row \cup {NoRow}]
      /\ \A s \in Session : Exists(s) => Exists(s)' /\ rows'[s].family = rows[s].family
      /\ \A q \in Request \ {r} : ~Exists(q) => ~Exists(q)'
      /\ \A s \in Session : Placed(s)'
      /\ ChainIntact'
  <2>1. CASE Revoking(r)
    <3>1. /\ rows' \in [Session -> Row \cup {NoRow}]
          /\ \A s \in Session : Exists(s)' = Exists(s) /\ Placed(s)'
          /\ \A s \in Session : Exists(s) => rows'[s].family = rows[s].family
          /\ ChainIntact'
      BY <2>1, CommittedRevocation, Ended
    <3> QED BY <3>1, Names
  <2>2. CASE Rotated(r)
    BY <2>2, CommittedRotation, Extended, Names
  <2> QED BY <1>1, <2>1, <2>2
<1>3. TypeOK'
  <2>1. draft' \in [Request -> [Session -> Row \cup {NoRow}]]
    BY <1>1 DEF TypeOK, NoVersions
  <2>2. audit' \in [Request -> SUBSET Event] /\ log' \in [Request -> SUBSET Event]
    BY <1>1 DEF TypeOK
  <2>3. pc' \in [Request -> PC]
    BY <1>1 DEF TypeOK, PC
  <2> QED BY <1>1, <1>2, <2>1, <2>2, <2>3 DEF TypeOK
<1>4. Transaction(r)'
  <2>1. pc'[r] = "done" /\ draft'[r] = NoVersions
    BY <1>1 DEF TypeOK
  <2> QED BY <1>1, <2>1 DEF Inv, Transaction, InTransaction
<1>5. ASSUME NEW q \in Request \ {r} PROVE Transaction(q)'
  <2>1. UNCHANGED <<draft[q], req[q], pc[q], todo[q], answer[q]>>
    BY <1>1 DEF TypeOK
  <2>2. ASSUME NEW s \in Held(q) PROVE rows'[s] = rows[s]
    <3>1. s \in Session /\ s \notin Held(r)
      BY DEF Inv, LocksExclusive, Held
    <3> QED BY <1>1, <3>1 DEF Seen
  <2> QED BY <1>2, <2>1, <2>2, Undisturbed
<1>6. LocksExclusive'
  <2>1. Held(r)' = {} /\ \A q \in Request \ {r} : Held(q)' = Held(q)
    BY <1>1 DEF TypeOK, Held, NoVersions
  <2> QED BY <2>1 DEF Inv, LocksExclusive
<1> QED BY <1>2, <1>3, <1>4, <1>5, <1>6 DEF Inv

-----------------------------------------------------------------------------
(* Every step *)

LEMMA ElsewhereInv == ASSUME Inv, DisableUser \/ Tick PROVE Inv'
<1>1. /\ UNCHANGED <<rows, draft, req, pc, todo, log, audit, answer, snapshot>> /\ TypeOK
  BY DEF DisableUser, Tick, Inv
<1>2. TypeOK'
  <2>1. CASE DisableUser
    BY <1>1, <2>1 DEF DisableUser, TypeOK
  <2>2. CASE Tick
    <3>1. clock' \in 0..MaxClock
      BY <1>1, <2>2, BoundAssumption DEF Tick, TypeOK
    <3> QED BY <1>1, <2>2, <3>1 DEF Tick, TypeOK
  <2> QED BY <2>1, <2>2
<1> QED BY <1>1, <1>2 DEF Inv, LocksExclusive, ChainIntact, Placed, Exists, Held, Transaction,
                          Revoking, Rotated, Untouched, Revised, Kept, Presented, ReasonOf

LEMMA StepInv == ASSUME Inv, NEW r \in Request, Step(r) \/ Fail(r) PROVE Inv'
<1>1. ASSUME Refresh(r) PROVE Inv'
  <2>1. ASSUME NEW s \in Session, Begin(r, "refresh", s) PROVE Inv'
    BY <2>1, BeginInv DEF Op
  <2>2. ASSUME RejectUnknown(r, "refresh") PROVE Inv'
    BY <2>2, RejectUnknownInv DEF Op
  <2>3. ASSUME Replay(r) PROVE Inv'
    BY <2>3, RevokeFamilyInv DEF Replay, Deciding
  <2>4. ASSUME RejectExpired(r) PROVE Inv'
    BY <2>4, RollbackInv DEF RejectExpired, Answer
  <2> QED BY <1>1, <2>1, <2>2, <2>3, <2>4, RejectDisabledInv, CheckRefreshLimitInv, RotateInv DEF Refresh
<1>2. ASSUME Logout(r) PROVE Inv'
  <2>1. ASSUME NEW s \in Session, Begin(r, "logout", s) PROVE Inv'
    BY <2>1, BeginInv DEF Op
  <2>2. ASSUME RejectUnknown(r, "logout") PROVE Inv'
    BY <2>2, RejectUnknownInv DEF Op
  <2>3. ASSUME RejectLogout(r) PROVE Inv'
    BY <2>3, RollbackInv DEF RejectLogout, Answer
  <2>4. ASSUME RevokeOnLogout(r) PROVE Inv'
    BY <2>4, RevokeFamilyInv DEF RevokeOnLogout, Deciding
  <2> QED BY <1>2, <2>1, <2>2, <2>3, <2>4 DEF Logout
<1>3. ASSUME BreakDeadlock(r) \/ Fail(r) PROVE Inv'
  BY <1>3, RollbackInv DEF BreakDeadlock, Fail, Answer
<1> QED BY <1>1, <1>2, <1>3, LockByDigestInv, RevokeRowInv, FamilyRevokedInv, CommitInv DEF Step

LEMMA NextInv == Inv /\ [Next]_vars => Inv'
<1>1. ASSUME Inv, UNCHANGED vars PROVE Inv'
  BY <1>1 DEF vars, Inv, TypeOK, LocksExclusive, ChainIntact, Placed, Exists, Held, Transaction,
              Revoking, Rotated, Untouched, Revised, Kept, Presented, ReasonOf
<1> QED BY <1>1, StepInv, CreateInitialInv, MarkExpiredInv, ElsewhereInv DEF Next

-----------------------------------------------------------------------------
(* What the evidence says *)

Success == Events({"refresh_success"}, "info")

Failure == Events({"refresh_failure"}, "warning")

Disabled == Events({"disabled_account_rejection", "refresh_failure"}, "warning")

EvidenceOf(r) == IF req[r].op = "refresh" THEN ReuseEvidence(r) ELSE LogoutEvidence(r)

RevocationIn(events) == \E e \in events : e.action = "token_family_revocation"

\* A family UPDATE: a row that it saw is revoked already, or is yet to be
\* reached.  A logout holds the family's only usable generation.
Sweeping(r) ==
    /\ Presented(r) \in Held(r) \cap snapshot[r]
    /\ \A s \in snapshot[r] : s \in todo[r] \/ Seen(r, s).state = "revoked"
    /\ req[r].op = "logout" => /\ rows[Presented(r)].state = "active"
                               /\ snapshot[r] = Members(FamilyOf(r))

\* What a transaction is about to put on record: the generation that it
\* inserted, the family that it revoked, or an account that was disabled.
Concluding(r) ==
    IF r \in Held(r)
    THEN req[r].op = "refresh" /\ log[r] = Success
    ELSE \/ Sweeping(r) /\ todo[r] = {} /\ log[r] = EvidenceOf(r)
         \/ /\ req[r].op = "refresh"
            /\ \A s \in Held(r) : Untouched(r, s)
            /\ log[r] = Disabled

FamilyEnded(r) ==
    /\ Presented(r) \in Session /\ Exists(Presented(r))
    /\ \A s \in Members(FamilyOf(r)) : rows[s].state = "revoked"

Recorded(r) ==
    /\ Exists(r) <=> Success \subseteq audit[r]
    /\ RevocationIn(audit[r]) =>
           /\ Presented(r) \in snapshot[r]
           /\ \A s \in snapshot[r] : rows[s].state = "revoked"
    /\ req[r].op = "logout" /\ answer[r] = "ok" => FamilyEnded(r)

Logged(r) ==
    /\ pc[r] # "done" => audit[r] = {}
    /\ pc[r] # "commit" => log[r] = {}
    /\ pc[r] = "replace" => req[r].op = "refresh"
    /\ pc[r] = "revoke" => Sweeping(r)
    /\ pc[r] = "commit" => Concluding(r)
    /\ pc[r] = "done" => Recorded(r)

\* A revocation that took effect is on record, for its reason.
Traced(s) ==
    \E r \in Request :
        /\ Presented(r) # NoSession
        /\ FamilyOf(r) = rows[s].family
        /\ ReasonOf(r) = rows[s].reason
        /\ EvidenceOf(r) \subseteq audit[r]

OnRecord ==
    /\ \A r \in Request : Logged(r)
    /\ \A s \in Session : Exists(s) /\ rows[s].state = "revoked" => Traced(s)

LEMMA RecordsDiffer ==
    ASSUME NEW r
    PROVE  /\ RevocationIn(EvidenceOf(r))
           /\ ~RevocationIn(Success) /\ ~RevocationIn(Failure) /\ ~RevocationIn(Disabled)
           /\ \E e \in Success : e \notin EvidenceOf(r) \cup Failure \cup Disabled
<1>1. \A e : /\ e \in Success <=> e = [action |-> "refresh_success", severity |-> "info"]
             /\ e \in Failure <=> e = [action |-> "refresh_failure", severity |-> "warning"]
  BY DEF Success, Failure, Events
<1>2. \A e \in Disabled : e.action \in {"disabled_account_rejection", "refresh_failure"}
  BY DEF Disabled, Events
<1>3. \A e \in EvidenceOf(r) :
          e.action \in {"refresh_token_reuse", "token_family_revocation", "refresh_failure", "logout"}
  BY DEF EvidenceOf, ReuseEvidence, LogoutEvidence, Events
<1>4. RevocationIn(EvidenceOf(r))
  <2>1. [action |-> "token_family_revocation", severity |-> "high"] \in ReuseEvidence(r)
    BY DEF ReuseEvidence, Events
  <2>2. [action |-> "token_family_revocation", severity |-> "info"] \in LogoutEvidence(r)
    BY DEF LogoutEvidence, Events
  <2> QED BY <2>1, <2>2 DEF RevocationIn, EvidenceOf
<1>5. ~RevocationIn(Success) /\ ~RevocationIn(Failure) /\ ~RevocationIn(Disabled)
  BY <1>1, <1>2 DEF RevocationIn
<1>6. \E e \in Success : e \notin EvidenceOf(r) \cup Failure \cup Disabled
  <2> DEFINE e == [action |-> "refresh_success", severity |-> "info"]
  <2>1. e \in Success /\ e.action = "refresh_success"
    BY <1>1
  <2>2. e \notin Failure
    BY <1>1
  <2> HIDE DEF e
  <2> QED BY <1>2, <1>3, <2>1, <2>2
<1> QED BY <1>4, <1>5, <1>6

LEMMA InitOnRecord == Init => OnRecord
BY DEF Init, OnRecord, Logged, Exists

\* What a transaction that is about to commit has done.
LEMMA Committing ==
    ASSUME Inv, NEW r \in Request, pc[r] = "commit"
    PROVE  (r \in Held(r) => Rotated(r)) /\ (r \notin Held(r) => Revoking(r))
<1>1. Transaction(r) /\ TypeOK /\ r \in Session
  BY Names DEF Inv
<1>2. ~Exists(r) /\ (Revoking(r) \/ Rotated(r)) /\ Presented(r) \in Session
      /\ Exists(Presented(r))
  BY <1>1 DEF Transaction, InTransaction
<1>3. Rotated(r) => r \in Held(r)
  <2>1. rows[Presented(r)] \in Row /\ req[r].now \in Int
    BY <1>1, <1>2 DEF TypeOK, Exists
  <2>2. Successor(rows[Presented(r)], req[r].now) # NoRow
    BY <1>1, <1>2, <2>1, ReplacedRow, NoRowIsNone
  <2> QED BY <1>1, <2>2 DEF Rotated, Held, InsertGeneration, NoVersions
<1> QED BY <1>2, <1>3 DEF Revoking

-----------------------------------------------------------------------------
(* The requests that do not move *)

\* What the moves of others do to the rows, as q sees them: nothing to those
\* that it holds, and a family grows only by the rotation of a usable one.
Gentle(q) ==
    /\ \A s \in Session : Exists(s) => Exists(s)' /\ rows'[s].family = rows[s].family
    /\ \A s \in Session : rows[s].state = "revoked" => rows'[s].state = "revoked"
    /\ \A s \in Held(q) : Exists(s) => rows'[s] = rows[s]
    /\ ~Exists(q) => ~Exists(q)'
    /\ \A s \in Session : ~Exists(s) /\ Exists(s)' =>
           \/ \A t \in Session : Exists(t) => rows[t].family # rows'[s].family
           \/ \E p \in Session \ Held(q) : /\ Exists(p) /\ rows[p].state = "active"
                                           /\ rows[p].family = rows'[s].family

LEMMA SameMembers ==
    ASSUME Inv, NEW q \in Request, Gentle(q), Presented(q) \in Session, Exists(Presented(q)),
           Presented(q)' = Presented(q),
           \A p \in Session \ Held(q) :
               Exists(p) /\ rows[p].family = FamilyOf(q) => rows[p].state # "active"
    PROVE  Members(FamilyOf(q))' = Members(FamilyOf(q)) /\ FamilyOf(q)' = FamilyOf(q)
<1> DEFINE f == FamilyOf(q)
<1>1. FamilyOf(q)' = f
  BY DEF Gentle, FamilyOf
<1>2. ASSUME NEW s \in Session
      PROVE  Exists(s)' /\ rows'[s].family = f <=> Exists(s) /\ rows[s].family = f
  <2>1. CASE Exists(s)
    BY <2>1 DEF Gentle
  <2>2. CASE ~Exists(s) /\ Exists(s)' /\ rows'[s].family = f
    BY <2>2 DEF Gentle, FamilyOf
  <2> QED BY <2>1, <2>2
<1>3. Members(f)' = {s \in Session : Exists(s)' /\ rows'[s].family = f}
  BY <1>1 DEF Members, Exists
<1>4. Members(f) = {s \in Session : Exists(s) /\ rows[s].family = f}
  BY DEF Members, Exists
<1> QED BY <1>1, <1>2, <1>3, <1>4

LEMMA LoggedStays ==
    ASSUME Inv, NEW q \in Request, Logged(q), Gentle(q),
           UNCHANGED <<draft[q], req[q], pc[q], todo[q], log[q], audit[q], answer[q], snapshot[q]>>
    PROVE  Logged(q)'
<1>1. /\ Presented(q)' = Presented(q) /\ Held(q)' = Held(q) /\ EvidenceOf(q)' = EvidenceOf(q)
      /\ q \in Session /\ Transaction(q) /\ TypeOK
  BY Names DEF Presented, Held, EvidenceOf, ReuseEvidence, LogoutEvidence, Inv
<1>2. ASSUME pc[q] \in {"revoke", "commit"}, Revoking(q), Sweeping(q) PROVE Sweeping(q)'
  <2>1. \A s \in Held(q) : s \in Session /\ Exists(s) /\ rows'[s] = rows[s]
    BY <1>2 DEF Revoking, Gentle, Held
  <2>2. Presented(q) \in Held(q) /\ snapshot[q] \subseteq Session
    BY <1>1, <1>2 DEF Sweeping, TypeOK
  <2>3. ASSUME NEW s \in snapshot[q], Seen(q, s).state = "revoked" PROVE Seen(q, s)'.state = "revoked"
    BY <1>1, <2>2, <2>3 DEF Seen, Gentle
  <2>4. ASSUME req[q].op = "logout"
        PROVE  /\ rows'[Presented(q)].state = "active"
               /\ snapshot'[q] = Members(FamilyOf(q))'
    <3>1. rows[Presented(q)].state = "active" /\ snapshot[q] = Members(FamilyOf(q))
      BY <1>2, <2>4 DEF Sweeping
    <3>2. \A p \in Session \ Held(q) :
              Exists(p) /\ rows[p].family = FamilyOf(q) => rows[p].state # "active"
      BY <2>1, <2>2, <3>1 DEF Inv, ChainIntact, FamilyOf
    <3> QED BY <1>1, <2>1, <2>2, <3>1, <3>2, SameMembers
  <2> QED BY <1>1, <1>2, <2>2, <2>3, <2>4 DEF Sweeping
<1>3. ASSUME pc[q] = "commit", Concluding(q) PROVE Concluding(q)'
  <2>1. CASE q \in Held(q)
    BY <1>1, <1>3, <2>1 DEF Concluding, Success
  <2>2. CASE q \notin Held(q)
    <3>1. Revoking(q)
      BY <1>3, <2>2, Committing
    <3>2. ASSUME NEW s \in Held(q), Untouched(q, s) PROVE Untouched(q, s)'
      BY <3>1, <3>2 DEF Revoking, Gentle, Untouched, Held
    <3> QED BY <1>1, <1>2, <1>3, <2>2, <3>1, <3>2 DEF Concluding, Disabled
  <2> QED BY <2>1, <2>2
<1>4. ASSUME Recorded(q) PROVE Recorded(q)'
  <2>1. Exists(q)' <=> Exists(q)
    BY <1>1 DEF Gentle
  <2>2. \A s \in snapshot[q] : rows[s].state = "revoked" => rows'[s].state = "revoked"
    BY <1>1 DEF Gentle, TypeOK
  <2>3. ASSUME FamilyEnded(q) PROVE FamilyEnded(q)'
    <3>1. \A p \in Session : Exists(p) /\ rows[p].family = FamilyOf(q) => rows[p].state = "revoked"
      BY <2>3 DEF FamilyEnded, Members, Exists
    <3>2. Members(FamilyOf(q))' = Members(FamilyOf(q))
      BY <1>1, <2>3, <3>1, SameMembers DEF FamilyEnded
    <3>3. \A s \in Members(FamilyOf(q)) : s \in Session /\ rows[s].state = "revoked"
      BY <2>3 DEF FamilyEnded, Members
    <3>4. Exists(Presented(q))'
      BY <1>1, <2>3 DEF FamilyEnded, Gentle, Exists
    <3> QED BY <1>1, <2>3, <3>2, <3>3, <3>4 DEF FamilyEnded, Gentle
  <2> QED BY <1>1, <1>4, <2>1, <2>2, <2>3 DEF Recorded, Success, RevocationIn
<1>5. pc[q] = "revoke" => Revoking(q)
  BY <1>1 DEF Transaction
<1>6. Concluding(q) /\ pc[q] = "commit" => Concluding(q)'
  BY <1>3
<1> QED BY <1>1, <1>2, <1>3, <1>4, <1>5 DEF Logged

\* What is on record stays there.
LEMMA TracedStays ==
    ASSUME Inv, \A q \in Request : Logged(q), NEW s \in Session, Traced(s),
           rows'[s].family = rows[s].family, rows'[s].reason = rows[s].reason,
           \A t \in Session : Exists(t) => rows'[t].family = rows[t].family,
           \A q \in Request : audit[q] \subseteq audit'[q],
           \A q \in Request : pc[q] = "done" => req'[q] = req[q]
    PROVE  Traced(s)'
<1>1. PICK q \in Request : /\ Presented(q) # NoSession /\ FamilyOf(q) = rows[s].family
                           /\ ReasonOf(q) = rows[s].reason /\ EvidenceOf(q) \subseteq audit[q]
  BY DEF Traced
<1>2. RevocationIn(audit[q])
  BY <1>1, RecordsDiffer DEF RevocationIn
<1>3. pc[q] = "done" /\ Recorded(q)
  BY <1>2 DEF Logged, RevocationIn
<1>4. Presented(q) \in Session /\ Exists(Presented(q))
  BY <1>2, <1>3 DEF Recorded, Inv, TypeOK, Exists, NoRow
<1>5. /\ Presented(q)' = Presented(q) /\ FamilyOf(q)' = FamilyOf(q)
      /\ ReasonOf(q)' = ReasonOf(q) /\ EvidenceOf(q)' = EvidenceOf(q)
  BY <1>3, <1>4 DEF Presented, FamilyOf, ReasonOf, EvidenceOf, ReuseEvidence, LogoutEvidence
<1> QED BY <1>1, <1>5 DEF Traced

-----------------------------------------------------------------------------
(* The moves that leave the rows alone *)

\* A request moves by itself.
Alone(r) ==
    /\ UNCHANGED rows
    /\ \A q \in Request \ {r} :
           UNCHANGED <<draft[q], req[q], pc[q], todo[q], log[q], audit[q], answer[q], snapshot[q]>>

LEMMA AloneOnRecord ==
    ASSUME Inv, OnRecord, NEW r \in Request, Alone(r), Logged(r)',
           audit[r] \subseteq audit'[r], pc[r] = "done" => req'[r] = req[r]
    PROVE  OnRecord'
<1>1. \A q \in Request \ {r} : Gentle(q)
  BY DEF Alone, Gentle, Exists
<1>2. \A q \in Request : Logged(q)'
  BY <1>1, LoggedStays DEF OnRecord, Alone
<1>3. ASSUME NEW s \in Session, Exists(s)', rows'[s].state = "revoked" PROVE Traced(s)'
  <2>1. Traced(s)
    BY <1>3 DEF OnRecord, Alone, Exists
  <2>2. \A q \in Request : audit[q] \subseteq audit'[q] /\ (pc[q] = "done" => req'[q] = req[q])
    BY DEF Alone
  <2> QED BY <2>1, <2>2, TracedStays DEF OnRecord, Alone
<1> QED BY <1>2, <1>3 DEF OnRecord

LEMMA Recording ==
    ASSUME TypeOK, NEW r \in Request, BestEffortAudit(r, Failure) \/ UNCHANGED audit,
           audit[r] = {}
    PROVE  /\ audit'[r] \subseteq Failure
           /\ \A q \in Request \ {r} : audit'[q] = audit[q]
BY DEF TypeOK, BestEffortAudit

\* A request that ends without effect.
LEMMA NothingRecorded ==
    ASSUME NEW r \in Request, ~Exists(r), UNCHANGED rows, audit'[r] \subseteq Failure,
           answer'[r] # "ok", pc'[r] = "done", log'[r] = {}
    PROVE  Logged(r)'
<1>1. ~RevocationIn(audit'[r]) /\ ~(Success \subseteq audit'[r])
  <2>1. ~RevocationIn(Failure) /\ \E e \in Success : e \notin Failure
    BY RecordsDiffer
  <2> QED BY <2>1 DEF RevocationIn
<1>2. Recorded(r)'
  BY <1>1 DEF Recorded, Exists, RevocationIn, Success
<1> QED BY <1>2 DEF Logged

LEMMA RollbackOnRecord ==
    ASSUME Inv, OnRecord, NEW r \in Request, pc[r] # "done", NEW result, result # "ok",
           Rollback(r, result)
    PROVE  OnRecord'
<1>1. /\ draft' = [draft EXCEPT ![r] = NoVersions] /\ todo' = [todo EXCEPT ![r] = {}]
      /\ log' = [log EXCEPT ![r] = {}]
      /\ pc' = [pc EXCEPT ![r] = "done"] /\ answer' = [answer EXCEPT ![r] = result]
      /\ UNCHANGED <<rows, req, snapshot>>
  BY DEF Rollback, Finish
<1>2. TypeOK /\ ~Exists(r) /\ audit[r] = {}
  BY DEF Inv, Transaction, OnRecord, Logged
<1>3. audit'[r] \subseteq Failure /\ \A q \in Request \ {r} : audit'[q] = audit[q]
  BY <1>2, Recording DEF Rollback, Failure
<1>4. pc'[r] = "done" /\ answer'[r] = result /\ log'[r] = {}
  BY <1>1, <1>2 DEF TypeOK
<1>5. Logged(r)'
  BY <1>1, <1>2, <1>3, <1>4, NothingRecorded
<1>6. Alone(r)
  BY <1>1, <1>2, <1>3 DEF Alone, TypeOK
<1> QED BY <1>1, <1>2, <1>5, <1>6, AloneOnRecord

LEMMA BeginOnRecord ==
    ASSUME Inv, OnRecord, NEW r \in Request, NEW op \in Op, NEW s \in Session, Begin(r, op, s)
    PROVE  OnRecord'
<1>1. PICK now \in Now : req' = [req EXCEPT ![r] = [op |-> op, token |-> s, now |-> now]]
  BY DEF Begin
<1>2. /\ pc[r] = "idle" /\ pc' = [pc EXCEPT ![r] = "lock"]
      /\ UNCHANGED <<rows, draft, todo, log, audit, answer, snapshot>> /\ TypeOK
  BY DEF Begin, Inv
<1>3. pc'[r] = "lock" /\ log[r] = {} /\ audit[r] = {}
  BY <1>2 DEF TypeOK, OnRecord, Logged
<1>4. Logged(r)'
  BY <1>2, <1>3 DEF Logged
<1>5. Alone(r)
  BY <1>1, <1>2 DEF Alone, TypeOK
<1> QED BY <1>2, <1>4, <1>5, AloneOnRecord

LEMMA RejectUnknownOnRecord ==
    ASSUME Inv, OnRecord, NEW r \in Request, NEW op \in Op, RejectUnknown(r, op)
    PROVE  OnRecord'
<1>1. /\ pc[r] = "idle" /\ req' = [req EXCEPT ![r].op = op]
      /\ pc' = [pc EXCEPT ![r] = "done"] /\ answer' = [answer EXCEPT ![r] = "rejected"]
      /\ UNCHANGED <<rows, draft, todo, log, snapshot>>
  BY DEF RejectUnknown, Finish
<1>2. TypeOK /\ ~Exists(r) /\ audit[r] = {} /\ log[r] = {}
  BY <1>1 DEF Inv, Transaction, OnRecord, Logged
<1>3. audit'[r] \subseteq Failure /\ \A q \in Request \ {r} : audit'[q] = audit[q]
  BY <1>2, Recording DEF RejectUnknown, Failure
<1>4. pc'[r] = "done" /\ answer'[r] = "rejected" /\ log'[r] = {}
  BY <1>1, <1>2 DEF TypeOK
<1>5. Logged(r)'
  BY <1>1, <1>2, <1>3, <1>4, NothingRecorded
<1>6. Alone(r)
  BY <1>1, <1>2, <1>3 DEF Alone, TypeOK
<1> QED BY <1>1, <1>2, <1>5, <1>6, AloneOnRecord

LEMMA LockByDigestOnRecord ==
    ASSUME Inv, OnRecord, NEW r \in Request, LockByDigest(r)
    PROVE  OnRecord'
<1>1. /\ pc[r] = "lock" /\ draft' = [draft EXCEPT ![r][Presented(r)] = rows[Presented(r)]]
      /\ pc' = [pc EXCEPT ![r] = "decide"]
      /\ UNCHANGED <<rows, req, todo, log, audit, answer, snapshot>> /\ TypeOK
  BY DEF LockByDigest, SelectForUpdate, Holding, Inv
<1>2. pc'[r] = "decide" /\ log[r] = {} /\ audit[r] = {}
  BY <1>1 DEF TypeOK, OnRecord, Logged
<1>3. Logged(r)'
  BY <1>1, <1>2 DEF Logged
<1>4. Alone(r)
  BY <1>1 DEF Alone, TypeOK
<1> QED BY <1>1, <1>3, <1>4, AloneOnRecord

LEMMA CheckRefreshLimitOnRecord ==
    ASSUME Inv, OnRecord, NEW r \in Request, CheckRefreshLimit(r)
    PROVE  OnRecord'
<1>1. pc[r] = "decide" /\ req[r].op = "refresh" /\ TypeOK
  BY DEF CheckRefreshLimit, Presentable, Deciding, Inv
<1>2. CASE Rollback(r, "limited") \/ Rollback(r, "unavailable")
  BY <1>1, <1>2, RollbackOnRecord
<1>3. CASE /\ pc' = [pc EXCEPT ![r] = "replace"]
           /\ UNCHANGED <<clock, userActive, rows, draft, req, todo, log, audit, answer, snapshot>>
  <2>1. pc'[r] = "replace" /\ log[r] = {} /\ audit[r] = {}
    BY <1>1, <1>3 DEF TypeOK, OnRecord, Logged
  <2>2. Logged(r)'
    BY <1>1, <1>3, <2>1 DEF Logged
  <2>3. Alone(r)
    BY <1>1, <1>3 DEF Alone, TypeOK
  <2> QED BY <1>3, <2>2, <2>3, AloneOnRecord
<1> QED BY <1>2, <1>3 DEF CheckRefreshLimit

\* The UPDATE begins: what it does not have to reach is revoked already.
LEMMA RevokeFamilyOnRecord ==
    ASSUME Inv, OnRecord, NEW r \in Request, pc[r] = "decide", RevokeFamily(r),
           req[r].op = "logout" => IsActiveAt(Current(r), req[r].now)
    PROVE  OnRecord'
<1> DEFINE members == Members(FamilyOf(r))
           p == Presented(r)
<1>1. /\ todo' = [todo EXCEPT ![r] = {s \in members : NotYetRevoked(Seen(r, s))}]
      /\ snapshot' = [snapshot EXCEPT ![r] = members]
      /\ pc' = [pc EXCEPT ![r] = "revoke"]
      /\ UNCHANGED <<rows, draft, req, log, audit, answer>> /\ TypeOK
  BY DEF RevokeFamily, Inv
<1>2. p \in Session /\ Exists(p) /\ Held(r) = {p} /\ Current(r) = rows[p]
  BY Locked
<1>3. p \in members
  BY <1>2 DEF Members, FamilyOf, Exists
<1> HIDE DEF members
<1>4. /\ pc'[r] = "revoke" /\ snapshot'[r] = members
      /\ todo'[r] = {s \in members : NotYetRevoked(Seen(r, s))}
      /\ log[r] = {} /\ audit[r] = {}
  BY <1>1 DEF TypeOK, OnRecord, Logged
<1>5. /\ Presented(r)' = p /\ Held(r)' = Held(r) /\ \A s : Seen(r, s)' = Seen(r, s)
      /\ FamilyOf(r)' = FamilyOf(r) /\ Members(FamilyOf(r))' = members
  BY <1>1 DEF Presented, Held, Seen, FamilyOf, Members, members
<1>6. Sweeping(r)'
  BY <1>1, <1>2, <1>3, <1>4, <1>5 DEF Sweeping, NotYetRevoked, IsActiveAt
<1>7. Logged(r)'
  BY <1>1, <1>4, <1>6 DEF Logged
<1>8. Alone(r)
  BY <1>1 DEF Alone, TypeOK
<1> QED BY <1>1, <1>7, <1>8, AloneOnRecord

LEMMA RevokeRowOnRecord ==
    ASSUME Inv, OnRecord, NEW r \in Request, NEW s \in Session, RevokeRow(r, s)
    PROVE  OnRecord'
<1> DEFINE row == MarkedRevoked(Seen(r, s), req[r].now, ReasonOf(r))
<1>1. /\ pc[r] = "revoke" /\ s \in todo[r] /\ TypeOK /\ Sweeping(r)
      /\ log[r] = {} /\ audit[r] = {}
  BY DEF RevokeRow, Inv, OnRecord, Logged
<1>2. CASE Rollback(r, "constraint")
  BY <1>1, <1>2, RollbackOnRecord
<1>3. ASSUME todo' = [todo EXCEPT ![r] = @ \ {s}],
             UNCHANGED <<rows, req, pc, log, audit, answer, snapshot>>,
             \A q \in Request \ {r} : draft'[q] = draft[q],
             Held(r) \subseteq Held(r)',
             Seen(r, s)'.state = "revoked",
             \A t \in Session \ {s} : Seen(r, t)' = Seen(r, t)
      PROVE  OnRecord'
  <2>1. todo'[r] = todo[r] \ {s} /\ snapshot[r] \subseteq Session
    BY <1>1, <1>3 DEF TypeOK
  <2>2. /\ Presented(r)' = Presented(r) /\ FamilyOf(r)' = FamilyOf(r)
        /\ Members(FamilyOf(r))' = Members(FamilyOf(r))
    BY <1>3 DEF Presented, FamilyOf, Members
  <2>3. \A t \in snapshot[r] : t \in todo'[r] \/ Seen(r, t)'.state = "revoked"
    BY <1>1, <1>3, <2>1 DEF Sweeping
  <2>4. Sweeping(r)'
    BY <1>1, <1>3, <2>2, <2>3 DEF Sweeping
  <2>5. Logged(r)'
    BY <1>1, <1>3, <2>4 DEF Logged
  <2>6. Alone(r)
    BY <1>1, <1>3 DEF Alone, TypeOK
  <2> QED BY <1>3, <2>5, <2>6, AloneOnRecord
<1>4. CASE /\ ~NotYetRevoked(Seen(r, s))
           /\ todo' = [todo EXCEPT ![r] = @ \ {s}]
           /\ UNCHANGED <<clock, userActive, rows, draft, req, pc, log, audit, answer, snapshot>>
  <2>1. Held(r)' = Held(r) /\ \A t \in Session : Seen(r, t)' = Seen(r, t)
    BY <1>4 DEF Held, Seen
  <2> QED BY <1>3, <1>4, <2>1 DEF NotYetRevoked
<1>5. CASE /\ draft' = [draft EXCEPT ![r][s] = row]
           /\ todo' = [todo EXCEPT ![r] = @ \ {s}]
           /\ UNCHANGED <<clock, userActive, rows, req, pc, log, audit, answer, snapshot>>
  <2>1. row.state = "revoked"
    <3>1. Revoking(r) /\ Exists(s)
      BY <1>1 DEF Inv, Transaction
    <3>2. Seen(r, s) \in Row
      BY <1>1, <3>1, NoRowIsNone DEF Seen, Held, TypeOK, Exists
    <3> QED BY <3>2 DEF MarkedRevoked, Row
  <2> HIDE DEF row
  <2>2. /\ draft'[r][s] = row /\ \A t \in Session \ {s} : draft'[r][t] = draft[r][t]
        /\ \A q \in Request \ {r} : draft'[q] = draft[q]
    BY <1>1, <1>5 DEF TypeOK
  <2>3. row # NoRow
    BY <2>1 DEF NoRow
  <2>4. /\ Held(r) \subseteq Held(r)' /\ Seen(r, s)' = row
        /\ \A t \in Session \ {s} : Seen(r, t)' = Seen(r, t)
    BY <1>5, <2>2, <2>3 DEF Held, Seen
  <2> QED BY <1>3, <1>5, <2>1, <2>2, <2>4
<1> QED BY <1>2, <1>4, <1>5 DEF RevokeRow, Holding

\* The evidence is written as the last statement of its transaction.
LEMMA AppendOnRecord ==
    ASSUME Inv, OnRecord, NEW r \in Request, pc[r] \in {"decide", "revoke"}, r \notin Held(r),
           NEW events, NEW result, Append(r, events, result),
           \/ Sweeping(r) /\ todo[r] = {} /\ events = EvidenceOf(r)
           \/ /\ req[r].op = "refresh" /\ events = Disabled
              /\ \A s \in Held(r) : Untouched(r, s)
    PROVE  OnRecord'
<1>1. CASE Rollback(r, "fault")
  BY <1>1, RollbackOnRecord
<1>2. CASE /\ log' = [log EXCEPT ![r] = events]
           /\ answer' = [answer EXCEPT ![r] = result]
           /\ pc' = [pc EXCEPT ![r] = "commit"]
           /\ UNCHANGED <<clock, userActive, rows, draft, req, todo, audit, snapshot>>
  <2>1. TypeOK /\ audit[r] = {}
    BY DEF Inv, OnRecord, Logged
  <2>2. pc'[r] = "commit" /\ log'[r] = events
    BY <1>2, <2>1 DEF TypeOK
  <2>3. /\ Held(r)' = Held(r) /\ Sweeping(r)' = Sweeping(r) /\ EvidenceOf(r)' = EvidenceOf(r)
        /\ \A s : Untouched(r, s)' = Untouched(r, s)
    BY <1>2 DEF Held, Sweeping, Presented, Seen, Members, FamilyOf, EvidenceOf, ReuseEvidence,
       LogoutEvidence, Untouched
  <2>4. Concluding(r)'
    BY <1>2, <2>2, <2>3 DEF Concluding, Disabled
  <2>5. Logged(r)'
    BY <1>2, <2>1, <2>2, <2>4 DEF Logged
  <2>6. Alone(r)
    BY <1>2, <2>1 DEF Alone, TypeOK
  <2> QED BY <1>2, <2>5, <2>6, AloneOnRecord
<1> QED BY <1>1, <1>2 DEF Append

LEMMA FamilyRevokedOnRecord ==
    ASSUME Inv, OnRecord, NEW r \in Request, FamilyRevoked(r)
    PROVE  OnRecord'
<1>1. pc[r] = "revoke" /\ todo[r] = {} /\ Sweeping(r)
  BY DEF FamilyRevoked, OnRecord, Logged
<1>2. r \notin Held(r)
  BY <1>1 DEF Inv, Transaction, Revoking
<1>3. PICK result : Append(r, EvidenceOf(r), result)
  BY DEF FamilyRevoked, EvidenceOf
<1> QED BY <1>1, <1>2, <1>3, AppendOnRecord

LEMMA RejectDisabledOnRecord ==
    ASSUME Inv, OnRecord, NEW r \in Request, RejectDisabled(r)
    PROVE  OnRecord'
<1>1. pc[r] = "decide" /\ req[r].op = "refresh" /\ Append(r, Disabled, "rejected")
  BY DEF RejectDisabled, Presentable, Deciding, Disabled
<1>2. r \notin Held(r) /\ \A s \in Held(r) : Untouched(r, s)
  BY <1>1, Locked, KeptIsRevoking
<1> QED BY <1>1, <1>2, AppendOnRecord

LEMMA RotateOnRecord == ASSUME Inv, OnRecord, NEW r \in Request, Rotate(r) PROVE OnRecord'
<1> DEFINE p == Presented(r)
           row == Current(r)
           new == Successor(row, req[r].now)
<1>1. pc[r] = "replace" /\ req[r].op = "refresh" /\ audit[r] = {} /\ TypeOK /\ r \in Session
  BY Names DEF Rotate, OnRecord, Logged, Inv
<1>2. CASE Rollback(r, "rejected") \/ Rollback(r, "conflict")
  BY <1>1, <1>2, RollbackOnRecord
<1>3. CASE /\ draft' = [draft EXCEPT ![r] =
                  InsertGeneration([@ EXCEPT ![p] = MarkedReplaced(row, r, req[r].now)], r, new)]
           /\ log' = [log EXCEPT ![r] = Events({"refresh_success"}, "info")]
           /\ answer' = [answer EXCEPT ![r] = "ok"]
           /\ pc' = [pc EXCEPT ![r] = "commit"]
           /\ UNCHANGED <<clock, userActive, rows, req, todo, audit, snapshot>>
  <2>1. new # NoRow
    <3>1. row \in Row /\ req[r].now \in Int
      BY <1>1, Locked DEF TypeOK
    <3> QED BY <1>1, <3>1, ReplacedRow, NoRowIsNone
  <2> HIDE DEF new
  <2>2. draft'[r][r] = new
    BY <1>1, <1>3 DEF TypeOK, InsertGeneration
  <2>3. r \in Held(r)' /\ pc'[r] = "commit" /\ log'[r] = Success
    BY <1>1, <1>3, <2>1, <2>2 DEF Held, TypeOK, Success
  <2>4. Logged(r)'
    BY <1>1, <1>3, <2>3 DEF Logged, Concluding, Success
  <2>5. Alone(r)
    BY <1>1, <1>3 DEF Alone, TypeOK
  <2> QED BY <1>3, <2>4, <2>5, AloneOnRecord
<1> QED BY <1>2, <1>3 DEF Rotate

-----------------------------------------------------------------------------
(* The moves that change the rows *)

LEMMA CreateInitialOnRecord ==
    ASSUME Inv, OnRecord, NEW f \in Family, CreateInitial(f)
    PROVE  OnRecord'
<1>1. PICK now \in Now : rows' = InsertGeneration(rows, f,
                             NewActive(f, now, now + IdleLifetime, now + AbsoluteLimit))
  BY DEF CreateInitial
<1> DEFINE new == NewActive(f, now, now + IdleLifetime, now + AbsoluteLimit)
<1>2. /\ ~Exists(f) /\ f \in Session /\ f \notin Request /\ TypeOK
      /\ UNCHANGED <<draft, req, pc, todo, log, audit, answer, snapshot>>
  BY Names DEF CreateInitial, Inv
<1>3. new \in Row /\ new.family = f /\ new.state = "active"
  BY NewActiveWellFormed DEF Now
<1> HIDE DEF new
<1>4. rows'[f] = new /\ \A s \in Session \ {f} : rows'[s] = rows[s]
  BY <1>1, <1>2 DEF InsertGeneration, TypeOK, new
<1>5. \A s \in Session : Exists(s)' <=> Exists(s) \/ s = f
  BY <1>2, <1>3, <1>4, NoRowIsNone DEF Exists
<1>6. \A s \in Session : Exists(s) => rows'[s] = rows[s]
  BY <1>2, <1>4
<1>7. \A s \in Session : Exists(s) => rows[s].family # f
  BY <1>2 DEF Inv, Placed
<1>8. \A s \in Session : rows[s].state = "revoked" => Exists(s)
  BY DEF Exists, NoRow
<1>9. ASSUME NEW q \in Request PROVE Gentle(q)
  <2>1. q \in Session /\ q # f /\ Held(q) \subseteq Session
    BY <1>2, Names DEF Held
  <2> QED BY <1>3, <1>4, <1>5, <1>6, <1>7, <1>8, <2>1 DEF Gentle
<1>10. \A q \in Request : Logged(q)'
  BY <1>2, <1>9, LoggedStays DEF OnRecord
<1>11. ASSUME NEW s \in Session, Exists(s)', rows'[s].state = "revoked" PROVE Traced(s)'
  <2>1. Exists(s) /\ rows'[s] = rows[s]
    BY <1>3, <1>4, <1>5, <1>6, <1>11
  <2>2. Traced(s)
    BY <1>11, <2>1 DEF OnRecord
  <2> QED BY <1>2, <1>6, <2>1, <2>2, TracedStays DEF OnRecord
<1> QED BY <1>10, <1>11 DEF OnRecord

LEMMA MarkExpiredOnRecord == ASSUME Inv, OnRecord, MarkExpired PROVE OnRecord'
<1> DEFINE stale == {s \in Session : Exists(s) /\ rows[s].state = "active"
                                     /\ (rows[s].idle <= clock \/ rows[s].absolute <= clock)}
<1>1. /\ \A r \in Request : Held(r) \cap stale = {}
      /\ rows' = [s \in Session |-> IF s \in stale THEN MarkedExpired(rows[s]) ELSE rows[s]]
      /\ UNCHANGED <<draft, req, pc, todo, log, audit, answer, snapshot>> /\ TypeOK
  BY DEF MarkExpired, Inv
<1>2. \A s \in stale : /\ s \in Session /\ Exists(s) /\ rows[s].state = "active"
                       /\ rows[s] \in Row /\ WellFormed(s, rows[s])
  BY <1>1 DEF TypeOK, Exists, Inv, Placed
<1>3. ASSUME NEW s \in stale
      PROVE  /\ rows'[s] \in Row /\ rows'[s].family = rows[s].family
             /\ rows'[s].state = "expired"
  BY <1>1, <1>2, <1>3, ExpiredRow
<1>4. \A s \in Session \ stale : rows'[s] = rows[s]
  BY <1>1
<1> HIDE DEF stale
<1>5. \A s \in Session : /\ Exists(s)' <=> Exists(s)
                         /\ Exists(s) => rows'[s].family = rows[s].family
  BY <1>2, <1>3, <1>4, NoRowIsNone DEF Exists
<1>6. \A s \in Session : rows[s].state = "revoked" => rows'[s] = rows[s]
  BY <1>2, <1>4
<1>7. ASSUME NEW q \in Request PROVE Gentle(q)
  <2>1. q \in Session /\ Held(q) \subseteq Session \ stale
    BY <1>1, Names DEF Held
  <2> QED BY <1>4, <1>5, <1>6, <2>1 DEF Gentle
<1>8. \A q \in Request : Logged(q)'
  BY <1>1, <1>7, LoggedStays DEF OnRecord
<1>9. ASSUME NEW s \in Session, Exists(s)', rows'[s].state = "revoked" PROVE Traced(s)'
  <2>1. Exists(s) /\ rows'[s] = rows[s]
    BY <1>3, <1>4, <1>5, <1>9
  <2>2. Traced(s)
    BY <1>9, <2>1 DEF OnRecord
  <2> QED BY <1>1, <1>5, <2>1, <2>2, TracedStays DEF OnRecord
<1> QED BY <1>8, <1>9 DEF OnRecord

\* A commit, as the other requests see it.
LEMMA CommitIsGentle ==
    ASSUME Inv, NEW r \in Request, Commit(r)
    PROVE  /\ \A s \in Session : Exists(s) => Exists(s)' /\ rows'[s].family = rows[s].family
           /\ \A q \in Request \ {r} : Gentle(q)
<1>1. /\ TypeOK /\ pc[r] = "commit" /\ rows' = [s \in Session |-> Seen(r, s)]
      /\ Revoking(r) \/ Rotated(r)
  BY DEF Inv, Commit, Transaction
<1>2. ASSUME NEW q \in Request \ {r}, NEW s \in Held(q) PROVE s \in Session /\ rows'[s] = rows[s]
  <2>1. s \in Session /\ s \notin Held(r)
    BY DEF Inv, LocksExclusive, Held
  <2> QED BY <1>1, <2>1 DEF Seen
<1>3. \A s \in Session : rows[s].state = "revoked" => Exists(s)
  BY DEF Exists, NoRow
<1>4. CASE Revoking(r)
  <2>1. \A s \in Session :
            \/ rows'[s] = rows[s]
            \/ /\ Exists(s) /\ rows'[s] \in Row /\ rows'[s].family = rows[s].family
               /\ rows'[s].state = "revoked"
    BY <1>4, CommittedRevocation
  <2>2. \A s \in Session : /\ Exists(s)' <=> Exists(s)
                           /\ Exists(s) => rows'[s].family = rows[s].family
                           /\ rows[s].state = "revoked" => rows'[s].state = "revoked"
    BY <2>1, NoRowIsNone DEF Exists
  <2>3. ASSUME NEW q \in Request \ {r} PROVE Gentle(q)
    <3>1. q \in Session
      BY Names
    <3> QED BY <1>2, <2>2, <3>1 DEF Gentle
  <2> QED BY <2>2, <2>3
<1>5. CASE Rotated(r)
  <2> DEFINE p == Presented(r)
             old == MarkedReplaced(rows[p], r, req[r].now)
             new == Successor(rows[p], req[r].now)
  <2>1. /\ p \in Session /\ r \in Session /\ p # r /\ Exists(p) /\ ~Exists(r)
        /\ rows[p].state = "active" /\ rows[p] \in Row /\ req[r].now \in Int
        /\ Held(r) = {p, r}
        /\ rows' = [rows EXCEPT ![p] = old, ![r] = new]
    BY <1>1, <1>5, CommittedRotation, Names DEF Rotated, TypeOK
  <2>2. /\ old \in Row /\ old.family = rows[p].family
        /\ new \in Row /\ new.family = rows[p].family
    BY <2>1, ReplacedRow
  <2> HIDE DEF old, new, p
  <2>3. rows'[p] = old /\ rows'[r] = new /\ \A s \in Session \ {p, r} : rows'[s] = rows[s]
    BY <1>1, <2>1 DEF TypeOK
  <2>4. \A s \in Session : Exists(s) => Exists(s)' /\ rows'[s].family = rows[s].family
    BY <2>1, <2>2, <2>3, NoRowIsNone DEF Exists
  <2>5. \A s \in Session : Exists(s)' => Exists(s) \/ s = r
    BY <2>1, <2>3 DEF Exists
  <2>6. \A s \in Session : rows[s].state = "revoked" => rows'[s].state = "revoked"
    BY <1>3, <2>1, <2>3
  <2>7. ASSUME NEW q \in Request \ {r} PROVE Gentle(q)
    <3>1. q \in Session /\ p \in Session \ Held(q)
      BY <2>1, Names DEF Inv, LocksExclusive
    <3>2. rows'[r].family = rows[p].family
      BY <2>2, <2>3
    <3> QED BY <1>2, <2>1, <2>4, <2>5, <2>6, <3>1, <3>2 DEF Gentle
  <2> QED BY <2>4, <2>7
<1> QED BY <1>1, <1>4, <1>5

\* What the committing request has on record.
LEMMA CommitRecords ==
    ASSUME Inv, OnRecord, NEW r \in Request, Commit(r)
    PROVE  Logged(r)'
<1>1. /\ TypeOK /\ r \in Session /\ pc[r] = "commit" /\ rows' = [s \in Session |-> Seen(r, s)]
      /\ audit[r] = {} /\ audit'[r] = log[r] /\ log'[r] = {} /\ pc'[r] = "done"
      /\ UNCHANGED <<req, todo, answer, snapshot>>
      /\ ~Exists(r) /\ Concluding(r)
      /\ Presented(r) \in Session /\ Exists(Presented(r))
  BY Names DEF Inv, Commit, TypeOK, OnRecord, Logged, Transaction, InTransaction
<1>2. Presented(r)' = Presented(r)
  BY <1>1 DEF Presented
<1>3. CASE r \in Held(r)
  <2>1. req[r].op = "refresh" /\ audit'[r] = Success
    BY <1>1, <1>3 DEF Concluding
  <2>2. Exists(r)'
    BY <1>1, <1>3 DEF Exists, Seen, Held
  <2>3. ~RevocationIn(audit'[r])
    BY <2>1, RecordsDiffer
  <2> QED BY <1>1, <2>1, <2>2, <2>3 DEF Logged, Recorded, RevocationIn, Success
<1>4. CASE r \notin Held(r)
  <2>1. ~Exists(r)'
    BY <1>1, <1>4 DEF Exists, Seen
  <2>2. CASE Sweeping(r) /\ todo[r] = {} /\ log[r] = EvidenceOf(r)
    <3>1. Presented(r) \in snapshot[r] /\ snapshot[r] \subseteq Session
      BY <1>1, <2>2 DEF Sweeping, TypeOK
    <3>2. \A s \in snapshot[r] : rows'[s].state = "revoked"
      BY <1>1, <2>2, <3>1 DEF Sweeping
    <3>3. ~(Success \subseteq audit'[r])
      BY <1>1, <2>2, RecordsDiffer
    <3>4. ASSUME req[r].op = "logout" PROVE FamilyEnded(r)'
      <4>1. snapshot[r] = Members(FamilyOf(r))
        BY <2>2, <3>4 DEF Sweeping
      <4>2. \A s \in Session : Exists(s) => Exists(s)' /\ rows'[s].family = rows[s].family
        BY CommitIsGentle
      <4>3. \A s \in Session : Exists(s)' => Exists(s)
        <5>1. Revoking(r)
          BY <1>1, <1>4, Committing
        <5> QED BY <5>1, CommittedRevocation DEF Exists
      <4>4. FamilyOf(r)' = FamilyOf(r)
        BY <1>1, <1>2, <4>2 DEF FamilyOf
      <4>5. Members(FamilyOf(r))' \subseteq Members(FamilyOf(r))
        BY <4>2, <4>3, <4>4 DEF Members, Exists
      <4>6. Exists(Presented(r))'
        BY <1>1, <1>2, <4>2 DEF Exists
      <4> QED BY <1>1, <1>2, <3>2, <4>1, <4>5, <4>6 DEF FamilyEnded
    <3>5. Recorded(r)'
      BY <1>1, <1>2, <2>1, <3>1, <3>2, <3>3, <3>4 DEF Recorded, Success
    <3> QED BY <1>1, <3>5 DEF Logged
  <2>3. CASE req[r].op = "refresh" /\ log[r] = Disabled
    <3>1. ~RevocationIn(audit'[r]) /\ ~(Success \subseteq audit'[r])
      BY <1>1, <2>3, RecordsDiffer
    <3>2. Recorded(r)'
      BY <1>1, <2>1, <2>3, <3>1 DEF Recorded, RevocationIn, Success
    <3> QED BY <1>1, <3>2 DEF Logged
  <2> QED BY <1>1, <1>4, <2>2, <2>3 DEF Concluding
<1> QED BY <1>3, <1>4

LEMMA CommitOnRecord == ASSUME Inv, OnRecord, NEW r \in Request, Commit(r) PROVE OnRecord'
<1>1. /\ TypeOK /\ r \in Session /\ pc[r] = "commit" /\ rows' = [s \in Session |-> Seen(r, s)]
      /\ draft' = [draft EXCEPT ![r] = NoVersions]
      /\ audit' = [audit EXCEPT ![r] = @ \cup log[r]] /\ log' = [log EXCEPT ![r] = {}]
      /\ pc' = [pc EXCEPT ![r] = "done"]
      /\ UNCHANGED <<req, todo, answer, snapshot>>
      /\ Concluding(r) /\ ~Exists(r)
      /\ Presented(r) \in Session /\ Exists(Presented(r))
  BY Names DEF Inv, Commit, OnRecord, Logged, Transaction, InTransaction
<1>2. ASSUME NEW q \in Request \ {r} PROVE Logged(q)'
  <2>1. UNCHANGED <<draft[q], req[q], pc[q], todo[q], log[q], audit[q], answer[q], snapshot[q]>>
    BY <1>1 DEF TypeOK
  <2> QED BY <2>1, CommitIsGentle, LoggedStays DEF OnRecord
<1>3. Logged(r)'
  BY CommitRecords
<1>4. \A s \in Session : Exists(s) => Exists(s)' /\ rows'[s].family = rows[s].family
  BY CommitIsGentle
<1>5. \A q \in Request : audit[q] \subseteq audit'[q]
  BY <1>1 DEF TypeOK
<1>6. ASSUME NEW s \in Session, Exists(s)', rows'[s].state = "revoked" PROVE Traced(s)'
  <2>1. CASE rows'[s] = rows[s]
    <3>1. Traced(s)
      BY <1>6, <2>1 DEF OnRecord, Exists
    <3> QED BY <1>1, <1>4, <1>5, <2>1, <3>1, TracedStays DEF OnRecord
  <2>2. CASE rows'[s] # rows[s]
    <3>1. CASE r \in Held(r)
      <4> DEFINE p == Presented(r)
      <4>1. Rotated(r)
        BY <1>1, <3>1, Committing
      <4>2. /\ p # r /\ rows[p] \in Row
            /\ rows' = [rows EXCEPT ![p] = MarkedReplaced(rows[p], r, req[r].now),
                                    ![r] = Successor(rows[p], req[r].now)]
        BY <4>1, CommittedRotation
      <4>3. /\ MarkedReplaced(rows[p], r, req[r].now).state = "replaced"
            /\ Successor(rows[p], req[r].now).state = "active"
        <5>1. req[r].now \in Int
          BY <1>1 DEF TypeOK
        <5> QED BY <1>1, <4>2, <5>1, ReplacedRow
      <4> QED BY <1>1, <1>6, <2>2, <4>2, <4>3 DEF TypeOK
    <3>2. CASE r \notin Held(r)
      <4>1. Revoking(r)
        BY <1>1, <3>2, Committing
      <4>2. /\ s \in Held(r) /\ Exists(s) /\ rows[s].family = rows[Presented(r)].family
            /\ rows'[s].family = rows[s].family
        BY <2>2, <4>1, CommittedRevocation
      <4>3. rows'[s] = draft[r][s]
        BY <1>1, <4>2 DEF Seen
      <4>4. Revised(r, s) /\ ~Untouched(r, s)
        BY <2>2, <4>1, <4>2, <4>3 DEF Revoking, Untouched
      <4>5. rows'[s].reason = ReasonOf(r)
        <5>1. rows[s] \in Row
          BY <1>1, <4>2 DEF TypeOK, Exists
        <5> QED BY <4>3, <4>4, <5>1 DEF Revised, MarkedRevoked, Row
      <4>6. log[r] = EvidenceOf(r)
        BY <1>1, <3>2, <4>2, <4>4 DEF Concluding
      <4>7. EvidenceOf(r)' \subseteq audit'[r]
        BY <1>1, <4>6 DEF TypeOK, EvidenceOf, ReuseEvidence, LogoutEvidence
      <4>8. /\ Presented(r)' # NoSession /\ ReasonOf(r)' = ReasonOf(r)
            /\ FamilyOf(r)' = rows'[s].family
        BY <1>1, <1>4, <4>2, Names DEF Presented, ReasonOf, FamilyOf
      <4> QED BY <4>5, <4>7, <4>8 DEF Traced
    <3> QED BY <3>1, <3>2
  <2> QED BY <2>1, <2>2
<1> QED BY <1>2, <1>3, <1>6 DEF OnRecord

LEMMA NextOnRecord == Inv /\ OnRecord /\ [Next]_vars => OnRecord'
<1> SUFFICES ASSUME Inv, OnRecord, [Next]_vars PROVE OnRecord'
  OBVIOUS
<1>1. ASSUME NEW r \in Request, Refresh(r) PROVE OnRecord'
  <2>1. ASSUME NEW s \in Session, Begin(r, "refresh", s) PROVE OnRecord'
    BY <2>1, BeginOnRecord DEF Op
  <2>2. ASSUME RejectUnknown(r, "refresh") PROVE OnRecord'
    BY <2>2, RejectUnknownOnRecord DEF Op
  <2>3. ASSUME Replay(r) PROVE OnRecord'
    BY <2>3, RevokeFamilyOnRecord DEF Replay, Deciding
  <2>4. ASSUME RejectExpired(r) PROVE OnRecord'
    BY <2>4, RollbackOnRecord DEF RejectExpired, Deciding
  <2> QED BY <1>1, <2>1, <2>2, <2>3, <2>4, RejectDisabledOnRecord, CheckRefreshLimitOnRecord,
             RotateOnRecord DEF Refresh
<1>2. ASSUME NEW r \in Request, Logout(r) PROVE OnRecord'
  <2>1. ASSUME NEW s \in Session, Begin(r, "logout", s) PROVE OnRecord'
    BY <2>1, BeginOnRecord DEF Op
  <2>2. ASSUME RejectUnknown(r, "logout") PROVE OnRecord'
    BY <2>2, RejectUnknownOnRecord DEF Op
  <2>3. ASSUME RejectLogout(r) PROVE OnRecord'
    BY <2>3, RollbackOnRecord DEF RejectLogout, Deciding
  <2>4. ASSUME RevokeOnLogout(r) PROVE OnRecord'
    BY <2>4, RevokeFamilyOnRecord DEF RevokeOnLogout, Deciding
  <2> QED BY <1>2, <2>1, <2>2, <2>3, <2>4 DEF Logout
<1>3. ASSUME NEW r \in Request, BreakDeadlock(r) PROVE OnRecord'
  <2>1. pc[r] = "revoke"
    BY <1>3 DEF BreakDeadlock, WaitsFor
  <2> QED BY <1>3, <2>1, RollbackOnRecord DEF BreakDeadlock
<1>4. ASSUME NEW r \in Request, Fail(r) PROVE OnRecord'
  BY <1>4, RollbackOnRecord DEF Fail, InTransaction
<1>5. CASE UNCHANGED <<rows, draft, req, pc, todo, log, audit, answer, snapshot>>
  <2>1. \A q \in Request : Gentle(q)
    BY <1>5 DEF Gentle, Exists
  <2>2. \A q \in Request : Logged(q)'
    BY <1>5, <2>1, LoggedStays DEF OnRecord
  <2>3. ASSUME NEW s \in Session, Exists(s)', rows'[s].state = "revoked" PROVE Traced(s)'
    <3>1. Traced(s)
      BY <1>5, <2>3 DEF OnRecord, Exists
    <3> QED BY <1>5, <3>1, TracedStays DEF OnRecord
  <2> QED BY <2>2, <2>3 DEF OnRecord
<1>6. ASSUME NEW r \in Request, Step(r) PROVE OnRecord'
  BY <1>1, <1>2, <1>3, <1>6, LockByDigestOnRecord, RevokeRowOnRecord, FamilyRevokedOnRecord,
     CommitOnRecord DEF Step
<1>7. CASE DisableUser \/ Tick \/ UNCHANGED vars
  BY <1>5, <1>7 DEF DisableUser, Tick, vars
<1> QED BY <1>4, <1>6, <1>7, CreateInitialOnRecord, MarkExpiredOnRecord DEF Next

-----------------------------------------------------------------------------
(* What the families promise *)

\* Refresh and logout never break the families, whatever they race with: every
\* row can be read back, every generation was inserted by the rotation of one
\* that can never be used again, at most one is usable, none outlives the
\* login, and the unique index never has to refuse a rotation.
THEOREM FamiliesStaySound == Spec => []FamiliesSound
<1>1. ASSUME Inv PROVE FamiliesSound
  <2>1. RowsWellFormed /\ NoRotationConflicts
    BY <1>1, Names DEF Inv, Placed, RowsWellFormed, Transaction, NoRotationConflicts
  <2>2. ASSUME NEW s \in Session, Exists(s)
        PROVE  LET end == rows[rows[s].family].created + AbsoluteLimit
               IN  rows[s].created < end /\ rows[s].idle <= end /\ rows[s].absolute = end
    <3>1. /\ rows[s].absolute = rows[rows[s].family].created + AbsoluteLimit
          /\ rows[s].absolute > rows[s].created /\ rows[s].idle <= rows[s].absolute
          /\ rows[s] \in Row
      BY <1>1, <2>2 DEF Inv, Placed, WellFormed, TypeOK, Exists
    <3>2. rows[s].absolute \in Int /\ rows[s].created \in Int
      BY <3>1 DEF Row
    <3> QED BY <3>1, <3>2
  <2>3. FamilyNeverOutlivesLogin
    BY <2>2 DEF FamilyNeverOutlivesLogin
  <2> QED BY <1>1, <2>1, <2>3 DEF Inv, FamiliesSound
<1> QED BY InitInv, NextInv, <1>1, PTL DEF Spec

LEMMA AlwaysOnRecord == Spec => [](Inv /\ OnRecord)
<1>1. Init => Inv /\ OnRecord
  BY InitInv, InitOnRecord
<1>2. (Inv /\ OnRecord) /\ [Next]_vars => (Inv /\ OnRecord)'
  BY NextInv, NextOnRecord
<1> QED BY <1>1, <1>2, PTL DEF Spec

\* A request that has a revocation on record has seen its outcome.
LEMMA OnRecordIsDone ==
    ASSUME OnRecord, NEW r \in Request, RevocationIn(audit[r])
    PROVE  pc[r] = "done" /\ Recorded(r)
BY DEF OnRecord, Logged, RevocationIn

\* A replay that has its evidence on record revoked every row that its UPDATE
\* saw, also those that other requests held, rotated or revoked meanwhile.
THEOREM ReplaysRevokeFamilies == Spec => []ReplayRevokesWhatItSaw
<1>1. ASSUME OnRecord PROVE ReplayRevokesWhatItSaw
  <2>1. SUFFICES ASSUME NEW r \in Request, ReuseEvidence(r) \subseteq audit[r],
                        NEW s \in snapshot[r]
                 PROVE  rows[s].state = "revoked"
    BY DEF ReplayRevokesWhatItSaw
  <2>2. [action |-> "token_family_revocation", severity |-> "high"] \in ReuseEvidence(r)
    BY DEF ReuseEvidence, Events
  <2>3. RevocationIn(audit[r])
    BY <2>1, <2>2 DEF RevocationIn
  <2> QED BY <1>1, <2>3, OnRecordIsDone DEF Recorded
<1> QED BY AlwaysOnRecord, <1>1, PTL

\* After a logout that was answered with success no generation of the family is
\* usable, and none ever joins it: the logout held the only one that could have
\* been rotated.
THEOREM LogoutsAreFinal == Spec => []LogoutIsFinal
<1>1. ASSUME OnRecord PROVE LogoutIsFinal
  BY <1>1 DEF OnRecord, Logged, Recorded, FamilyEnded, LogoutIsFinal
<1> QED BY AlwaysOnRecord, <1>1, PTL

\* Evidence and effect commit together, whatever fails in between.
THEOREM EvidenceIsExact == Spec => []EvidenceMatchesRows
<1>1. ASSUME Inv, OnRecord PROVE EvidenceMatchesRows
  <2>1. ASSUME NEW r \in Request
        PROVE  Exists(r) <=> Events({"refresh_success"}, "info") \subseteq audit[r]
    <3>1. CASE pc[r] = "done"
      BY <1>1, <3>1 DEF OnRecord, Logged, Recorded, Success
    <3>2. CASE pc[r] # "done"
      <4>1. ~Exists(r) /\ audit[r] = {}
        BY <1>1, <3>2 DEF Inv, Transaction, OnRecord, Logged
      <4> QED BY <4>1, RecordsDiffer DEF Success
    <3> QED BY <3>1, <3>2
  <2>2. ASSUME NEW r \in Request, NEW e \in audit[r], e.action = "token_family_revocation"
        PROVE  rows[Presented(r)].state = "revoked"
    BY <1>1, <2>2, OnRecordIsDone DEF RevocationIn, Recorded
  <2>3. ASSUME NEW s \in Session, Exists(s), rows[s].state = "revoked"
        PROVE  \E r \in Request :
                   /\ Presented(r) # NoSession
                   /\ FamilyOf(r) = rows[s].family
                   /\ ReasonOf(r) = rows[s].reason
                   /\ (IF req[r].op = "refresh" THEN ReuseEvidence(r) ELSE LogoutEvidence(r))
                          \subseteq audit[r]
    BY <1>1, <2>3 DEF OnRecord, Traced, EvidenceOf
  <2> QED BY <2>1, <2>2, <2>3 DEF EvidenceMatchesRows
<1> QED BY AlwaysOnRecord, <1>1, PTL

-----------------------------------------------------------------------------
(* The families as single-use tokens *)

Status == [s \in Session |-> TokenStatus(s)]

Lineage == [s \in Session |-> IF Exists(s) THEN rows[s].family ELSE NoSession]

LEMMA StatusOfRow ==
    ASSUME TypeOK, NEW s \in Session
    PROVE  /\ ~Exists(s) => Status[s] = "unissued" /\ Lineage[s] = NoSession
           /\ Exists(s) => Lineage[s] = rows[s].family
           /\ Exists(s) /\ rows[s].state = "active" => Status[s] = "live"
           /\ Exists(s) /\ rows[s].state = "replaced" => Status[s] = "spent"
           /\ Exists(s) /\ rows[s].state \in {"revoked", "expired"} => Status[s] = "dead"
BY DEF Status, Lineage, TokenStatus

\* What is revoked or expires at a time.
LEMMA EndedStatus ==
    ASSUME TypeOK, TypeOK', NEW ended \in SUBSET Session,
           \A s \in Session \ ended : rows'[s] = rows[s],
           \A s \in ended : /\ Exists(s) /\ Exists(s)' /\ rows'[s].family = rows[s].family
                            /\ rows'[s].state \in {"revoked", "expired"}
    PROVE  /\ Status' = [s \in Session |-> IF s \in ended THEN "dead" ELSE Status[s]]
           /\ Lineage' = Lineage
<1>1. ASSUME NEW s \in Session
      PROVE  /\ Status'[s] = IF s \in ended THEN "dead" ELSE Status[s]
             /\ Lineage'[s] = Lineage[s]
  <2>1. CASE s \in ended
    <3>1. Status'[s] = "dead" /\ Lineage'[s] = rows'[s].family
      BY <2>1, StatusOfRow DEF Status, Lineage, TokenStatus
    <3> QED BY <2>1, <3>1, StatusOfRow
  <2>2. CASE s \notin ended
    BY <2>2 DEF Status, Lineage, TokenStatus, Exists
  <2> QED BY <2>1, <2>2
<1>2. Status' = [s \in Session |-> Status'[s]] /\ Lineage' = [s \in Session |-> Lineage'[s]]
      /\ Lineage = [s \in Session |-> Lineage[s]]
  BY DEF Status, Lineage
<1> QED BY <1>1, <1>2

LEMMA TokensInit == Init => Tokens!Init
<1> SUFFICES ASSUME Init PROVE Tokens!Init
  OBVIOUS
<1>1. \A s \in Session : ~Exists(s)
  BY DEF Init, Exists
<1>2. /\ Status = [s \in Session |-> "unissued"]
      /\ Lineage = [s \in Session |-> NoSession]
  BY <1>1 DEF Status, Lineage, TokenStatus
<1> QED BY <1>2 DEF Tokens!Init, Status, Lineage

LEMMA CommitImplements == ASSUME Inv, Inv', NEW r \in Request, Commit(r) PROVE [Tokens!Next]_(Tokens!vars)
<1>1. TypeOK /\ TypeOK' /\ pc[r] = "commit" /\ (Revoking(r) \/ Rotated(r))
      /\ Presented(r) \in Session /\ Exists(Presented(r))
  BY DEF Inv, Commit, Transaction, InTransaction
<1>2. CASE Revoking(r)
  <2> DEFINE ended == {s \in Session : rows'[s] # rows[s]}
             f == rows[Presented(r)].family
  <2>1. \A s \in ended : /\ Exists(s) /\ Exists(s)' /\ rows'[s].family = rows[s].family
                         /\ rows'[s].state \in {"revoked", "expired"}
                         /\ rows[s].family = f
    BY <1>2, CommittedRevocation, NoRowIsNone DEF Exists
  <2>2. f \in Family
    BY <1>1 DEF TypeOK, Exists, Row
  <2>3. /\ Status' = [s \in Session |-> IF s \in ended THEN "dead" ELSE Status[s]]
        /\ Lineage' = Lineage
    BY <1>1, <2>1, EndedStatus
  <2>4. ended \in SUBSET {s \in Session : Lineage[s] = f}
    BY <1>1, <2>1, StatusOfRow
  <2> HIDE DEF ended, f
  <2>5. Tokens!Revoke(f)
    BY <2>3, <2>4 DEF Tokens!Revoke, Tokens!Ended, Status, Lineage
  <2> QED BY <2>2, <2>5 DEF Tokens!Next
<1>3. CASE Rotated(r)
  <2> DEFINE p == Presented(r)
             old == MarkedReplaced(rows[p], r, req[r].now)
             new == Successor(rows[p], req[r].now)
  <2>1. /\ p \in Session /\ r \in Session /\ p # r /\ Exists(p) /\ ~Exists(r)
        /\ rows[p].state = "active" /\ rows[p] \in Row /\ req[r].now \in Int
        /\ rows' = [rows EXCEPT ![p] = old, ![r] = new]
    BY <1>1, <1>3, CommittedRotation, Names DEF Rotated, TypeOK
  <2>2. /\ old \in Row /\ old.state = "replaced" /\ old.family = rows[p].family
        /\ new \in Row /\ new.state = "active" /\ new.family = rows[p].family
    BY <2>1, ReplacedRow
  <2>3. rows'[p] = old /\ rows'[r] = new /\ \A s \in Session \ {p, r} : rows'[s] = rows[s]
    BY <1>1, <2>1 DEF TypeOK
  <2>4. Status[p] = "live" /\ Status[r] = "unissued" /\ Lineage[p] = rows[p].family
    BY <1>1, <2>1, StatusOfRow
  <2> HIDE DEF p, old, new
  <2>5. /\ Status'[p] = "spent" /\ Status'[r] = "live"
        /\ \A s \in Session \ {p, r} : Status'[s] = Status[s]
    BY <2>1, <2>2, <2>3, NoRowIsNone DEF Status, TokenStatus, Exists
  <2>6. /\ Lineage'[r] = Lineage[p]
        /\ \A s \in Session \ {r} : Lineage'[s] = Lineage[s]
    <3>1. \A s \in Session : Exists(s) => Exists(s)' /\ rows'[s].family = rows[s].family
      BY <2>1, <2>2, <2>3, NoRowIsNone DEF Exists
    <3>2. \A s \in Session \ {r} : ~Exists(s) => ~Exists(s)'
      BY <2>1, <2>3 DEF Exists
    <3>3. \A s \in Session \ {r} : Lineage'[s] = Lineage[s]
      BY <3>1, <3>2 DEF Lineage
    <3>4. Exists(r)' /\ rows'[r].family = rows[p].family
      BY <2>2, <2>3, NoRowIsNone DEF Exists
    <3>5. Lineage'[r] = Lineage[p]
      BY <2>1, <2>4, <3>4 DEF Lineage
    <3> QED BY <3>3, <3>5
  <2>7. /\ Status' = [Status EXCEPT ![p] = "spent", ![r] = "live"]
        /\ Lineage' = [Lineage EXCEPT ![r] = Lineage[p]]
    BY <2>1, <2>5, <2>6 DEF Status, Lineage
  <2>8. Tokens!Exchange(p, r)
    BY <2>4, <2>7 DEF Tokens!Exchange, Status, Lineage
  <2> QED BY <2>1, <2>8 DEF Tokens!Next
<1> QED BY <1>1, <1>2, <1>3

LEMMA CreateInitialImplements ==
    ASSUME Inv, Inv', NEW f \in Family, CreateInitial(f)
    PROVE  [Tokens!Next]_(Tokens!vars)
<1>1. PICK now \in Now : rows' = InsertGeneration(rows, f,
                             NewActive(f, now, now + IdleLifetime, now + AbsoluteLimit))
  BY DEF CreateInitial
<1> DEFINE new == NewActive(f, now, now + IdleLifetime, now + AbsoluteLimit)
<1>2. TypeOK /\ TypeOK' /\ ~Exists(f) /\ f \in Session
  BY Names DEF Inv, CreateInitial
<1>3. new \in Row /\ new.state = "active" /\ new.family = f
  BY NewActiveWellFormed DEF Now
<1> HIDE DEF new
<1>4. rows'[f] = new /\ \A s \in Session \ {f} : rows'[s] = rows[s]
  BY <1>1, <1>2 DEF TypeOK, InsertGeneration, new
<1>5. Status[f] = "unissued" /\ \A s \in Session : Lineage[s] # f
  <2>1. \A s \in Session : Exists(s) => rows[s].family # f
    BY <1>2 DEF Inv, Placed
  <2> QED BY <1>2, <2>1, StatusOfRow, Names
<1>6. /\ Status'[f] = "live" /\ \A s \in Session \ {f} : Status'[s] = Status[s]
      /\ Lineage'[f] = f /\ \A s \in Session \ {f} : Lineage'[s] = Lineage[s]
  BY <1>2, <1>3, <1>4, NoRowIsNone DEF Status, Lineage, TokenStatus, Exists
<1>7. /\ Status' = [Status EXCEPT ![f] = "live"]
      /\ Lineage' = [Lineage EXCEPT ![f] = f]
  BY <1>2, <1>6 DEF Status, Lineage
<1>8. Tokens!Issue(f, f)
  BY <1>5, <1>7 DEF Tokens!Issue, Status, Lineage
<1> QED BY <1>2, <1>8 DEF Tokens!Next

LEMMA MarkExpiredImplements ==
    ASSUME Inv, Inv', MarkExpired
    PROVE  [Tokens!Next]_(Tokens!vars)
<1> DEFINE stale == {s \in Session : Exists(s) /\ rows[s].state = "active"
                                     /\ (rows[s].idle <= clock \/ rows[s].absolute <= clock)}
<1>1. rows' = [s \in Session |-> IF s \in stale THEN MarkedExpired(rows[s]) ELSE rows[s]]
  BY DEF MarkExpired
<1>2. TypeOK /\ TypeOK'
  BY DEF Inv
<1>3. \A s \in stale : /\ s \in Session /\ Exists(s) /\ rows[s].state = "active"
                       /\ rows[s] \in Row /\ WellFormed(s, rows[s])
  BY <1>2 DEF TypeOK, Exists, Inv, Placed
<1>4. \A s \in stale : /\ Exists(s) /\ Exists(s)' /\ rows'[s].family = rows[s].family
                       /\ rows'[s].state \in {"revoked", "expired"}
  BY <1>1, <1>3, ExpiredRow, NoRowIsNone DEF Exists
<1>5. /\ Status' = [s \in Session |-> IF s \in stale THEN "dead" ELSE Status[s]]
      /\ Lineage' = Lineage
  BY <1>1, <1>2, <1>4, EndedStatus
<1>6. stale \in SUBSET {s \in Session : Status[s] = "live"}
  BY <1>2, <1>3, StatusOfRow
<1> HIDE DEF stale
<1>7. Tokens!Expire
  BY <1>5, <1>6 DEF Tokens!Expire, Tokens!Ended, Status, Lineage
<1> QED BY <1>7 DEF Tokens!Next

LEMMA OthersImplement ==
    ASSUME UNCHANGED rows
    PROVE  [Tokens!Next]_(Tokens!vars)
<1>1. Status' = Status /\ Lineage' = Lineage
  BY DEF Status, Lineage, TokenStatus, Exists
<1> QED BY <1>1 DEF Tokens!vars, Status, Lineage

\* Statement by statement, under every interleaving, refreshes, replays,
\* logouts, logins and the expiry sweep do to the rows what single-use tokens
\* allow: one token issued, one exchanged for one, or tokens of one family
\* ended for good.
THEOREM TokensAreSingleUse == Spec => ImplementsSingleUseTokens
<1>1. ASSUME Inv, Inv', [Next]_vars PROVE [Tokens!Next]_(Tokens!vars)
  <2>1. ASSUME NEW r \in Request, Step(r) \/ Fail(r), ~Commit(r) PROVE UNCHANGED rows
    BY <2>1 DEF Step, Fail, LockByDigest, Refresh, Logout, RevokeRow, FamilyRevoked, BreakDeadlock,
                Begin, RejectUnknown, Replay, RejectExpired, RejectDisabled, CheckRefreshLimit,
                Rotate, RejectLogout, RevokeOnLogout, RevokeFamily, Append, Rollback
  <2>2. ASSUME DisableUser \/ Tick \/ UNCHANGED vars PROVE UNCHANGED rows
    BY <2>2 DEF DisableUser, Tick, vars
  <2> QED BY <1>1, <2>1, <2>2, CommitImplements, CreateInitialImplements,
             MarkExpiredImplements, OthersImplement DEF Next
<1> QED BY InitInv, NextInv, TokensInit, <1>1, PTL DEF Spec, ImplementsSingleUseTokens, Tokens!Spec

------------------------------------------------------------------------------
(* What single-use tokens promise, and so what the rows do *)

\* A token has a family once it is issued, and of a family one token, at most,
\* is usable.
TokensInv ==
    /\ Status \in [Session -> {"unissued", "live", "spent", "dead"}]
    /\ Lineage \in [Session -> Family \cup {NoSession}]
    /\ \A t \in Session : Status[t] # "unissued" => Lineage[t] # NoSession
    /\ \A t, u \in Session :
           Lineage[t] \in Family /\ Lineage[t] = Lineage[u] /\ Status[t] = "live" /\ Status[u] = "live"
               => t = u

LEMMA TokensInvMeans == TokensInv => Tokens!TypeOK /\ Tokens!OneLiveToken
BY DEF TokensInv, Tokens!TypeOK, Tokens!OneLiveToken, Tokens!Live, Status, Lineage

LEMMA TokensInitInv == Tokens!Init => TokensInv
<1> SUFFICES ASSUME Tokens!Init PROVE TokensInv
  OBVIOUS
<1>1. Status = [t \in Session |-> "unissued"] /\ Lineage = [t \in Session |-> NoSession]
  BY DEF Tokens!Init, Status, Lineage
<1> QED BY <1>1, Names DEF TokensInv

\* What a step may do to the tokens, in the names of this module.
IssueStep(f, t) ==
    /\ Status[t] = "unissued" /\ \A u \in Session : Lineage[u] # f
    /\ Status' = [Status EXCEPT ![t] = "live"]
    /\ Lineage' = [Lineage EXCEPT ![t] = f]

ExchangeStep(t, u) ==
    /\ Status[t] = "live" /\ Status[u] = "unissued"
    /\ Status' = [Status EXCEPT ![t] = "spent", ![u] = "live"]
    /\ Lineage' = [Lineage EXCEPT ![u] = Lineage[t]]

EndStep(ended) ==
    /\ \A t \in ended : Status[t] = "live" \/ Lineage[t] \in Family
    /\ Status' = [t \in Session |-> IF t \in ended THEN "dead" ELSE Status[t]]
    /\ Lineage' = Lineage

LEMMA TokenSteps ==
    ASSUME [Tokens!Next]_(Tokens!vars)
    PROVE  \/ \E f \in Family, t \in Session : IssueStep(f, t)
           \/ \E t, u \in Session : ExchangeStep(t, u)
           \/ \E ended \in SUBSET Session : EndStep(ended)
           \/ Status' = Status /\ Lineage' = Lineage
<1>1. ASSUME NEW f \in Family, NEW t \in Session, Tokens!Issue(f, t) PROVE IssueStep(f, t)
  BY <1>1 DEF Tokens!Issue, IssueStep, Status, Lineage
<1>2. ASSUME NEW t \in Session, NEW u \in Session, Tokens!Exchange(t, u) PROVE ExchangeStep(t, u)
  BY <1>2 DEF Tokens!Exchange, ExchangeStep, Status, Lineage
<1>3. ASSUME NEW f \in Family, Tokens!Revoke(f) PROVE \E ended \in SUBSET Session : EndStep(ended)
  BY <1>3 DEF Tokens!Revoke, Tokens!Ended, EndStep, Status, Lineage
<1>4. ASSUME Tokens!Expire PROVE \E ended \in SUBSET Session : EndStep(ended)
  BY <1>4 DEF Tokens!Expire, Tokens!Ended, EndStep, Status, Lineage
<1>5. ASSUME UNCHANGED Tokens!vars PROVE Status' = Status /\ Lineage' = Lineage
  BY <1>5 DEF Tokens!vars, Status, Lineage
<1> QED BY <1>1, <1>2, <1>3, <1>4, <1>5 DEF Tokens!Next

LEMMA TokensNextInv ==
    ASSUME TokensInv, [Tokens!Next]_(Tokens!vars)
    PROVE  /\ TokensInv'
           /\ \A t \in Session : Status[t] \in {"spent", "dead"} => Status'[t] \in {"spent", "dead"}
<1>1. ASSUME NEW f \in Family, NEW t \in Session, IssueStep(f, t)
      PROVE  /\ TokensInv'
             /\ \A u \in Session : Status[u] \in {"spent", "dead"} => Status'[u] = Status[u]
  BY <1>1, Names DEF TokensInv, IssueStep
<1>2. ASSUME NEW t \in Session, NEW u \in Session, ExchangeStep(t, u)
      PROVE  /\ TokensInv'
             /\ \A v \in Session : Status[v] \in {"spent", "dead"} => Status'[v] = Status[v]
  BY <1>2, Names DEF TokensInv, ExchangeStep
<1>3. ASSUME NEW ended \in SUBSET Session, EndStep(ended)
      PROVE  /\ TokensInv'
             /\ \A t \in Session : Status[t] \in {"spent", "dead"} => Status'[t] \in {"spent", "dead"}
  BY <1>3, Names DEF TokensInv, EndStep
<1>4. ASSUME Status' = Status, Lineage' = Lineage PROVE TokensInv'
  BY <1>4 DEF TokensInv
<1> QED BY <1>1, <1>2, <1>3, <1>4, TokenSteps

\* What a refresh token is for: of a family one token, at most, can be
\* exchanged, and every issued token has a family.
THEOREM FamiliesHaveOneToken == Spec => [](Tokens!TypeOK /\ Tokens!OneLiveToken)
<1>1. TokensInv /\ [Tokens!Next]_(Tokens!vars) => TokensInv'
  BY TokensNextInv
<1> QED BY TokensAreSingleUse, TokensInitInv, <1>1, TokensInvMeans, PTL
        DEF ImplementsSingleUseTokens, Tokens!Spec

\* A token that was exchanged or ended never becomes usable again, which is
\* what makes its presentation evidence of a copy.
THEOREM SpentTokensStaySpent == Spec => Tokens!SpentIsFinal
<1>1. TokensInv /\ [Tokens!Next]_(Tokens!vars) => TokensInv'
  BY TokensNextInv
<1>2. TokensInv /\ [Tokens!Next]_(Tokens!vars)
        => [\A t \in Session : [s \in Session |-> TokenStatus(s)][t] \in {"spent", "dead"}
                => [s \in Session |-> TokenStatus(s)]'[t] \in {"spent", "dead"}]_(Tokens!vars)
  BY TokensNextInv DEF Status
<1> QED BY TokensAreSingleUse, TokensInitInv, <1>1, <1>2, PTL
        DEF ImplementsSingleUseTokens, Tokens!Spec, Tokens!SpentIsFinal

-----------------------------------------------------------------------------
(* Who waits for whom *)

\* A request waits for a row that another request holds: for the generation
\* it presents, which it must lock, or for one its family UPDATE must reach.
Waits(p, q) ==
    \/ p # q /\ pc[p] = "lock" /\ Presented(p) \in Held(q)
    \/ WaitsFor(p, q)

\* In any circle of waiting requests there is a circle of family UPDATEs, of
\* one family each: the ones that BreakDeadlock ends.
DeadlocksAreRevocations ==
    \A waiting \in (SUBSET Request) \ {{}} :
        (\A p \in waiting : \E q \in waiting : Waits(p, q)) =>
            \E cycle \in (SUBSET waiting) \ {{}} :
                \A p \in cycle : \E q \in cycle : WaitsFor(p, q) /\ FamilyOf(p) = FamilyOf(q)

LEMMA HoldersAreBusy ==
    ASSUME Inv, NEW q \in Request, Held(q) # {}
    PROVE  pc[q] \in InTransaction
BY DEF Inv, TypeOK, PC, Transaction, Held, NoVersions

LEMMA UpdatesStayInFamily ==
    ASSUME Inv, NEW p \in Request, NEW q \in Request, WaitsFor(p, q), pc[q] = "revoke"
    PROVE  FamilyOf(p) = FamilyOf(q)
BY DEF Inv, Transaction, Revoking, WaitsFor, FamilyOf

\* A request that has yet to lock its generation holds nothing, and one that
\* rotates, rejects or commits waits for nobody.  So only family UPDATEs, of a
\* replay or a logout, can deadlock, and no rotation is ever in the circle.
THEOREM OnlyRevocationsDeadlock == Spec => []DeadlocksAreRevocations
<1>1. ASSUME Inv PROVE DeadlocksAreRevocations
  <2> SUFFICES ASSUME NEW waiting \in SUBSET Request, waiting # {},
                      \A p \in waiting : \E q \in waiting : Waits(p, q)
               PROVE  \E cycle \in (SUBSET waiting) \ {{}} :
                          \A p \in cycle : \E q \in cycle : WaitsFor(p, q) /\ FamilyOf(p) = FamilyOf(q)
    BY Zenon DEF DeadlocksAreRevocations
  <2> DEFINE cycle == {p \in waiting : pc[p] = "revoke"}
  <2>1. ASSUME NEW p \in waiting, NEW q \in waiting, Waits(p, q)
        PROVE  q \in cycle
    <3>1. Held(q) # {}
      BY <2>1 DEF Waits, WaitsFor
    <3>2. pc[q] \in InTransaction
      BY <1>1, <3>1, HoldersAreBusy
    <3>3. pc[q] \in {"lock", "revoke"}
      BY DEF Waits, WaitsFor
    <3> QED BY <3>2, <3>3 DEF InTransaction
  <2>2. cycle # {}
    BY <2>1
  <2>3. ASSUME NEW p \in cycle
        PROVE  \E q \in cycle : WaitsFor(p, q) /\ FamilyOf(p) = FamilyOf(q)
    <3>1. PICK q \in waiting : Waits(p, q)
      OBVIOUS
    <3>2. WaitsFor(p, q) /\ q \in cycle
      BY <2>1, <3>1 DEF Waits
    <3> QED BY <1>1, <3>2, UpdatesStayInFamily
  <2> QED BY <2>2, <2>3
<1> QED BY InitInv, NextInv, <1>1, PTL DEF Spec

=============================================================================
