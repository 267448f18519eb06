----------------------------- MODULE Portfolios -----------------------------
(***************************************************************************)
(* The portfolios of all owners and the five requests on them.  A request  *)
(* is one or two SQL statements, each a transaction of its own: a rename or*)
(* an archive that changed no row reads the portfolio again to learn why.  *)
(***************************************************************************)
EXTENDS Integers

CONSTANTS
    Portfolio,       \* portfolio ids
    Owner,
    Name,            \* trimmed display names
    Folded,          \* display name -> normalized_name
    Request,
    MaxClock,        \* bound on real time
    Lag,             \* how far the clock of an API host may lag
    Faults           \* TRUE when the database may fail

ASSUME PortfolioAssumption ==
    /\ Name # {} /\ DOMAIN Folded = Name
    /\ MaxClock \in Nat /\ Lag \in Nat /\ Lag <= MaxClock /\ Faults \in BOOLEAN

VARIABLES
    clock,
    rows,            \* portfolios
    req,             \* request -> what it asks, and its host's `now`
    pc,              \* request -> its next statement
    answer           \* request -> the outcome, and the portfolios it shows

vars == <<clock, rows, req, pc, answer>>

NoTime == -1

Row == [owner : Owner, name : Name, status : {"ACTIVE", "ARCHIVED"},
        createdAt : Nat, updatedAt : Nat, archivedAt : Nat \cup {NoTime}]

NoRow == [status |-> "none"]

Op == {"create", "list", "get", "update", "archive"}

Req == [op : Op, owner : Owner, id : Portfolio, name : Name,
        status : {"ACTIVE", "ARCHIVED"}, now : Nat]

NoReq == [op |-> "none"]

\* What the application layer returns, and how the transport shows it.
Public == [invalid |-> 400, not_found |-> 404, name_conflict |-> 409, archived |-> 422,
           conflict |-> 500, failure |-> 500, ok |-> 200]

Now == (clock - Lag)..clock

Owned(r, id) == rows[id] # NoRow /\ rows[id].owner = req[r].owner

\* A plausible bug: the index is over the display name.
DisplayNameTaken(owner, name, except) ==
    \E p \in Portfolio \ {except} :
        rows[p].status = "ACTIVE" /\ rows[p].owner = owner /\ rows[p].name = name

\* The partial unique index over the active portfolios of an owner.
NameTaken(owner, name, except) ==
    \E p \in Portfolio \ {except} :
        /\ rows[p].status = "ACTIVE"
        /\ rows[p].owner = owner
        /\ Folded[rows[p].name] = Folded[name]

\* The CHECK constraints on the timestamps.
TimesOrdered(row) ==
    /\ row.updatedAt >= row.createdAt
    /\ row.archivedAt # NoTime => row.archivedAt >= row.createdAt

\* RehydratePortfolio: a row that fails cannot be shown, nor a list with it.
Readable(row) ==
    /\ row.updatedAt >= row.createdAt
    /\ row.status = "ACTIVE" => row.archivedAt = NoTime
    /\ row.status = "ARCHIVED" => row.archivedAt \in row.createdAt..row.updatedAt

Reply(r, result, shown) ==
    /\ pc' = [pc EXCEPT ![r] = "done"]
    /\ answer' = [answer EXCEPT ![r] = [result |-> result, shown |-> shown]]

Refuse(r, result) == Reply(r, result, {}) /\ UNCHANGED rows

\* RETURNING, or the row of a SELECT.
Show(r, ids) ==
    IF \A p \in ids : Readable(rows'[p])
    THEN Reply(r, "ok", {[id |-> p, row |-> rows'[p]] : p \in ids})
    ELSE Reply(r, "failure", {})

Duplicate(p, row) == row.status = "ACTIVE" /\ NameTaken(row.owner, row.name, p)

\* An INSERT or UPDATE of one row: the CHECKs come before the index.
Write(r, p, row) ==
    IF ~TimesOrdered(row) THEN Refuse(r, "conflict")
    ELSE IF Duplicate(p, row) THEN Refuse(r, "name_conflict")
    ELSE rows' = [rows EXCEPT ![p] = row] /\ Show(r, {p})

-----------------------------------------------------------------------------
(* The requests as they arrive *)

Arrive(r, request) ==
    /\ pc[r] = "idle"
    /\ req' = [req EXCEPT ![r] = request]
    /\ pc' = [pc EXCEPT ![r] = "statement"]
    /\ UNCHANGED <<clock, rows, answer>>

\* What a request that does not use a field has in it.
Asked(op, owner, id, now) ==
    [op |-> op, owner |-> owner, id |-> id, name |-> CHOOSE n \in Name : TRUE,
     status |-> "ACTIVE", now |-> now]

\* A new identifier is one that nothing has.
Fresh(p) == rows[p] = NoRow /\ \A r \in Request : req[r] # NoReq => req[r].id # p

RequestCreate(r, owner) ==
    \E p \in Portfolio, n \in Name, now \in Now :
        Fresh(p) /\ Arrive(r, [Asked("create", owner, p, now) EXCEPT !.name = n])

RequestList(r, owner) ==
    \E s \in {"ACTIVE", "ARCHIVED"}, p \in Portfolio :
        Arrive(r, [Asked("list", owner, p, clock) EXCEPT !.status = s])

\* A caller names portfolios that exist, of any owner.
RequestGet(r, owner) ==
    \E p \in Portfolio : rows[p] # NoRow /\ Arrive(r, Asked("get", owner, p, clock))

RequestUpdate(r, owner) ==
    \E p \in Portfolio, n \in Name, now \in Now :
        rows[p] # NoRow /\ Arrive(r, [Asked("update", owner, p, now) EXCEPT !.name = n])

RequestArchive(r, owner) ==
    \E p \in Portfolio, now \in Now :
        rows[p] # NoRow /\ Arrive(r, Asked("archive", owner, p, now))

\* A body, a name, a status or a media type that is not valid.
RejectInvalid(r) ==
    /\ pc[r] = "idle"
    /\ Refuse(r, "invalid")
    /\ UNCHANGED <<clock, req>>

\* An id that does not parse, or that no portfolio has.
RejectUnknown(r) ==
    /\ pc[r] = "idle"
    /\ Refuse(r, "not_found")
    /\ UNCHANGED <<clock, req>>

-----------------------------------------------------------------------------
(* Their statements *)

Executing(r, op) == pc[r] = "statement" /\ req[r].op = op /\ UNCHANGED <<clock, req>>

NewPortfolio(r) ==
    [owner |-> req[r].owner, name |-> req[r].name, status |-> "ACTIVE",
     createdAt |-> req[r].now, updatedAt |-> req[r].now, archivedAt |-> NoTime]

CreatePortfolio(r) == Executing(r, "create") /\ Write(r, req[r].id, NewPortfolio(r))

ListOwnedByStatus(r) ==
    /\ Executing(r, "list")
    /\ UNCHANGED rows
    /\ Show(r, {p \in Portfolio : Owned(r, p) /\ rows[p].status = req[r].status})

\* A plausible bug: the portfolio is read by its id alone.
FindByID(r, p) ==
    IF rows[p] # NoRow THEN Show(r, {p}) ELSE Reply(r, "not_found", {})

FindOwnedByID(r, p) ==
    IF Owned(r, p) THEN Show(r, {p}) ELSE Reply(r, "not_found", {})

GetPortfolio(r) ==
    /\ Executing(r, "get")
    /\ UNCHANGED rows
    /\ FindOwnedByID(r, req[r].id)

\* WHERE portfolio_id = .. AND owner_user_id = .. AND status = 'ACTIVE'.
OwnedActive(r) == Owned(r, req[r].id) /\ rows[req[r].id].status = "ACTIVE"

\* A plausible bug: a newer row is left alone, as if it were not active.
NotNewer(r) == OwnedActive(r) /\ rows[req[r].id].updatedAt <= req[r].now

Renamable(r) == OwnedActive(r)

Archivable(r) == OwnedActive(r)

\* No row was changed: what the portfolio is now says why.
ReadAgain(r) ==
    /\ pc' = [pc EXCEPT ![r] = "classify"]
    /\ UNCHANGED <<rows, answer>>

Renamed(r) == [rows[req[r].id] EXCEPT !.name = req[r].name, !.updatedAt = req[r].now]

UpdateOwnedActiveName(r) ==
    /\ Executing(r, "update")
    /\ IF Renamable(r) THEN Write(r, req[r].id, Renamed(r)) ELSE ReadAgain(r)

\* A plausible bug: the archive does not touch updated_at.
ArchivedUntouched(r) ==
    [rows[req[r].id] EXCEPT !.status = "ARCHIVED", !.archivedAt = req[r].now]

Archived(r) ==
    [rows[req[r].id] EXCEPT !.status = "ARCHIVED",
        !.archivedAt = req[r].now, !.updatedAt = req[r].now]

ArchiveOwnedActive(r) ==
    /\ Executing(r, "archive")
    /\ IF Archivable(r) THEN Write(r, req[r].id, Archived(r)) ELSE ReadAgain(r)

Classify(r) ==
    LET p == req[r].id
    IN  /\ pc[r] = "classify"
        /\ UNCHANGED <<clock, rows, req>>
        /\ IF Owned(r, p) /\ rows[p].status = "ARCHIVED" /\ req[r].op = "update"
           THEN Reply(r, "archived", {})
           ELSE IF Owned(r, p) /\ rows[p].status = "ACTIVE"
           THEN Reply(r, "conflict", {})
           ELSE FindOwnedByID(r, p)

\* The row that the statement of r means to leave.
Written(r) ==
    CASE req[r].op = "create" -> NewPortfolio(r)
      [] req[r].op = "update" /\ Renamable(r) -> Renamed(r)
      [] req[r].op = "archive" /\ Archivable(r) -> Archived(r)
      [] OTHER -> rows[req[r].id]

\* A statement fails before it does anything, or its outcome is lost.
Fail(r) ==
    /\ Faults
    /\ pc[r] \in {"statement", "classify"}
    /\ \/ UNCHANGED rows
       \/ LET p == req[r].id
          IN  /\ pc[r] = "statement"
              /\ Written(r) # NoRow /\ TimesOrdered(Written(r)) /\ ~Duplicate(p, Written(r))
              /\ rows' = [rows EXCEPT ![p] = Written(r)]
    /\ Reply(r, "failure", {})
    /\ UNCHANGED <<clock, req>>

Tick == clock < MaxClock /\ clock' = clock + 1 /\ UNCHANGED <<rows, req, pc, answer>>

\* However creates, renames and archives of an owner interleave, its active
\* portfolios differ by more than case.
ActiveNamesDiffer ==
    \A p, q \in Portfolio :
        p # q /\ rows[p].status = "ACTIVE" /\ rows[q].status = "ACTIVE"
        /\ rows[p].owner = rows[q].owner
        => Folded[rows[p].name] # Folded[rows[q].name]

\* Some portfolios are there already, created just now.
Init ==
    /\ clock = Lag
    /\ rows \in [Portfolio -> {NoRow} \cup
           {[owner |-> o, name |-> n, status |-> "ACTIVE", createdAt |-> Lag,
             updatedAt |-> Lag, archivedAt |-> NoTime] : o \in Owner, n \in Name}]
    /\ ActiveNamesDiffer
    /\ req = [r \in Request |-> NoReq]
    /\ pc = [r \in Request |-> "idle"]
    /\ answer = [r \in Request |-> [result |-> "none", shown |-> {}]]

Next ==
    \/ \E r \in Request :
           \/ \E o \in Owner :
                  \/ RequestCreate(r, o) \/ RequestList(r, o) \/ RequestGet(r, o)
                  \/ RequestUpdate(r, o) \/ RequestArchive(r, o)
           \/ RejectInvalid(r) \/ RejectUnknown(r)
           \/ CreatePortfolio(r) \/ ListOwnedByStatus(r) \/ GetPortfolio(r)
           \/ UpdateOwnedActiveName(r) \/ ArchiveOwnedActive(r) \/ Classify(r)
           \/ Fail(r)
    \/ Tick

Spec == Init /\ [][Next]_vars

-----------------------------------------------------------------------------
(* Properties *)

\* The variables stay in their types.
TypeOK ==
    /\ clock \in 0..MaxClock
    /\ rows \in [Portfolio -> Row \cup {NoRow}]
    /\ req \in [Request -> Req \cup {NoReq}]
    /\ pc \in [Request -> {"idle", "statement", "classify", "done"}]
    /\ \A r \in Request :
           /\ answer[r].result \in DOMAIN Public \cup {"none"}
           /\ answer[r].shown \subseteq [id : Portfolio, row : Row]

\* The database's constraints are weaker than what RehydratePortfolio asks of
\* a row; yet no sequence of requests stores a row that cannot be read back,
\* which would make every list that has it fail.
RowsReadable == \A p \in Portfolio : rows[p] # NoRow => Readable(rows[p])

\* The second read never misleads: "archived" and "not found" stay true, a
\* conflict has its only cause, that the host's clock is behind the creation of
\* the portfolio, and any other internal error is one of the database.
Explained(r, p, result) ==
    /\ result = "archived" => Owned(r, p) /\ rows[p].status = "ARCHIVED"
    /\ result = "not_found" => ~Owned(r, p)
    /\ result = "conflict" => Owned(r, p) /\ req[r].now < rows[p].createdAt
    /\ Public[result] = 500 /\ result # "conflict" => Faults

AnswersExplained ==
    \A r \in Request :
        req[r] # NoReq /\ pc[r] = "done" => Explained(r, req[r].id, answer[r].result)

\* No request shows a portfolio of another owner, whichever statement read it.
OwnersNeverMeet ==
    \A r \in Request : \A s \in answer[r].shown : s.row.owner = req[r].owner

\* An archived portfolio never changes: an archive that is repeated keeps the
\* first archived_at, and a rename that was under way comes too late.
ArchivedIsFinal ==
    [][\A p \in Portfolio : rows[p].status = "ARCHIVED" => rows'[p] = rows[p]]_vars

=============================================================================
