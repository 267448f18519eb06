-------------------------- MODULE PortfoliosProofs --------------------------
(***************************************************************************)
(* The portfolios of any number of owners, under any number of requests.   *)
(***************************************************************************)
EXTENDS Portfolios, TLAPS

Typed ==
    /\ clock \in Lag..MaxClock
    /\ rows \in [Portfolio -> Row \cup {NoRow}]
    /\ req \in [Request -> Req \cup {NoReq}]
    /\ pc \in [Request -> {"idle", "statement", "classify", "done"}]
    /\ \A r \in Request : pc[r] \in {"statement", "classify"} => req[r] \in Req

\* Nothing has the identifier that a creation is about to use.
CreatorsApart ==
    /\ \A r \in Request :
           pc[r] = "statement" /\ req[r].op = "create" => rows[req[r].id] = NoRow
    /\ \A r, q \in Request :
           r # q /\ req[r].op = "create" /\ req[q].op = "create" => req[r].id # req[q].id

Replies == [result : DOMAIN Public \cup {"none"}, shown : SUBSET [id : Portfolio, row : Row]]

Answers ==
    /\ answer \in [Request -> Replies]
    /\ \A r \in Request : pc[r] # "done" => answer[r].shown = {}
    /\ OwnersNeverMeet

Stored == Typed /\ CreatorsApart /\ RowsReadable /\ ActiveNamesDiffer

Inv == Stored /\ Answers

LEMMA RowIsARow == \A row \in Row : row # NoRow /\ row.status # "none"
BY DEF Row, NoRow

LEMMA InitInv == Init => Inv
<1> SUFFICES ASSUME Init PROVE Inv
  OBVIOUS
<1>1. rows \in [Portfolio -> Row \cup {NoRow}]
  BY PortfolioAssumption DEF Init, Row
<1>2. Typed
  BY <1>1, PortfolioAssumption DEF Init, Typed
<1>3. CreatorsApart
  BY DEF Init, CreatorsApart, NoReq
<1>4. RowsReadable
  BY PortfolioAssumption DEF Init, RowsReadable, Readable, NoTime, NoRow
<1>5. Answers
  BY DEF Init, Answers, OwnersNeverMeet, Replies
<1> QED BY <1>2, <1>3, <1>4, <1>5 DEF Init, Inv, Stored

-----------------------------------------------------------------------------
(* What requests are answered *)

LEMMA ReplyAnswers ==
    ASSUME Typed, Answers, NEW r \in Request, NEW result \in DOMAIN Public,
           NEW shown \in SUBSET [id : Portfolio, row : Row],
           \A s \in shown : s.row.owner = req[r].owner,
           Reply(r, result, shown), req' = req
    PROVE  Answers'
<1>1. [result |-> result, shown |-> shown] \in Replies
  BY DEF Replies
<1>2. answer' \in [Request -> Replies] /\ answer'[r].shown = shown /\ pc'[r] = "done"
  BY <1>1 DEF Reply, Typed, Answers
<1>3. \A q \in Request \ {r} : answer'[q] = answer[q] /\ pc'[q] = pc[q]
  BY DEF Reply, Typed, Answers
<1> QED BY <1>2, <1>3 DEF Answers, OwnersNeverMeet

LEMMA ShowAnswers ==
    ASSUME Typed, Answers, NEW r \in Request, NEW ids \in SUBSET Portfolio,
           \A p \in ids : rows'[p] \in Row /\ rows'[p].owner = req[r].owner,
           Show(r, ids), req' = req
    PROVE  Answers'
<1> DEFINE shown == {[id |-> p, row |-> rows'[p]] : p \in ids}
<1>1. CASE Reply(r, "ok", shown)
  <2>1. shown \in SUBSET [id : Portfolio, row : Row] /\ \A s \in shown : s.row.owner = req[r].owner
    OBVIOUS
  <2>2. "ok" \in DOMAIN Public
    BY DEF Public
  <2> HIDE DEF shown
  <2> QED BY <1>1, <2>1, <2>2, ReplyAnswers
<1>2. CASE Reply(r, "failure", {})
  <2>1. "failure" \in DOMAIN Public
    BY DEF Public
  <2> QED BY <1>2, <2>1, ReplyAnswers
<1> QED BY <1>1, <1>2 DEF Show

LEMMA ReplyOnlyRows ==
    ASSUME NEW r, NEW ids, Show(r, ids)
    PROVE  pc' = [pc EXCEPT ![r] = "done"]
BY DEF Show, Reply

-----------------------------------------------------------------------------
(* What is stored *)

\* A request that ends without having written.
LEMMA NothingStored ==
    ASSUME Stored, NEW r \in Request, pc' = [pc EXCEPT ![r] = "done"],
           UNCHANGED <<clock, rows, req>>
    PROVE  Stored'
BY DEF Stored, Typed, CreatorsApart, RowsReadable, ActiveNamesDiffer

\* A statement that goes on to a second read.
LEMMA NothingStoredYet ==
    ASSUME Stored, NEW r \in Request, pc[r] = "statement", pc' = [pc EXCEPT ![r] = "classify"],
           UNCHANGED <<clock, rows, req>>
    PROVE  Stored'
BY DEF Stored, Typed, CreatorsApart, RowsReadable, ActiveNamesDiffer

\* The row that a statement may leave, at its identifier.
Storable(r, row) ==
    /\ pc[r] = "statement" /\ req[r] \in Req
    /\ row \in Row /\ row.owner = req[r].owner
    /\ TimesOrdered(row) => Readable(row)
    /\ req[r].op = "create" \/ rows[req[r].id] # NoRow

LEMMA RowStored ==
    ASSUME Stored, NEW r \in Request, NEW row, Storable(r, row),
           TimesOrdered(row), ~Duplicate(req[r].id, row),
           rows' = [rows EXCEPT ![req[r].id] = row], pc' = [pc EXCEPT ![r] = "done"],
           UNCHANGED <<clock, req>>
    PROVE  Stored'
<1> DEFINE p == req[r].id
<1>1. /\ p \in Portfolio /\ row \in Row /\ rows'[p] = row
      /\ \A q \in Portfolio \ {p} : rows'[q] = rows[q]
  BY DEF Storable, Stored, Typed, Req
<1>2. Typed'
  BY <1>1 DEF Stored, Typed
<1>3. CreatorsApart'
  <2>1. ASSUME NEW q \in Request, pc'[q] = "statement", req[q].op = "create"
        PROVE  rows'[req[q].id] = NoRow
    <3>1. q # r /\ pc[q] = "statement" /\ req[q] \in Req
      BY <2>1 DEF Stored, Typed
    <3>2. rows[req[q].id] = NoRow
      BY <2>1, <3>1 DEF Stored, CreatorsApart
    <3>3. req[q].id # p
      BY <2>1, <3>1, <3>2 DEF Storable, Stored, CreatorsApart
    <3> QED BY <1>1, <3>1, <3>2, <3>3 DEF Req
  <2> QED BY <2>1 DEF Stored, CreatorsApart
<1>4. RowsReadable'
  BY <1>1 DEF Storable, Stored, RowsReadable, Readable
<1>5. ActiveNamesDiffer'
  BY <1>1 DEF Stored, ActiveNamesDiffer, Duplicate, NameTaken
<1> QED BY <1>2, <1>3, <1>4, <1>5 DEF Stored

LEMMA WriteKeepsInv ==
    ASSUME Inv, NEW r \in Request, NEW row, Storable(r, row), Write(r, req[r].id, row),
           UNCHANGED <<clock, req>>
    PROVE  Inv'
<1> DEFINE p == req[r].id
<1>1. p \in Portfolio
  BY DEF Storable, Req
<1>2. ASSUME NEW result \in {"conflict", "name_conflict"}, Refuse(r, result) PROVE Inv'
  <2>1. result \in DOMAIN Public
    BY <1>2 DEF Public
  <2>2. Answers'
    BY <1>2, <2>1, ReplyAnswers DEF Refuse, Inv, Stored
  <2>3. Stored'
    BY <1>2, NothingStored DEF Refuse, Reply, Inv
  <2> QED BY <2>2, <2>3 DEF Inv
<1>3. ASSUME TimesOrdered(row), ~Duplicate(p, row), rows' = [rows EXCEPT ![p] = row], Show(r, {p})
      PROVE  Inv'
  <2>1. Stored'
    BY <1>3, ReplyOnlyRows, RowStored DEF Inv
  <2>2. rows'[p] \in Row /\ rows'[p].owner = req[r].owner
    BY <1>1, <1>3 DEF Storable, Inv, Stored, Typed
  <2>3. Answers'
    BY <1>1, <1>3, <2>2, ShowAnswers DEF Inv, Stored
  <2> QED BY <2>1, <2>3 DEF Inv
<1> QED BY <1>2, <1>3 DEF Write

LEMMA StatementsAreStorable ==
    ASSUME Inv, NEW r \in Request, pc[r] = "statement"
    PROVE  /\ req[r].op = "create" => Storable(r, NewPortfolio(r))
           /\ req[r].op = "update" /\ Renamable(r) => Storable(r, Renamed(r))
           /\ req[r].op = "archive" /\ Archivable(r) => Storable(r, Archived(r))
<1>1. req[r] \in Req /\ rows[req[r].id] \in Row \cup {NoRow}
  BY DEF Inv, Stored, Typed, Req
<1>2. ASSUME req[r].op = "create" PROVE Storable(r, NewPortfolio(r))
  BY <1>1, <1>2 DEF Storable, NewPortfolio, Row, Req, TimesOrdered, Readable, NoTime
<1>3. ASSUME OwnedActive(r)
      PROVE  /\ rows[req[r].id] \in Row /\ rows[req[r].id] # NoRow
             /\ rows[req[r].id].status = "ACTIVE" /\ rows[req[r].id].owner = req[r].owner
             /\ Readable(rows[req[r].id])
  BY <1>1, <1>3 DEF OwnedActive, Owned, Inv, Stored, RowsReadable, Req
<1>4. ASSUME req[r].op = "update", Renamable(r) PROVE Storable(r, Renamed(r))
  BY <1>1, <1>3, <1>4 DEF Storable, Renamable, Renamed, Row, Req, TimesOrdered, Readable, NoTime
<1>5. ASSUME req[r].op = "archive", Archivable(r) PROVE Storable(r, Archived(r))
  <2> DEFINE old == rows[req[r].id]
             new == Archived(r)
  <2>1. old \in Row /\ old # NoRow /\ old.owner = req[r].owner
    BY <1>3, <1>5 DEF Archivable
  <2>2. req[r].now \in Nat
    BY <1>1 DEF Req
  <2>3. new \in Row
    BY <2>1, <2>2 DEF Archived, Row
  <2>4. /\ new.owner = old.owner /\ new.status = "ARCHIVED" /\ new.createdAt = old.createdAt
        /\ new.updatedAt = req[r].now /\ new.archivedAt = req[r].now /\ old.createdAt \in Nat
    BY <2>1 DEF Archived, Row
  <2>5. TimesOrdered(new) => Readable(new)
    BY <2>2, <2>4 DEF TimesOrdered, Readable, NoTime
  <2> QED BY <1>1, <2>1, <2>3, <2>4, <2>5 DEF Storable
<1> QED BY <1>2, <1>4, <1>5

-----------------------------------------------------------------------------
(* The steps *)

\* A request arrives; only a creation has a new identifier.
LEMMA ArriveKeepsInv ==
    ASSUME Inv, NEW r \in Request, NEW request \in Req, Arrive(r, request),
           request.op = "create" => Fresh(request.id)
    PROVE  Inv'
<1>1. /\ pc[r] = "idle" /\ req' = [req EXCEPT ![r] = request]
      /\ pc' = [pc EXCEPT ![r] = "statement"] /\ UNCHANGED <<clock, rows, answer>>
  BY DEF Arrive
<1>2. req'[r] = request /\ \A q \in Request \ {r} : req'[q] = req[q] /\ pc'[q] = pc[q]
  BY <1>1 DEF Inv, Stored, Typed
<1>3. Typed'
  BY <1>1 DEF Inv, Stored, Typed
<1>4. CreatorsApart'
  <2>1. ASSUME request.op = "create", NEW q \in Request \ {r}, req[q].op = "create"
        PROVE  req[q].id # request.id
    BY <2>1 DEF Fresh, NoReq
  <2> QED BY <1>1, <1>2, <2>1 DEF Inv, Stored, Typed, CreatorsApart, Fresh
<1>5. Answers'
  BY <1>1, <1>2 DEF Inv, Stored, Typed, Answers, OwnersNeverMeet
<1> QED BY <1>1, <1>3, <1>4, <1>5 DEF Inv, Stored, RowsReadable, ActiveNamesDiffer

LEMMA AskedIsAReq ==
    ASSUME NEW op \in Op, NEW o \in Owner, NEW p \in Portfolio, NEW now \in Nat
    PROVE  /\ Asked(op, o, p, now) \in Req
           /\ Asked(op, o, p, now).op = op /\ Asked(op, o, p, now).id = p
BY PortfolioAssumption DEF Asked, Req

LEMMA NowIsNat == Inv => clock \in Nat /\ Now \subseteq Nat
BY PortfolioAssumption DEF Inv, Stored, Typed, Now

LEMMA RequestsKeepInv ==
    ASSUME Inv, NEW r \in Request, NEW o \in Owner,
           \/ RequestCreate(r, o) \/ RequestList(r, o) \/ RequestGet(r, o)
           \/ RequestUpdate(r, o) \/ RequestArchive(r, o)
    PROVE  Inv'
<1>1. CASE RequestCreate(r, o)
  <2>1. PICK p \in Portfolio, n \in Name, now \in Now :
            Fresh(p) /\ Arrive(r, [Asked("create", o, p, now) EXCEPT !.name = n])
    BY <1>1 DEF RequestCreate
  <2> DEFINE request == [Asked("create", o, p, now) EXCEPT !.name = n]
  <2>2. request \in Req /\ request.id = p
    BY NowIsNat, AskedIsAReq DEF Op, Req
  <2> HIDE DEF request
  <2> QED BY <2>1, <2>2, ArriveKeepsInv DEF request
<1>2. CASE RequestList(r, o)
  <2>1. PICK s \in {"ACTIVE", "ARCHIVED"}, p \in Portfolio :
            Arrive(r, [Asked("list", o, p, clock) EXCEPT !.status = s])
    BY <1>2 DEF RequestList
  <2> DEFINE request == [Asked("list", o, p, clock) EXCEPT !.status = s]
  <2>2. request \in Req /\ request.op = "list"
    BY NowIsNat, AskedIsAReq DEF Op, Req
  <2> HIDE DEF request
  <2> QED BY <2>1, <2>2, ArriveKeepsInv DEF request
<1>3. CASE RequestGet(r, o)
  <2>1. PICK p \in Portfolio : Arrive(r, Asked("get", o, p, clock))
    BY <1>3 DEF RequestGet
  <2>2. Asked("get", o, p, clock) \in Req /\ Asked("get", o, p, clock).op = "get"
    BY NowIsNat, AskedIsAReq DEF Op
  <2> QED BY <2>1, <2>2, ArriveKeepsInv
<1>4. CASE RequestUpdate(r, o)
  <2>1. PICK p \in Portfolio, n \in Name, now \in Now :
            Arrive(r, [Asked("update", o, p, now) EXCEPT !.name = n])
    BY <1>4 DEF RequestUpdate
  <2> DEFINE request == [Asked("update", o, p, now) EXCEPT !.name = n]
  <2>2. request \in Req /\ request.op = "update"
    BY NowIsNat, AskedIsAReq DEF Op, Req
  <2> HIDE DEF request
  <2> QED BY <2>1, <2>2, ArriveKeepsInv DEF request
<1>5. CASE RequestArchive(r, o)
  <2>1. PICK p \in Portfolio, now \in Now : Arrive(r, Asked("archive", o, p, now))
    BY <1>5 DEF RequestArchive
  <2>2. Asked("archive", o, p, now) \in Req /\ Asked("archive", o, p, now).op = "archive"
    BY NowIsNat, AskedIsAReq DEF Op
  <2> QED BY <2>1, <2>2, ArriveKeepsInv
<1> QED BY <1>1, <1>2, <1>3, <1>4, <1>5

\* A request that is answered without a row.
LEMMA RefuseKeepsInv ==
    ASSUME Inv, NEW r \in Request, NEW result \in DOMAIN Public, Reply(r, result, {}),
           UNCHANGED <<clock, rows, req>>
    PROVE  Inv'
<1>1. Answers'
  BY ReplyAnswers DEF Inv, Stored
<1>2. Stored'
  BY NothingStored DEF Inv, Reply
<1> QED BY <1>1, <1>2 DEF Inv

\* A request that is answered with rows of its owner, as they are.
LEMMA ReadKeepsInv ==
    ASSUME Inv, NEW r \in Request, NEW ids \in SUBSET Portfolio,
           \A p \in ids : Owned(r, p), Show(r, ids), UNCHANGED <<clock, rows, req>>
    PROVE  Inv'
<1>1. \A p \in ids : rows'[p] \in Row /\ rows'[p].owner = req[r].owner
  BY DEF Owned, Inv, Stored, Typed
<1>2. Answers'
  BY <1>1, ShowAnswers DEF Inv, Stored
<1>3. Stored'
  BY NothingStored, ReplyOnlyRows DEF Inv
<1> QED BY <1>2, <1>3 DEF Inv

LEMMA FindKeepsInv ==
    ASSUME Inv, NEW r \in Request, NEW p \in Portfolio, FindOwnedByID(r, p),
           UNCHANGED <<clock, rows, req>>
    PROVE  Inv'
<1>1. CASE Owned(r, p) /\ Show(r, {p})
  BY <1>1, ReadKeepsInv
<1>2. CASE Reply(r, "not_found", {})
  BY <1>2, RefuseKeepsInv DEF Public
<1> QED BY <1>1, <1>2 DEF FindOwnedByID

\* A statement that changed no row goes on to read why.
LEMMA ReadAgainKeepsInv ==
    ASSUME Inv, NEW r \in Request, pc[r] = "statement", ReadAgain(r), UNCHANGED <<clock, req>>
    PROVE  Inv'
<1>1. Stored'
  BY NothingStoredYet DEF ReadAgain, Inv
<1>2. Answers'
  BY DEF ReadAgain, Inv, Stored, Typed, Answers, OwnersNeverMeet
<1> QED BY <1>1, <1>2 DEF Inv

LEMMA FailKeepsInv == ASSUME Inv, NEW r \in Request, Fail(r) PROVE Inv'
<1>1. "failure" \in DOMAIN Public /\ Reply(r, "failure", {}) /\ UNCHANGED <<clock, req>>
  BY DEF Fail, Public
<1>2. CASE UNCHANGED rows
  BY <1>1, <1>2, RefuseKeepsInv
<1>3. CASE /\ pc[r] = "statement"
           /\ Written(r) # NoRow /\ TimesOrdered(Written(r)) /\ ~Duplicate(req[r].id, Written(r))
           /\ rows' = [rows EXCEPT ![req[r].id] = Written(r)]
  <2>1. CASE Written(r) = rows[req[r].id]
    <3>1. UNCHANGED rows
      BY <1>3, <2>1 DEF Inv, Stored, Typed
    <3> QED BY <1>2, <3>1
  <2>2. CASE Storable(r, Written(r))
    <3>1. Stored'
      BY <1>1, <1>3, <2>2, RowStored DEF Inv, Reply
    <3>2. Answers'
      BY <1>1, ReplyAnswers DEF Inv, Stored
    <3> QED BY <3>1, <3>2 DEF Inv
  <2> QED BY <1>3, <2>1, <2>2, StatementsAreStorable DEF Written
<1> QED BY <1>2, <1>3 DEF Fail

LEMMA NextInv == Inv /\ [Next]_vars => Inv'
<1> SUFFICES ASSUME Inv, [Next]_vars PROVE Inv'
  OBVIOUS
<1>1. ASSUME NEW r \in Request, NEW o \in Owner,
             \/ RequestCreate(r, o) \/ RequestList(r, o) \/ RequestGet(r, o)
             \/ RequestUpdate(r, o) \/ RequestArchive(r, o)
      PROVE  Inv'
  BY <1>1, RequestsKeepInv
<1>2. ASSUME NEW r \in Request, RejectInvalid(r) \/ RejectUnknown(r) PROVE Inv'
  <2>1. {"invalid", "not_found"} \subseteq DOMAIN Public
    BY DEF Public
  <2> QED BY <1>2, <2>1, RefuseKeepsInv DEF RejectInvalid, RejectUnknown, Refuse
<1>3. ASSUME NEW r \in Request, CreatePortfolio(r) PROVE Inv'
  BY <1>3, StatementsAreStorable, WriteKeepsInv DEF CreatePortfolio, Executing
<1>4. ASSUME NEW r \in Request, ListOwnedByStatus(r) PROVE Inv'
  BY <1>4, ReadKeepsInv DEF ListOwnedByStatus, Executing
<1>5. ASSUME NEW r \in Request, GetPortfolio(r) PROVE Inv'
  <2>1. req[r].id \in Portfolio
    BY <1>5 DEF GetPortfolio, Executing, Inv, Stored, Typed, Req
  <2> QED BY <1>5, <2>1, FindKeepsInv DEF GetPortfolio, Executing
<1>6. ASSUME NEW r \in Request, UpdateOwnedActiveName(r) PROVE Inv'
  BY <1>6, StatementsAreStorable, WriteKeepsInv, ReadAgainKeepsInv DEF UpdateOwnedActiveName, Executing
<1>7. ASSUME NEW r \in Request, ArchiveOwnedActive(r) PROVE Inv'
  BY <1>7, StatementsAreStorable, WriteKeepsInv, ReadAgainKeepsInv DEF ArchiveOwnedActive, Executing
<1>8. ASSUME NEW r \in Request, Classify(r) PROVE Inv'
  <2>1. req[r].id \in Portfolio
    BY <1>8 DEF Classify, Inv, Stored, Typed, Req
  <2>2. {"archived", "conflict"} \subseteq DOMAIN Public
    BY DEF Public
  <2> QED BY <1>8, <2>1, <2>2, FindKeepsInv, RefuseKeepsInv DEF Classify
<1>9. ASSUME NEW r \in Request, Fail(r) PROVE Inv'
  BY <1>9, FailKeepsInv
<1>10. CASE Tick
  <2>1. clock' \in Lag..MaxClock
    BY <1>10, PortfolioAssumption DEF Tick, Inv, Stored, Typed
  <2> QED BY <1>10, <2>1 DEF Tick, Inv, Stored, Typed, CreatorsApart, RowsReadable,
             ActiveNamesDiffer, Answers, OwnersNeverMeet
<1>11. CASE UNCHANGED vars
  BY <1>11 DEF vars, Inv, Stored, Typed, CreatorsApart, RowsReadable,
     ActiveNamesDiffer, Answers, OwnersNeverMeet
<1> QED BY <1>1, <1>2, <1>3, <1>4, <1>5, <1>6, <1>7, <1>8, <1>9, <1>10, <1>11 DEF Next

-----------------------------------------------------------------------------
(* What a row may become, and why an answer stays explained *)

\* A row stays, or is renamed or archived, or is made by the one that may.
RowMoved(p) ==
    \/ rows'[p] = rows[p]
    \/ /\ rows[p] # NoRow /\ rows[p].status = "ACTIVE"
       /\ rows'[p] # NoRow
       /\ rows'[p].owner = rows[p].owner /\ rows'[p].createdAt = rows[p].createdAt
    \/ /\ rows[p] = NoRow
       /\ \E r \in Request : pc[r] = "statement" /\ req[r].op = "create" /\ req[r].id = p

LEMMA WrittenMoves ==
    ASSUME Inv, NEW r \in Request, pc[r] = "statement", NEW row,
           rows' = [rows EXCEPT ![req[r].id] = row],
           \/ req[r].op = "create"
           \/ OwnedActive(r) /\ row \in {Renamed(r), Archived(r)}
    PROVE  \A p \in Portfolio : RowMoved(p)
<1>1. req[r].id \in Portfolio /\ rows[req[r].id] \in Row \cup {NoRow}
  BY DEF Inv, Stored, Typed, Req
<1>2. \A p \in Portfolio \ {req[r].id} : rows'[p] = rows[p]
  BY DEF Inv, Stored, Typed
<1>3. CASE req[r].op = "create"
  <2>1. rows[req[r].id] = NoRow
    BY <1>3 DEF Inv, Stored, CreatorsApart
  <2> QED BY <1>2, <1>3, <2>1 DEF RowMoved
<1>4. CASE OwnedActive(r) /\ row \in {Renamed(r), Archived(r)}
  <2> DEFINE old == rows[req[r].id]
  <2>1. old \in Row /\ old # NoRow /\ old.status = "ACTIVE" /\ rows'[req[r].id] = row
    BY <1>1, <1>4 DEF OwnedActive, Owned, Inv, Stored, Typed
  <2>2. req[r] \in Req
    BY DEF Inv, Stored, Typed
  <2>3. row \in Row /\ row.owner = old.owner /\ row.createdAt = old.createdAt
    BY <1>4, <2>1, <2>2 DEF Renamed, Archived, Row, Req
  <2>4. row # NoRow
    BY <2>3, RowIsARow
  <2> QED BY <1>2, <2>1, <2>3, <2>4 DEF RowMoved
<1> QED BY <1>3, <1>4

LEMMA RowsMove == ASSUME Inv, [Next]_vars PROVE \A p \in Portfolio : RowMoved(p)
<1>1. CASE UNCHANGED rows
  BY <1>1 DEF RowMoved
<1>2. ASSUME NEW r \in Request, NEW row, Write(r, req[r].id, row), pc[r] = "statement",
             \/ req[r].op = "create"
             \/ OwnedActive(r) /\ row \in {Renamed(r), Archived(r)}
      PROVE  \A p \in Portfolio : RowMoved(p)
  BY <1>1, <1>2, WrittenMoves DEF Write, Refuse
<1>3. ASSUME NEW r \in Request, CreatePortfolio(r) \/ UpdateOwnedActiveName(r) \/ ArchiveOwnedActive(r)
      PROVE  \A p \in Portfolio : RowMoved(p)
  BY <1>1, <1>2, <1>3 DEF CreatePortfolio, UpdateOwnedActiveName, ArchiveOwnedActive, Executing,
     Renamable, Archivable, ReadAgain
<1>4. ASSUME NEW r \in Request, Fail(r) PROVE \A p \in Portfolio : RowMoved(p)
  <2>1. CASE pc[r] = "statement" /\ rows' = [rows EXCEPT ![req[r].id] = Written(r)]
    <3>1. CASE Written(r) = rows[req[r].id]
      BY <1>1, <2>1, <3>1 DEF Inv, Stored, Typed
    <3>2. CASE \/ req[r].op = "create"
               \/ OwnedActive(r) /\ Written(r) \in {Renamed(r), Archived(r)}
      BY <2>1, <3>2, WrittenMoves
    <3> QED BY <3>1, <3>2 DEF Written, Renamable, Archivable
  <2> QED BY <1>1, <1>4, <2>1 DEF Fail
<1>5. ASSUME NEW r \in Request, NEW o \in Owner,
             \/ RequestCreate(r, o) \/ RequestList(r, o) \/ RequestGet(r, o)
             \/ RequestUpdate(r, o) \/ RequestArchive(r, o)
      PROVE  UNCHANGED rows
  BY <1>5 DEF RequestCreate, RequestList, RequestGet, RequestUpdate, RequestArchive, Arrive
<1>6. ASSUME NEW r \in Request,
             \/ RejectInvalid(r) \/ RejectUnknown(r)
             \/ ListOwnedByStatus(r) \/ GetPortfolio(r) \/ Classify(r)
      PROVE  UNCHANGED rows
  BY <1>6 DEF RejectInvalid, RejectUnknown, Refuse, ListOwnedByStatus, GetPortfolio, Classify
<1> QED BY <1>1, <1>3, <1>4, <1>5, <1>6 DEF Next, Tick, vars

\* What is known of a request, so that its answer can be explained: it names a
\* portfolio that exists, and its second read has a reason that stays.
Caused(r) ==
    /\ pc[r] = "idle" => req[r] = NoReq
    /\ req[r] # NoReq /\ req[r].op \in {"get", "update", "archive"} => rows[req[r].id] # NoRow
    /\ pc[r] = "classify" => req[r].op \in {"update", "archive"} /\ ~OwnedActive(r)
    /\ req[r] # NoReq /\ pc[r] = "done" =>
           /\ Explained(r, req[r].id, answer[r].result)
           /\ answer[r].result = "not_found" => rows[req[r].id] # NoRow

Causes == \A r \in Request : Caused(r)

LEMMA InitCauses == Init => Causes
BY DEF Init, Causes, Caused

\* A request that does nothing stays explained while rows change.
LEMMA CauseStays ==
    ASSUME Inv, NEW r \in Request, Caused(r), \A p \in Portfolio : RowMoved(p),
           req'[r] = req[r], pc'[r] = pc[r], answer'[r].result = answer[r].result
    PROVE  Caused(r)'
<1> DEFINE p == req[r].id
<1>1. CASE req[r] = NoReq
  BY <1>1 DEF Caused, Inv, Stored, Typed, Req, NoReq, OwnedActive, Owned
<1>2. CASE req[r] # NoReq
  <2>1. req[r] \in Req /\ p \in Portfolio
    BY <1>2 DEF Inv, Stored, Typed, Req
  <2>2. rows[p] # NoRow => rows'[p] # NoRow /\ rows'[p].owner = rows[p].owner
                           /\ rows'[p].createdAt = rows[p].createdAt
    BY <2>1 DEF RowMoved
  <2>3. rows[p] # NoRow /\ rows[p].status # "ACTIVE" => rows'[p] = rows[p]
    BY <2>1 DEF RowMoved
  <2>4. rows[p].status = "ARCHIVED" => rows[p] # NoRow
    BY DEF NoRow
  <2>5. CASE pc[r] = "done"
    BY <1>2, <2>2, <2>3, <2>4, <2>5 DEF Caused, Explained, Owned
  <2>6. CASE pc[r] = "classify"
    BY <1>2, <2>2, <2>3, <2>6 DEF Caused, OwnedActive, Owned
  <2> QED BY <1>2, <2>2, <2>5, <2>6 DEF Caused
<1> QED BY <1>1, <1>2

\* An answer that has no cause to give.
LEMMA AnsweredWith ==
    ASSUME Inv, Causes, NEW r \in Request, NEW result \in DOMAIN Public, NEW shown,
           pc[r] # "idle", req' = req, Reply(r, result, shown),
           rows[req[r].id] # NoRow => rows'[req[r].id] # NoRow,
           Explained(r, req[r].id, result)',
           result = "not_found" => rows'[req[r].id] # NoRow
    PROVE  Caused(r)'
<1>1. pc'[r] = "done" /\ answer'[r].result = result
  BY DEF Reply, Inv, Stored, Typed, Answers
<1>2. req[r] # NoReq /\ req[r].op \in {"get", "update", "archive"} => rows'[req[r].id] # NoRow
  BY DEF Causes, Caused
<1> QED BY <1>1, <1>2 DEF Caused

\* What Show answers, when the rows can be read back.
LEMMA ShownIsOk ==
    ASSUME NEW r \in Request, NEW ids, Show(r, ids), \A p \in ids : Readable(rows'[p])
    PROVE  \E shown : Reply(r, "ok", shown)
BY DEF Show

LEMMA OkIsExplained ==
    ASSUME NEW r \in Request, NEW p, NEW result \in {"ok", "invalid", "name_conflict"}
    PROVE  Explained(r, p, result)'
BY DEF Explained, Public

\* A write is answered with the row, or refused.
LEMMA WriteIsCaused ==
    ASSUME Inv, Inv', Causes, NEW r \in Request, NEW row, Storable(r, row),
           Write(r, req[r].id, row), req' = req,
           ~TimesOrdered(row) => Owned(r, req[r].id) /\ req[r].now < rows[req[r].id].createdAt
    PROVE  Caused(r)'
<1> DEFINE p == req[r].id
<1>1. p \in Portfolio /\ pc[r] # "idle" /\ row # NoRow
  BY RowIsARow DEF Storable, Req
<1>2. CASE ~TimesOrdered(row) /\ Refuse(r, "conflict")
  <2>1. Explained(r, p, "conflict")'
    BY <1>2 DEF Refuse, Explained, Owned
  <2>2. "conflict" \in DOMAIN Public
    BY DEF Public
  <2> QED BY <1>1, <1>2, <2>1, <2>2, AnsweredWith DEF Refuse, Inv, Stored, Typed
<1>3. CASE Refuse(r, "name_conflict")
  <2>1. "name_conflict" \in DOMAIN Public
    BY DEF Public
  <2> QED BY <1>1, <1>3, <2>1, OkIsExplained, AnsweredWith DEF Refuse, Inv, Stored, Typed
<1>4. CASE rows' = [rows EXCEPT ![p] = row] /\ Show(r, {p})
  <2>1. rows'[p] = row
    BY <1>1, <1>4 DEF Inv, Stored, Typed
  <2>2. Readable(rows'[p])
    BY <1>1, <2>1 DEF Inv, Stored, RowsReadable
  <2>3. PICK shown : Reply(r, "ok", shown)
    BY <1>4, <2>2, ShownIsOk
  <2>4. "ok" \in DOMAIN Public
    BY DEF Public
  <2> QED BY <1>1, <1>4, <2>1, <2>3, <2>4, OkIsExplained, AnsweredWith DEF Inv, Stored, Typed
<1> QED BY <1>2, <1>3, <1>4 DEF Write

\* A read is answered with rows of the owner.
LEMMA ReadIsCaused ==
    ASSUME Inv, Causes, NEW r \in Request, NEW ids \in SUBSET Portfolio, pc[r] # "idle",
           \A p \in ids : Owned(r, p), Show(r, ids), UNCHANGED <<rows, req>>
    PROVE  Caused(r)'
<1>1. \A p \in ids : Readable(rows'[p])
  BY DEF Owned, Inv, Stored, RowsReadable
<1>2. PICK shown : Reply(r, "ok", shown)
  BY <1>1, ShownIsOk
<1>3. "ok" \in DOMAIN Public
  BY DEF Public
<1> QED BY <1>2, <1>3, OkIsExplained, AnsweredWith DEF Inv, Stored, Typed

LEMMA FindIsCaused ==
    ASSUME Inv, Causes, NEW r \in Request, pc[r] # "idle", req[r] # NoReq,
           req[r].id \in Portfolio, req[r].op \in {"get", "update", "archive"},
           FindOwnedByID(r, req[r].id), UNCHANGED <<rows, req>>
    PROVE  Caused(r)'
<1>1. CASE Owned(r, req[r].id) /\ Show(r, {req[r].id})
  BY <1>1, ReadIsCaused
<1>2. CASE ~Owned(r, req[r].id) /\ Reply(r, "not_found", {})
  <2>1. "not_found" \in DOMAIN Public
    BY DEF Public
  <2>2. Explained(r, req[r].id, "not_found")'
    BY <1>2 DEF Explained, Owned, Public
  <2>3. rows[req[r].id] # NoRow
    BY DEF Causes, Caused
  <2> QED BY <1>2, <2>1, <2>2, <2>3, AnsweredWith DEF Inv, Stored, Typed
<1> QED BY <1>1, <1>2 DEF FindOwnedByID

\* The requests as they arrive name portfolios that exist.
LEMMA ArriveIsCaused ==
    ASSUME Inv, NEW r \in Request, NEW request \in Req, Arrive(r, request),
           request.op \in {"create", "list"} \/ rows[request.id] # NoRow
    PROVE  Caused(r)'
<1>1. req'[r] = request /\ pc'[r] = "statement" /\ rows' = rows
  BY DEF Arrive, Inv, Stored, Typed
<1> QED BY <1>1 DEF Caused

LEMMA RequestsAreCaused ==
    ASSUME Inv, NEW r \in Request, NEW o \in Owner,
           \/ RequestCreate(r, o) \/ RequestList(r, o) \/ RequestGet(r, o)
           \/ RequestUpdate(r, o) \/ RequestArchive(r, o)
    PROVE  Caused(r)'
<1>1. CASE RequestCreate(r, o)
  <2>1. PICK p \in Portfolio, n \in Name, now \in Now :
            Fresh(p) /\ Arrive(r, [Asked("create", o, p, now) EXCEPT !.name = n])
    BY <1>1 DEF RequestCreate
  <2> DEFINE request == [Asked("create", o, p, now) EXCEPT !.name = n]
  <2>2. request \in Req /\ request.op = "create"
    BY NowIsNat, AskedIsAReq DEF Op, Req
  <2> HIDE DEF request
  <2> QED BY <2>1, <2>2, ArriveIsCaused DEF request
<1>2. CASE RequestList(r, o)
  <2>1. PICK s \in {"ACTIVE", "ARCHIVED"}, p \in Portfolio :
            Arrive(r, [Asked("list", o, p, clock) EXCEPT !.status = s])
    BY <1>2 DEF RequestList
  <2> DEFINE request == [Asked("list", o, p, clock) EXCEPT !.status = s]
  <2>2. request \in Req /\ request.op = "list"
    BY NowIsNat, AskedIsAReq DEF Op, Req
  <2> HIDE DEF request
  <2> QED BY <2>1, <2>2, ArriveIsCaused DEF request
<1>3. CASE RequestGet(r, o)
  <2>1. PICK p \in Portfolio : rows[p] # NoRow /\ Arrive(r, Asked("get", o, p, clock))
    BY <1>3 DEF RequestGet
  <2>2. Asked("get", o, p, clock) \in Req /\ Asked("get", o, p, clock).id = p
    BY NowIsNat, AskedIsAReq DEF Op
  <2> QED BY <2>1, <2>2, ArriveIsCaused
<1>4. CASE RequestUpdate(r, o)
  <2>1. PICK p \in Portfolio, n \in Name, now \in Now :
            rows[p] # NoRow /\ Arrive(r, [Asked("update", o, p, now) EXCEPT !.name = n])
    BY <1>4 DEF RequestUpdate
  <2> DEFINE request == [Asked("update", o, p, now) EXCEPT !.name = n]
  <2>2. request \in Req /\ request.id = p
    BY NowIsNat, AskedIsAReq DEF Op, Req
  <2> HIDE DEF request
  <2> QED BY <2>1, <2>2, ArriveIsCaused DEF request
<1>5. CASE RequestArchive(r, o)
  <2>1. PICK p \in Portfolio, now \in Now :
            rows[p] # NoRow /\ Arrive(r, Asked("archive", o, p, now))
    BY <1>5 DEF RequestArchive
  <2>2. Asked("archive", o, p, now) \in Req /\ Asked("archive", o, p, now).id = p
    BY NowIsNat, AskedIsAReq DEF Op
  <2> QED BY <2>1, <2>2, ArriveIsCaused
<1> QED BY <1>1, <1>2, <1>3, <1>4, <1>5

\* The database refuses the times of a row only when the request's clock is
\* behind the creation of the portfolio.
LEMMA TimesRefused ==
    ASSUME Inv, NEW r \in Request, pc[r] = "statement"
    PROVE  /\ req[r].op = "create" => TimesOrdered(NewPortfolio(r))
           /\ OwnedActive(r) /\ (~TimesOrdered(Renamed(r)) \/ ~TimesOrdered(Archived(r)))
                  => Owned(r, req[r].id) /\ req[r].now < rows[req[r].id].createdAt
<1>1. req[r] \in Req /\ req[r].now \in Nat
  BY DEF Inv, Stored, Typed, Req
<1>2. TimesOrdered(NewPortfolio(r))
  BY <1>1 DEF TimesOrdered, NewPortfolio, NoTime
<1>3. ASSUME OwnedActive(r), ~TimesOrdered(Renamed(r)) \/ ~TimesOrdered(Archived(r))
      PROVE  req[r].now < rows[req[r].id].createdAt
  <2> DEFINE old == rows[req[r].id]
  <2>1. old \in Row /\ Readable(old) /\ old.status = "ACTIVE"
    BY <1>1, <1>3 DEF OwnedActive, Owned, Inv, Stored, Typed, RowsReadable, Req
  <2>2. old.archivedAt = NoTime /\ old.createdAt \in Nat
    BY <2>1 DEF Readable, Row
  <2>3. /\ Renamed(r).updatedAt = req[r].now /\ Renamed(r).createdAt = old.createdAt
        /\ Renamed(r).archivedAt = NoTime
    BY <2>1, <2>2 DEF Renamed, Row
  <2>4. /\ Archived(r).updatedAt = req[r].now /\ Archived(r).createdAt = old.createdAt
        /\ Archived(r).archivedAt = req[r].now
    BY <2>1 DEF Archived, Row
  <2> QED BY <1>1, <1>3, <2>2, <2>3, <2>4 DEF TimesOrdered
<1> QED BY <1>2, <1>3 DEF OwnedActive

LEMMA StatementsAreCaused ==
    ASSUME Inv, Inv', Causes, NEW r \in Request,
           CreatePortfolio(r) \/ UpdateOwnedActiveName(r) \/ ArchiveOwnedActive(r)
    PROVE  Caused(r)'
<1>1. pc[r] = "statement" /\ req' = req
  BY DEF CreatePortfolio, UpdateOwnedActiveName, ArchiveOwnedActive, Executing
<1>2. CASE CreatePortfolio(r)
  BY <1>1, <1>2, StatementsAreStorable, TimesRefused, WriteIsCaused DEF CreatePortfolio, Executing
<1>3. ASSUME ReadAgain(r), ~OwnedActive(r), req[r].op \in {"update", "archive"} PROVE Caused(r)'
  <2>1. pc'[r] = "classify" /\ rows' = rows
    BY <1>3 DEF ReadAgain, Inv, Stored, Typed
  <2>2. req[r] # NoReq
    BY <1>3 DEF NoReq
  <2>3. rows[req[r].id] # NoRow
    BY <1>3, <2>2 DEF Causes, Caused
  <2> QED BY <1>1, <1>3, <2>1, <2>3 DEF Caused, OwnedActive, Owned
<1>4. CASE UpdateOwnedActiveName(r)
  BY <1>1, <1>3, <1>4, StatementsAreStorable, TimesRefused, WriteIsCaused
  DEF UpdateOwnedActiveName, Executing, Renamable
<1>5. CASE ArchiveOwnedActive(r)
  BY <1>1, <1>3, <1>5, StatementsAreStorable, TimesRefused, WriteIsCaused
  DEF ArchiveOwnedActive, Executing, Archivable
<1> QED BY <1>2, <1>4, <1>5

LEMMA ClassifyIsCaused == ASSUME Inv, Causes, NEW r \in Request, Classify(r) PROVE Caused(r)'
<1> DEFINE p == req[r].id
<1>1. /\ pc[r] = "classify" /\ req' = req /\ rows' = rows
      /\ req[r] \in Req /\ req[r] # NoReq /\ p \in Portfolio
  BY DEF Classify, Inv, Stored, Typed, Req, NoReq
<1>2. req[r].op \in {"update", "archive"} /\ ~(Owned(r, p) /\ rows[p].status = "ACTIVE")
  BY <1>1 DEF Causes, Caused, OwnedActive
<1>3. CASE Owned(r, p) /\ rows[p].status = "ARCHIVED" /\ Reply(r, "archived", {})
  <2>1. "archived" \in DOMAIN Public
    BY DEF Public
  <2>2. Explained(r, p, "archived")'
    BY <1>1, <1>3 DEF Explained, Owned, Public
  <2> QED BY <1>1, <1>3, <2>1, <2>2, AnsweredWith DEF Inv, Stored, Typed
<1>4. CASE FindOwnedByID(r, p)
  BY <1>1, <1>2, <1>4, FindIsCaused
<1> QED BY <1>2, <1>3, <1>4 DEF Classify

LEMMA FailIsCaused ==
    ASSUME Inv, Causes, NEW r \in Request, Fail(r), \A p \in Portfolio : RowMoved(p)
    PROVE  Caused(r)'
<1>1. /\ Faults /\ pc[r] # "idle" /\ req' = req /\ req[r] \in Req /\ req[r].id \in Portfolio
      /\ Reply(r, "failure", {})
  BY DEF Fail, Inv, Stored, Typed, Req
<1>2. "failure" \in DOMAIN Public /\ Explained(r, req[r].id, "failure")'
  BY <1>1 DEF Explained, Public
<1>3. rows[req[r].id] # NoRow => rows'[req[r].id] # NoRow
  BY <1>1 DEF RowMoved
<1> QED BY <1>1, <1>2, <1>3, AnsweredWith

LEMMA NextCauses == Inv /\ Causes /\ [Next]_vars => Causes'
<1> SUFFICES ASSUME Inv, Causes, [Next]_vars PROVE Causes'
  OBVIOUS
<1>1. Inv' /\ \A p \in Portfolio : RowMoved(p)
  BY NextInv, RowsMove
\* The step of one request is not a step of another.
<1>2. ASSUME NEW r \in Request, Caused(r)',
             \A q \in Request \ {r} : req'[q] = req[q] /\ pc'[q] = pc[q] /\ answer'[q] = answer[q]
      PROVE  Causes'
  <2>1. ASSUME NEW q \in Request \ {r} PROVE Caused(q)'
    BY <1>1, <1>2, <2>1, CauseStays DEF Causes
  <2> QED BY <1>2, <2>1 DEF Causes
<1>3. ASSUME NEW r \in Request, NEW result, NEW shown, Reply(r, result, shown), req' = req
      PROVE  \A q \in Request \ {r} : req'[q] = req[q] /\ pc'[q] = pc[q] /\ answer'[q] = answer[q]
  BY <1>3 DEF Reply, Inv, Stored, Typed, Answers
<1>4. ASSUME NEW r \in Request, NEW o \in Owner,
             \/ RequestCreate(r, o) \/ RequestList(r, o) \/ RequestGet(r, o)
             \/ RequestUpdate(r, o) \/ RequestArchive(r, o)
      PROVE  Causes'
  <2>1. \E request : Arrive(r, request)
    BY <1>4 DEF RequestCreate, RequestList, RequestGet, RequestUpdate, RequestArchive
  <2>2. \A q \in Request \ {r} : req'[q] = req[q] /\ pc'[q] = pc[q] /\ answer'[q] = answer[q]
    BY <2>1 DEF Arrive, Inv, Stored, Typed
  <2> QED BY <1>2, <1>4, <2>2, RequestsAreCaused
<1>5. ASSUME NEW r \in Request, RejectInvalid(r) \/ RejectUnknown(r) PROVE Causes'
  <2>1. PICK result : Reply(r, result, {}) /\ req' = req /\ pc[r] = "idle"
    BY <1>5 DEF RejectInvalid, RejectUnknown, Refuse
  <2>2. req'[r] = NoReq /\ pc'[r] = "done"
    BY <2>1 DEF Reply, Causes, Caused, Inv, Stored, Typed
  <2>3. Caused(r)'
    BY <2>2 DEF Caused
  <2> QED BY <1>2, <1>3, <2>1, <2>3
<1>6. ASSUME NEW r \in Request,
             CreatePortfolio(r) \/ UpdateOwnedActiveName(r) \/ ArchiveOwnedActive(r)
      PROVE  Causes'
  <2>1. req' = req /\ (ReadAgain(r) \/ \E result, shown : Reply(r, result, shown))
    BY <1>6 DEF CreatePortfolio, UpdateOwnedActiveName, ArchiveOwnedActive, Executing,
       Write, Refuse, Show
  <2>2. ReadAgain(r) => \A q \in Request \ {r} :
            req'[q] = req[q] /\ pc'[q] = pc[q] /\ answer'[q] = answer[q]
    BY <2>1 DEF ReadAgain, Inv, Stored, Typed
  <2> QED BY <1>1, <1>2, <1>3, <1>6, <2>1, <2>2, StatementsAreCaused
<1>7. ASSUME NEW r \in Request, ListOwnedByStatus(r) \/ GetPortfolio(r) \/ Classify(r)
      PROVE  Causes'
  <2>1. req' = req /\ pc[r] # "idle" /\ \E result, shown : Reply(r, result, shown)
    BY <1>7 DEF ListOwnedByStatus, GetPortfolio, Classify, Executing, FindOwnedByID, Show
  <2>2. CASE ListOwnedByStatus(r)
    BY <2>1, <2>2, <1>2, <1>3, ReadIsCaused DEF ListOwnedByStatus
  <2>3. CASE GetPortfolio(r)
    <3>1. req[r] \in Req /\ req[r] # NoReq /\ req[r].id \in Portfolio
      BY <2>3 DEF GetPortfolio, Executing, Inv, Stored, Typed, Req, NoReq
    <3>2. Caused(r)'
      BY <2>1, <2>3, <3>1, FindIsCaused DEF GetPortfolio, Executing
    <3> QED BY <1>2, <1>3, <2>1, <3>2
  <2>4. CASE Classify(r)
    BY <1>2, <1>3, <2>1, <2>4, ClassifyIsCaused
  <2> QED BY <1>7, <2>2, <2>3, <2>4
<1>8. ASSUME NEW r \in Request, Fail(r) PROVE Causes'
  <2>1. req' = req /\ Reply(r, "failure", {})
    BY <1>8 DEF Fail
  <2> QED BY <1>1, <1>2, <1>3, <1>8, <2>1, FailIsCaused
<1>9. CASE UNCHANGED <<req, pc, answer>>
  BY <1>1, <1>9, CauseStays DEF Causes
<1> QED BY <1>4, <1>5, <1>6, <1>7, <1>8, <1>9 DEF Next, Tick, vars

-----------------------------------------------------------------------------

\* Rows and answers have their types.
THEOREM TypeCorrectness == Spec => []TypeOK
<1>1. Inv => TypeOK
  BY PortfolioAssumption DEF Inv, Stored, Typed, Answers, Replies, TypeOK
<1> QED BY InitInv, NextInv, <1>1, PTL DEF Spec

\* Every portfolio that is stored can be shown, whatever clocks its writers had.
THEOREM StoredIsReadable == Spec => []RowsReadable
<1>1. Inv => RowsReadable
  BY DEF Inv, Stored
<1> QED BY InitInv, NextInv, <1>1, PTL DEF Spec

\* Active portfolios of an owner differ by more than case.
THEOREM NamesDiffer == Spec => []ActiveNamesDiffer
<1>1. Inv => ActiveNamesDiffer
  BY DEF Inv, Stored
<1> QED BY InitInv, NextInv, <1>1, PTL DEF Spec

\* No request shows a portfolio of another owner.
THEOREM OwnersApart == Spec => []OwnersNeverMeet
<1>1. Inv => OwnersNeverMeet
  BY DEF Inv, Answers
<1> QED BY InitInv, NextInv, <1>1, PTL DEF Spec

\* An archived portfolio never changes.
THEOREM ArchivedStays == Spec => ArchivedIsFinal
<1>1. \A p \in Portfolio : rows[p].status = "ARCHIVED" => rows[p] # NoRow
  BY DEF NoRow
<1>2. Inv /\ [Next]_vars
        => [\A p \in Portfolio : rows[p].status = "ARCHIVED" => rows'[p] = rows[p]]_vars
  BY <1>1, RowsMove DEF RowMoved
<1> QED BY InitInv, NextInv, <1>2, PTL DEF Spec, ArchivedIsFinal

\* The second read never misleads: an answer that names a cause has it, and
\* keeps it, and without faults of the database no answer is an internal error
\* but for a clock behind the creation of the portfolio.
THEOREM AnswersHaveCauses == Spec => []AnswersExplained
<1>1. Causes => AnswersExplained
  BY DEF Causes, Caused, AnswersExplained
<1>2. Init => Inv /\ Causes
  BY InitInv, InitCauses
<1>3. (Inv /\ Causes) /\ [Next]_vars => (Inv /\ Causes)'
  BY NextInv, NextCauses
<1> QED BY <1>1, <1>2, <1>3, PTL DEF Spec

=============================================================================
