---------------------------- MODULE HistoryPages ----------------------------
(***************************************************************************)
(* A client reads the history of a portfolio page by page while commands   *)
(* record and correct facts.  The ledger is SerialLedger: one step of it   *)
(* is one committed command.  A page is one READ COMMITTED transaction: a  *)
(* statement that reads the facts, then one for each of them that reads    *)
(* its direct correction, each over what is committed by then.             *)
(***************************************************************************)
EXTENDS LedgerReplay

CONSTANTS
    Times,           \* effective times of the facts
    Limit,           \* facts of a page
    Filters,         \* what a walk may ask for
    MaxFacts         \* bound on the ledger

AnyKind == "any"

Filter == [kind : Kinds \cup {AnyKind}, from : Times, to : Times, reversals : BOOLEAN]

ASSUME PageAssumption ==
    /\ Limit \in 1..100
    /\ Times \subseteq Nat
    /\ Filters \subseteq Filter
    /\ MaxFacts \in Nat
    /\ NoFact \notin Nat

VARIABLES
    facts, archived, announced,   \* the ledger
    op,              \* "list" for a walk, "get" for one fact
    filter,          \* what the walk asks for
    cursor,          \* the cursor of its next request
    pc,              \* the walk's next step
    page,            \* facts that the page's first statement read
    related,         \* id -> the correction its later statements read
    more,            \* whether the page has a successor
    shown,           \* what the client was given, in order (history)
    before           \* facts committed when the walk began (history)

ledger == <<facts, archived, announced>>
walk == <<op, filter, cursor, pc, page, related, more, shown, before>>
vars == <<ledger, walk>>

Ledger == INSTANCE SerialLedger

NoCursor == [version |-> "none"]

\* Ids begin at 1.
NoCorrection == 0

-----------------------------------------------------------------------------
(* The commands, as far as a reader can tell them apart *)

Fact(seq, kind, time, reversalOf, correctionOf) ==
    [id |-> seq, seq |-> seq, kind |-> kind, asset |-> NoAsset, quantity |-> 0,
     effectiveAt |-> time, reversalOf |-> reversalOf, correctionOf |-> correctionOf]

Command ==
    /\ Cardinality(facts) < MaxFacts
    /\ \E kind \in {"DEPOSIT", "FEE"}, time \in Times :
           Ledger!Extend({Fact(Ledger!NextSeq, kind, time, NoFact, NoFact)})
    /\ UNCHANGED walk

Correction ==
    /\ Cardinality(facts) + 2 <= MaxFacts
    /\ \E original \in facts, time \in Times :
           /\ original.kind # "REVERSAL" /\ ~Ledger!Corrected(original.id)
           /\ Ledger!Extend(
                  {Fact(Ledger!NextSeq, "REVERSAL", original.effectiveAt, original.id, NoFact),
                   Fact(Ledger!NextSeq + 1, "DEPOSIT", time, NoFact, original.id)})
    /\ UNCHANGED walk

-----------------------------------------------------------------------------
(* The page *)

Position(f) == [effectiveAt |-> f.effectiveAt, seq |-> f.seq, id |-> f.id]

EncodeCursor(position) == [version |-> "v1", position |-> position]

\* A cursor of another version, or with a sequence that none has, is refused.
CursorValid(c) == c # NoCursor => c.version = "v1" /\ c.position.seq > 0

DecodeCursor(c) == c.position

\* A plausible bug: the continuation compares the effective time only.
AfterTime(f, c) == c # NoCursor => f.effectiveAt < DecodeCursor(c).effectiveAt

\* (effective_at, portfolio_sequence, transaction_id) < the cursor's.
AfterCursor(f, c) == c # NoCursor => Precedes(f, DecodeCursor(c))

Matches(f, q) ==
    /\ q.kind \in {AnyKind, f.kind}
    /\ f.effectiveAt \in q.from..q.to
    /\ q.reversals \/ f.kind # "REVERSAL"

\* ORDER BY effective_at DESC, portfolio_sequence DESC.
Descending(S) ==
    [i \in 1..Cardinality(S) |->
        CHOOSE f \in S : Cardinality({g \in S : Precedes(f, g)}) = i - 1]

FirstOf(n, s) == SubSeq(s, 1, IF n < Len(s) THEN n ELSE Len(s))

\* A plausible bug: the corrections that were there when the walk began.
CorrectionBefore(id) ==
    IF \E f \in before : f.reversalOf = id
    THEN (CHOOSE f \in before : f.correctionOf = id).id
    ELSE NoCorrection

\* The outgoing correction of a fact: the reversal and what replaces it.
DirectCorrection(id) ==
    IF \E f \in facts : f.reversalOf = id
    THEN (CHOOSE f \in facts : f.correctionOf = id).id
    ELSE NoCorrection

NoPage == page' = <<>> /\ related' = <<>> /\ more' = FALSE

StartWalk ==
    /\ pc = "idle" /\ op = "list"
    /\ before' = facts
    /\ pc' = "ask"
    /\ UNCHANGED <<ledger, op, filter, cursor, page, related, more, shown>>

\* A range that ends before it begins, a limit, a kind, a parameter given twice.
RejectInput ==
    /\ pc = "ask"
    /\ filter.from > filter.to \/ ~CursorValid(cursor)
    /\ pc' = "rejected"
    /\ UNCHANGED <<ledger, op, filter, cursor, page, related, more, shown, before>>

\* One fact more than the page holds tells whether there is a next one.
List ==
    /\ pc = "ask"
    /\ filter.from <= filter.to /\ CursorValid(cursor)
    /\ LET rows == Descending({f \in facts : Matches(f, filter) /\ AfterCursor(f, cursor)})
       IN  /\ page' = FirstOf(Limit, rows)
           /\ more' = (Len(rows) > Limit)
    /\ related' = <<>>
    /\ pc' = "relate"
    /\ UNCHANGED <<ledger, op, filter, cursor, shown, before>>

\* GET of one fact: the same two statements over one fact.
Get ==
    /\ pc = "idle" /\ op = "get"
    /\ \/ \E f \in facts : page' = <<f>> /\ pc' = "relate"
       \/ page' = <<>> /\ pc' = "not_found"
    /\ UNCHANGED <<ledger, op, filter, cursor, related, more, shown, before>>

Relate ==
    /\ pc = "relate"
    /\ Len(related) < Len(page)
    /\ related' = Append(related, DirectCorrection(page[Len(related) + 1].id))
    /\ UNCHANGED <<ledger, op, filter, cursor, pc, page, more, shown, before>>

Record(i) == [fact |-> page[i], correction |-> related[i]]

\* The response, and the client's next request.
Respond ==
    /\ pc = "relate"
    /\ Len(related) = Len(page)
    /\ shown' = shown \o [i \in DOMAIN page |-> Record(i)]
    /\ IF more
       THEN pc' = "ask" /\ cursor' = EncodeCursor(Position(page[Len(page)]))
       ELSE pc' = "ended" /\ UNCHANGED cursor
    /\ NoPage
    /\ UNCHANGED <<ledger, op, filter, before>>

\* The transaction fails, or the response is lost: the client asks again.
Fail ==
    /\ pc = "relate"
    /\ pc' = IF op = "list" THEN "ask" ELSE "idle"
    /\ NoPage
    /\ UNCHANGED <<ledger, op, filter, cursor, shown, before>>

\* A client may send a cursor that it was not given.
Forge ==
    /\ pc = "ask"
    /\ cursor = NoCursor
    /\ \E f \in facts :
           \/ cursor' = [EncodeCursor(Position(f)) EXCEPT !.version = "v2"]
           \/ cursor' = [EncodeCursor(Position(f)) EXCEPT !.position.seq = 0]
    /\ UNCHANGED <<ledger, op, filter, pc, page, related, more, shown, before>>

Init ==
    /\ Ledger!Init
    /\ op \in {"list", "get"}
    /\ filter \in Filters
    /\ cursor = NoCursor
    /\ pc = "idle"
    /\ page = <<>> /\ related = <<>> /\ more = FALSE
    /\ shown = <<>>
    /\ before = {}

Next ==
    \/ Command \/ Correction
    \/ StartWalk \/ RejectInput \/ List \/ Get \/ Relate \/ Respond \/ Fail \/ Forge

Spec == Init /\ [][Next]_vars

-----------------------------------------------------------------------------
(* Properties *)

\* The variables stay in their types.
TypeOK ==
    /\ filter \in Filters
    /\ pc \in {"idle", "ask", "relate", "rejected", "not_found", "ended"}
    /\ page \in Seq(facts) /\ Len(page) <= Limit
    /\ Len(related) <= Len(page)
    /\ \A i \in DOMAIN shown : shown[i].fact \in facts
    /\ before \subseteq facts

\* Over all its pages a walk descends: no fact is shown twice, whatever is
\* recorded between two pages and whichever responses are lost.
WalkDescends ==
    \A i, j \in DOMAIN shown : i < j => Precedes(shown[j].fact, shown[i].fact)

\* A walk that ends has shown every fact that matched when it began, although
\* the pages are read one by one and facts are recorded before, between and
\* behind them.
NothingSkipped ==
    pc = "ended" =>
        {f \in before : Matches(f, filter)} \subseteq {shown[i].fact : i \in DOMAIN shown}

\* A walk gives each fact once, in order, and leaves out none that was there.
WalkIsExact == TypeOK /\ WalkDescends /\ NothingSkipped

\* A history that shows a reversal never shows the fact it cancels as one that
\* nobody corrected, on the same page or on a later one: facts are read first
\* and their corrections after them.
ReversalsNameTheirOriginal ==
    \A i, j \in DOMAIN shown :
        shown[i].fact.reversalOf = shown[j].fact.id => shown[j].correction # NoCorrection

=============================================================================
