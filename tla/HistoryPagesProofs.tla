------------------------- MODULE HistoryPagesProofs -------------------------
(***************************************************************************)
(* Why a walk over pages is exact, for any page size and any ledger: what  *)
(* it has shown is ahead of the cursor, what it owes is behind it, and new *)
(* facts never come between.                                               *)
(***************************************************************************)
EXTENDS HistoryPages, FiniteSetTheorems, FunctionTheorems, SequenceTheorems, TLAPS

-----------------------------------------------------------------------------
(* The inductive invariant *)

\* Facts are numbered, and a reversal follows the fact it cancels, which has a
\* replacement.
LedgerSound ==
    /\ IsFiniteSet(facts)
    /\ \A f \in facts : /\ f.seq \in 1..Cardinality(facts)
                        /\ f.id = f.seq
                        /\ f.effectiveAt \in Nat
    /\ \A f, g \in facts : f.seq = g.seq => f = g
    /\ \A f \in facts : f.reversalOf # NoFact =>
           \E o, p \in facts : /\ o.id = f.reversalOf /\ o.seq < f.seq
                               /\ o.effectiveAt = f.effectiveAt
                               /\ p.correctionOf = f.reversalOf

\* A cursor the client was given, or one it changed.
Cursor == [version : {"v1", "v2"}, position : [effectiveAt : Nat, seq : Nat, id : Nat]]

\* The types that TypeOK leaves out.
WalkTyped ==
    /\ op \in {"list", "get"}
    /\ cursor = NoCursor \/ cursor \in Cursor
    /\ Len(page) \in Nat
    /\ related \in Seq(Nat)
    /\ shown \in Seq([fact : facts, correction : Nat])
    /\ more \in BOOLEAN

\* What the walk holds in each phase.
Phases ==
    /\ pc # "relate" => page = <<>> /\ related = <<>> /\ ~more
    /\ more => page # <<>>
    /\ pc \in {"idle", "not_found"} => shown = <<>> /\ cursor = NoCursor
    /\ pc = "relate" => CursorValid(cursor)
    /\ op = "get" => before = {} /\ ~more /\ pc # "ask" /\ (pc = "relate" => shown = <<>>) /\ cursor = NoCursor

ShownFact(f) == \E j \in DOMAIN shown : shown[j].fact = f

\* Where the walk is: all it has shown comes after what is left.
Boundary ==
    pc \in {"ask", "relate"} /\ shown # <<>> =>
        /\ cursor # NoCursor
        /\ \A j \in DOMAIN shown : ~Precedes(shown[j].fact, DecodeCursor(cursor))

\* A page descends, and lies behind the cursor.
PageInOrder ==
    /\ \A i, j \in DOMAIN page : i < j => Precedes(page[j], page[i])
    /\ \A i \in DOMAIN page : AfterCursor(page[i], cursor)

\* What was there when the walk began is shown or still to come.
Remaining ==
    op = "list" /\ pc \in {"ask", "relate"} /\ CursorValid(cursor) =>
        \A f \in before : Matches(f, filter) => AfterCursor(f, cursor) \/ ShownFact(f)

\* What a page leaves out is behind its last fact, and it knows of it.
PageTakesFirst ==
    op = "list" /\ pc = "relate" =>
        \A f \in before : Matches(f, filter) /\ AfterCursor(f, cursor) =>
            \/ \E i \in DOMAIN page : page[i] = f
            \/ more /\ Precedes(f, page[Len(page)])

Reverses(f, o) == f.reversalOf = o.id

\* Who was found uncorrected is cancelled by nothing that was read before.
RelatedAfterRead ==
    \A k \in DOMAIN related : related[k] = NoCorrection =>
        /\ \A i \in DOMAIN page : ~Reverses(page[i], page[k])
        /\ \A i \in DOMAIN shown : ~Reverses(shown[i].fact, page[k])

\* It is inductive.
IInv ==
    /\ LedgerSound /\ WalkTyped /\ TypeOK /\ Phases /\ Boundary /\ PageInOrder
    /\ Remaining /\ PageTakesFirst /\ RelatedAfterRead
    /\ WalkDescends /\ NothingSkipped /\ ReversalsNameTheirOriginal

-----------------------------------------------------------------------------
(* Listings *)

\* Facts of one portfolio, told apart by their sequence.
Ordered(S) ==
  /\ IsFiniteSet(S)
  /\ \A f \in S : f.seq \in Int /\ f.effectiveAt \in Int
  /\ \A f, g \in S : f.seq = g.seq => f = g

LEMMA OrderLaws ==
  ASSUME NEW S, Ordered(S)
  PROVE  /\ \A f \in S : ~Precedes(f, f)
         /\ \A f, g \in S : f = g \/ Precedes(f, g) \/ Precedes(g, f)
         /\ \A f, g, h \in S : Precedes(f, g) /\ Precedes(g, h) => Precedes(f, h)
<1>1. \A f \in S : ~Precedes(f, f)
  BY DEF Ordered, Precedes
<1>2. \A f, g \in S : f = g \/ Precedes(f, g) \/ Precedes(g, f)
  BY DEF Ordered, Precedes
<1>3. \A f, g, h \in S : Precedes(f, g) /\ Precedes(g, h) => Precedes(f, h)
  BY DEF Ordered, Precedes
<1> QED
  BY <1>1, <1>2, <1>3

\* The pages list every fact once, the later ones first.
Lists(s, n, S) ==
  /\ n \in Nat
  /\ s \in [1..n -> S]
  /\ \A f \in S : \E i \in 1..n : s[i] = f
  /\ \A i, j \in 1..n : i < j => Precedes(s[j], s[i])

LEMMA DescendingLists ==
  ASSUME NEW S, Ordered(S)
  PROVE  Lists(Descending(S), Cardinality(S), S)
<1> DEFINE n       == Cardinality(S)
           s       == Descending(S)
           Later(f) == {y \in S : Precedes(f, y)}
           rank    == [f \in S |-> Cardinality(Later(f)) + 1]
<1>1. IsFiniteSet(S) /\ n \in Nat
  BY FS_CardinalityType DEF Ordered
<1>2. \A f \in S : IsFiniteSet(Later(f)) /\ Cardinality(Later(f)) \in Nat
  <2> SUFFICES ASSUME NEW f \in S
               PROVE  IsFiniteSet(Later(f)) /\ Cardinality(Later(f)) \in Nat
    OBVIOUS
  <2>1. Later(f) \in SUBSET S
    OBVIOUS
  <2> HIDE DEF Later
  <2> QED BY <1>1, <2>1, FS_Subset, FS_CardinalityType
<1>3. ASSUME NEW f \in S, NEW T \in SUBSET S, Later(f) \subseteq T, f \in T
      PROVE  Cardinality(Later(f)) < Cardinality(T)
  <2>1. f \notin Later(f)
    BY OrderLaws
  <2> HIDE DEF Later
  <2>2. IsFiniteSet(T) /\ Cardinality(T) \in Nat
    BY <1>1, FS_Subset, FS_CardinalityType
  <2>3. Cardinality(Later(f)) <= Cardinality(T) /\ Cardinality(Later(f)) # Cardinality(T)
    BY <1>3, <2>1, <2>2, FS_Subset
  <2> QED BY <1>2, <2>2, <2>3
<1>4. rank \in [S -> 1..n]
  <2>1. \A f \in S : Cardinality(Later(f)) < n
    <3> SUFFICES ASSUME NEW f \in S PROVE Cardinality(Later(f)) < n
      OBVIOUS
    <3>1. S \in SUBSET S /\ Later(f) \subseteq S
      OBVIOUS
    <3> QED BY <1>3, <3>1
  <2> HIDE DEF Later
  <2> QED BY <1>1, <1>2, <2>1
<1>5. \A f, g \in S : Precedes(g, f) => rank[f] < rank[g]
  <2> SUFFICES ASSUME NEW f \in S, NEW g \in S, Precedes(g, f)
               PROVE  Cardinality(Later(f)) + 1 < Cardinality(Later(g)) + 1
    OBVIOUS
  <2>1. Later(g) \in SUBSET S /\ Later(f) \subseteq Later(g) /\ f \in Later(g)
    BY OrderLaws
  <2>2. Cardinality(Later(f)) < Cardinality(Later(g))
    BY <1>3, <2>1
  <2> HIDE DEF Later
  <2> QED BY <1>2, <2>2
<1>6. \A f \in S : rank[f] = Cardinality(Later(f)) + 1 /\ rank[f] \in 1..n
  BY <1>4
<1> HIDE DEF rank, s
<1>7. \A f, g \in S : rank[f] = rank[g] => f = g
  <2> SUFFICES ASSUME NEW f \in S, NEW g \in S, rank[f] = rank[g] PROVE f = g
    OBVIOUS
  <2>1. f = g \/ Precedes(f, g) \/ Precedes(g, f)
    BY OrderLaws
  <2>2. rank[f] \in 1..n /\ rank[g] \in 1..n
    BY <1>6
  <2> HIDE DEF n
  <2>3. ~(rank[f] < rank[g]) /\ ~(rank[g] < rank[f])
    BY <1>1, <2>2
  <2> QED BY <1>5, <2>1, <2>3
<1>8. \A i \in 1..n : \E f \in S : rank[f] = i
  <2>1. rank \in Injection(S, 1..n)
    BY <1>4, <1>7, Fun_IsInj
  <2>2. IsFiniteSet(1..n) /\ Cardinality(1..n) = n
    BY <1>1, FS_Interval
  <2>3. rank \in Surjection(S, 1..n)
    BY <1>1, <2>1, <2>2, FS_Injection
  <2> QED BY <2>3 DEF Surjection
<1>9. ASSUME NEW i \in 1..n
      PROVE  s[i] \in S /\ rank[s[i]] = i
  <2>1. PICK f \in S : rank[f] = i
    BY <1>8
  <2>2. \A x \in S : Cardinality(Later(x)) = i - 1 <=> rank[x] = i
    <3> HIDE DEF Later
    <3> QED BY <1>1, <1>2, <1>6
  <2>3. s[i] = CHOOSE x \in S : Cardinality(Later(x)) = i - 1
    BY <1>1, Zenon DEF Descending, s
  <2> HIDE DEF Later
  <2> QED BY <2>1, <2>2, <2>3
<1>10. s \in [1..n -> S]
  <2> DEFINE at(i) == CHOOSE x \in S : Cardinality(Later(x)) = i - 1
  <2>1. s = [i \in 1..n |-> at(i)]
    BY Zenon DEF Descending, s
  <2> HIDE DEF at
  <2>2. \A i \in 1..n : at(i) \in S
    BY <1>9, <2>1
  <2> QED BY <2>1, <2>2
<1>11. \A f \in S : \E i \in 1..n : s[i] = f
  BY <1>6, <1>7, <1>9
<1>12. \A i, j \in 1..n : i < j => Precedes(s[j], s[i])
  <2> SUFFICES ASSUME NEW i \in 1..n, NEW j \in 1..n, i < j PROVE Precedes(s[j], s[i])
    OBVIOUS
  <2>1. s[i] \in S /\ s[j] \in S /\ rank[s[i]] = i /\ rank[s[j]] = j
    BY <1>9
  <2>2. i \in Int /\ j \in Int
    BY <1>1
  <2>3. s[i] # s[j]
    BY <2>1, <2>2
  <2>4. ASSUME Precedes(s[i], s[j]) PROVE FALSE
    <3>1. rank[s[j]] < rank[s[i]]
      BY <1>5, <2>1, <2>4
    <3> QED BY <2>1, <2>2, <3>1
  <2> QED BY <2>1, <2>3, <2>4, OrderLaws
<1> QED
  BY <1>1, <1>10, <1>11, <1>12 DEF Lists, s

-----------------------------------------------------------------------------
(* The ledger grows *)

LEMMA FactsAreOrdered == LedgerSound => Ordered(facts)
BY FS_CardinalityType DEF LedgerSound, Ordered

\* A fact with the next sequence is new.
LEMMA NextIsNew ==
    ASSUME LedgerSound
    PROVE  /\ Cardinality(facts) \in Nat
           /\ Ledger!NextSeq = Cardinality(facts) + 1
           /\ \A f \in facts : f.seq \in Int /\ f.seq <= Cardinality(facts)
<1>1. Ledger!Cardinality(facts) = Cardinality(facts)
  BY DEF Cardinality, Ledger!Cardinality
<1>2. Cardinality(facts) \in Nat
  BY FS_CardinalityType DEF LedgerSound
<1> QED BY <1>1, <1>2 DEF LedgerSound, Ledger!NextSeq

LEMMA CommandGrows ==
    ASSUME LedgerSound, Command
    PROVE  LedgerSound' /\ facts \subseteq facts'
<1>1. PICK kind \in {"DEPOSIT", "FEE"}, time \in Times :
          Ledger!Extend({Fact(Ledger!NextSeq, kind, time, NoFact, NoFact)})
  BY DEF Command
<1> DEFINE n == Cardinality(facts)
           f == Fact(Ledger!NextSeq, kind, time, NoFact, NoFact)
<1>2. n \in Nat /\ Ledger!NextSeq = n + 1 /\ \A g \in facts : g.seq \in Int /\ g.seq <= n
  BY NextIsNew
<1>3. /\ f.seq = n + 1 /\ f.id = n + 1 /\ f.reversalOf = NoFact
      /\ f.effectiveAt \in Nat
  BY <1>2, PageAssumption DEF Fact, PageAssumption
<1>4. facts' = facts \cup {f}
  BY <1>1 DEF Ledger!Extend
<1> HIDE DEF n, f
<1>5. f \notin facts
  BY <1>2, <1>3
<1>6. IsFiniteSet(facts) /\ IsFiniteSet(facts') /\ Cardinality(facts') = n + 1
  BY <1>4, <1>5, FS_AddElement DEF LedgerSound, n
<1>7. \A g \in facts' : g.seq \in 1..Cardinality(facts') /\ g.id = g.seq /\ g.effectiveAt \in Nat
  BY <1>2, <1>3, <1>4, <1>6 DEF LedgerSound, n
<1>8. \A g, h \in facts' : g.seq = h.seq => g = h
  BY <1>2, <1>3, <1>4 DEF LedgerSound
<1>9. \A g \in facts' : g.reversalOf # NoFact =>
          \E o, p \in facts' : /\ o.id = g.reversalOf /\ o.seq < g.seq
                               /\ o.effectiveAt = g.effectiveAt
                               /\ p.correctionOf = g.reversalOf
  BY <1>3, <1>4 DEF LedgerSound
<1> QED
  BY <1>4, <1>6, <1>7, <1>8, <1>9 DEF LedgerSound

LEMMA CorrectionGrows ==
    ASSUME LedgerSound, Correction
    PROVE  LedgerSound' /\ facts \subseteq facts'
<1>1. PICK original \in facts, time \in Times :
          Ledger!Extend(
              {Fact(Ledger!NextSeq, "REVERSAL", original.effectiveAt, original.id, NoFact),
               Fact(Ledger!NextSeq + 1, "DEPOSIT", time, NoFact, original.id)})
  BY DEF Correction
<1> DEFINE n == Cardinality(facts)
           r == Fact(Ledger!NextSeq, "REVERSAL", original.effectiveAt, original.id, NoFact)
           p == Fact(Ledger!NextSeq + 1, "DEPOSIT", time, NoFact, original.id)
<1>2. n \in Nat /\ Ledger!NextSeq = n + 1 /\ \A g \in facts : g.seq \in Int /\ g.seq <= n
  BY NextIsNew
<1>3. /\ r.seq = n + 1 /\ r.id = n + 1 /\ r.reversalOf = original.id
      /\ r.effectiveAt = original.effectiveAt
  BY <1>2 DEF Fact
<1>4. /\ p.seq = (n + 1) + 1 /\ p.id = (n + 1) + 1 /\ p.reversalOf = NoFact
      /\ p.correctionOf = original.id /\ p.effectiveAt \in Nat
  BY <1>2, PageAssumption DEF Fact, PageAssumption
<1>5. facts' = facts \cup {r, p}
  BY <1>1 DEF Ledger!Extend
<1> HIDE DEF n, r, p
<1>6. r \notin facts /\ p \notin facts /\ r # p
  BY <1>2, <1>3, <1>4
<1>7. IsFiniteSet(facts') /\ Cardinality(facts') = (n + 1) + 1
  <2> DEFINE F == facts \cup {r}
  <2>1. IsFiniteSet(F) /\ Cardinality(F) = n + 1
    BY <1>6, FS_AddElement DEF LedgerSound, n
  <2>2. p \notin F /\ facts' = F \cup {p}
    BY <1>5, <1>6
  <2> HIDE DEF F
  <2> QED BY <2>1, <2>2, FS_AddElement
<1>8. \A g \in facts' : g.seq \in 1..Cardinality(facts') /\ g.id = g.seq /\ g.effectiveAt \in Nat
  BY <1>2, <1>3, <1>4, <1>5, <1>7 DEF LedgerSound, n
<1>9. \A g, h \in facts' : g.seq = h.seq => g = h
  BY <1>2, <1>3, <1>4, <1>5 DEF LedgerSound
<1>10. \A g \in facts' : g.reversalOf # NoFact =>
          \E o, q \in facts' : /\ o.id = g.reversalOf /\ o.seq < g.seq
                               /\ o.effectiveAt = g.effectiveAt
                               /\ q.correctionOf = g.reversalOf
  <2> SUFFICES ASSUME NEW g \in facts', g.reversalOf # NoFact
               PROVE  \E o, q \in facts' : /\ o.id = g.reversalOf /\ o.seq < g.seq
                                           /\ o.effectiveAt = g.effectiveAt
                                           /\ q.correctionOf = g.reversalOf
    OBVIOUS
  <2>1. CASE g \in facts
    BY <1>5, <2>1 DEF LedgerSound
  <2>2. CASE g = r
    <3>1. original \in facts' /\ p \in facts' /\ original.seq < r.seq
      BY <1>2, <1>3, <1>5
    <3> QED BY <1>3, <1>4, <2>2, <3>1
  <2> QED BY <1>4, <1>5, <2>1, <2>2
<1> QED
  BY <1>5, <1>7, <1>8, <1>9, <1>10 DEF LedgerSound

-----------------------------------------------------------------------------
(* The walk *)

LEMMA LimitIsPositive == Limit \in Nat /\ 1 <= Limit
BY PageAssumption DEF PageAssumption

LEMMA InitIInv == Init => IInv
<1> SUFFICES ASSUME Init PROVE IInv
  OBVIOUS
<1>1. /\ facts = {} /\ op \in {"list", "get"} /\ filter \in Filters
      /\ cursor = NoCursor /\ pc = "idle"
      /\ page = <<>> /\ related = <<>> /\ ~more /\ more \in BOOLEAN
      /\ shown = <<>> /\ before = {}
  BY DEF Init, Ledger!Init
<1>2. LedgerSound
  BY <1>1, FS_EmptySet DEF LedgerSound
<1>3. /\ Len(page) = 0 /\ Len(related) = 0 /\ page \in Seq(facts)
      /\ related \in Seq(Nat) /\ shown \in Seq([fact : facts, correction : Nat])
      /\ DOMAIN shown = {} /\ DOMAIN page = {} /\ DOMAIN related = {}
  BY <1>1
<1>4. TypeOK /\ WalkTyped
  BY <1>1, <1>3, PageAssumption DEF TypeOK, WalkTyped, PageAssumption
<1>5. Phases /\ Boundary /\ PageInOrder
  BY <1>1, <1>3 DEF Phases, Boundary, PageInOrder
<1>6. Remaining /\ PageTakesFirst /\ RelatedAfterRead
  BY <1>1, <1>3 DEF Remaining, PageTakesFirst, RelatedAfterRead
<1>7. WalkDescends /\ NothingSkipped /\ ReversalsNameTheirOriginal
  BY <1>1, <1>3 DEF WalkDescends, NothingSkipped, ReversalsNameTheirOriginal
<1> QED
  BY <1>2, <1>4, <1>5, <1>6, <1>7 DEF IInv

\* Commands leave the walk alone, and what it holds stays in the ledger.
LEMMA LedgerStep ==
    ASSUME IInv, LedgerSound', facts \subseteq facts', UNCHANGED walk
    PROVE  IInv'
<1>1. UNCHANGED <<op, filter, cursor, pc, page, related, more, shown, before>>
  BY DEF walk
<1>2. TypeOK' /\ WalkTyped'
  <2>1. page' \in Seq(facts')
    BY <1>1, SeqMonotonic DEF IInv, TypeOK
  <2>2. shown' \in Seq([fact : facts', correction : Nat])
    <3>1. [fact : facts, correction : Nat] \subseteq [fact : facts', correction : Nat]
      OBVIOUS
    <3> QED BY <1>1, <3>1, SeqMonotonic DEF IInv, WalkTyped
  <2> QED BY <1>1, <2>1, <2>2 DEF IInv, TypeOK, WalkTyped
<1>3. Phases' /\ Boundary' /\ PageInOrder'
  BY <1>1 DEF IInv, Phases, Boundary, PageInOrder, AfterCursor, CursorValid
<1>4. Remaining' /\ PageTakesFirst' /\ RelatedAfterRead'
  BY <1>1 DEF IInv, Remaining, PageTakesFirst, RelatedAfterRead, AfterCursor, CursorValid,
              ShownFact, Matches
<1>5. WalkDescends' /\ NothingSkipped' /\ ReversalsNameTheirOriginal'
  BY <1>1 DEF IInv, WalkDescends, NothingSkipped, ReversalsNameTheirOriginal, Matches
<1> QED
  BY <1>2, <1>3, <1>4, <1>5 DEF IInv

LEMMA StartWalkKeeps == IInv /\ StartWalk => IInv'
<1> SUFFICES ASSUME IInv, StartWalk PROVE IInv'
  OBVIOUS
<1>1. /\ pc = "idle" /\ op = "list" /\ before' = facts /\ pc' = "ask"
      /\ UNCHANGED <<facts, op, filter, cursor, page, related, more, shown>>
  BY DEF StartWalk, ledger
<1>2. shown = <<>> /\ cursor = NoCursor /\ page = <<>> /\ related = <<>> /\ ~more
  BY <1>1 DEF IInv, Phases
<1>3. DOMAIN shown = {} /\ DOMAIN page = {} /\ DOMAIN related = {}
  BY <1>2
<1>4. LedgerSound' /\ TypeOK' /\ WalkTyped'
  BY <1>1 DEF IInv, LedgerSound, TypeOK, WalkTyped
<1>5. Phases' /\ Boundary' /\ PageInOrder'
  BY <1>1, <1>2, <1>3 DEF Phases, Boundary, PageInOrder
<1>6. Remaining' /\ PageTakesFirst' /\ RelatedAfterRead'
  BY <1>1, <1>2, <1>3 DEF Remaining, PageTakesFirst, RelatedAfterRead, AfterCursor
<1>7. WalkDescends' /\ NothingSkipped' /\ ReversalsNameTheirOriginal'
  BY <1>1, <1>3 DEF WalkDescends, NothingSkipped, ReversalsNameTheirOriginal
<1> QED
  BY <1>4, <1>5, <1>6, <1>7 DEF IInv

LEMMA RejectInputKeeps == IInv /\ RejectInput => IInv'
<1> SUFFICES ASSUME IInv, RejectInput PROVE IInv'
  OBVIOUS
<1>1. /\ pc = "ask" /\ pc' = "rejected"
      /\ UNCHANGED <<facts, op, filter, cursor, page, related, more, shown, before>>
  BY DEF RejectInput, ledger
<1>2. LedgerSound' /\ TypeOK' /\ WalkTyped'
  BY <1>1 DEF IInv, LedgerSound, TypeOK, WalkTyped
<1>3. Phases' /\ Boundary' /\ PageInOrder'
  BY <1>1 DEF IInv, Phases, Boundary, PageInOrder, AfterCursor
<1>4. Remaining' /\ PageTakesFirst' /\ RelatedAfterRead'
  BY <1>1 DEF IInv, Remaining, PageTakesFirst, RelatedAfterRead
<1>5. WalkDescends' /\ NothingSkipped' /\ ReversalsNameTheirOriginal'
  BY <1>1 DEF IInv, WalkDescends, NothingSkipped, ReversalsNameTheirOriginal
<1> QED
  BY <1>2, <1>3, <1>4, <1>5 DEF IInv

\* A page that is dropped leaves nothing behind.
LEMMA FailKeeps == IInv /\ Fail => IInv'
<1> SUFFICES ASSUME IInv, Fail PROVE IInv'
  OBVIOUS
<1>1. /\ pc = "relate" /\ pc' = IF op = "list" THEN "ask" ELSE "idle"
      /\ page' = <<>> /\ related' = <<>> /\ more' = FALSE
      /\ UNCHANGED <<facts, op, filter, cursor, shown, before>>
  BY DEF Fail, NoPage, ledger
<1>2. DOMAIN page' = {} /\ DOMAIN related' = {} /\ Len(page') = 0 /\ Len(related') = 0
      /\ page' \in Seq(facts') /\ related' \in Seq(Nat)
  BY <1>1
<1>3. LedgerSound' /\ TypeOK' /\ WalkTyped'
  <2>1. pc' \in {"ask", "idle"} /\ 0 <= Limit /\ more' \in BOOLEAN
    <3>1. pc' \in {"ask", "idle"}
      BY <1>1
    <3>2. more' \in BOOLEAN
      BY <1>1
    <3> QED BY <3>1, <3>2, LimitIsPositive
  <2>2. LedgerSound'
    BY <1>1 DEF IInv, LedgerSound
  <2>3. TypeOK'
    BY <1>1, <1>2, <2>1 DEF IInv, TypeOK
  <2>4. WalkTyped'
    BY <1>1, <1>2, <2>1 DEF IInv, WalkTyped
  <2> QED BY <2>2, <2>3, <2>4
<1>4. Phases' /\ Boundary' /\ PageInOrder'
  BY <1>1, <1>2 DEF IInv, Phases, Boundary, PageInOrder, WalkTyped
<1>5. Remaining' /\ PageTakesFirst' /\ RelatedAfterRead'
  BY <1>1, <1>2 DEF IInv, Remaining, PageTakesFirst, RelatedAfterRead, AfterCursor,
                    CursorValid, ShownFact, Matches
<1>6. WalkDescends' /\ NothingSkipped' /\ ReversalsNameTheirOriginal'
  BY <1>1 DEF IInv, WalkDescends, NothingSkipped, ReversalsNameTheirOriginal
<1> QED
  BY <1>3, <1>4, <1>5, <1>6 DEF IInv

\* A cursor that was not given is refused, so nothing is claimed of its walk.
LEMMA ForgeKeeps == IInv /\ Forge => IInv'
<1> SUFFICES ASSUME IInv, Forge PROVE IInv'
  OBVIOUS
<1>1. PICK f \in facts :
        \/ cursor' = [EncodeCursor(Position(f)) EXCEPT !.version = "v2"]
        \/ cursor' = [EncodeCursor(Position(f)) EXCEPT !.position.seq = 0]
  BY DEF Forge
<1>2. /\ pc = "ask" /\ cursor = NoCursor
      /\ UNCHANGED <<facts, op, filter, pc, page, related, more, shown, before>>
  BY DEF Forge, ledger
<1>3. f.effectiveAt \in Nat /\ f.seq \in Nat /\ f.id \in Nat
  BY DEF IInv, LedgerSound
<1>4. \/ cursor' = [version |-> "v2",
                    position |-> [effectiveAt |-> f.effectiveAt, seq |-> f.seq, id |-> f.id]]
      \/ cursor' = [version |-> "v1",
                    position |-> [effectiveAt |-> f.effectiveAt, seq |-> 0, id |-> f.id]]
  BY <1>1 DEF EncodeCursor, Position
<1>5. cursor' \in Cursor
  BY <1>3, <1>4 DEF Cursor
<1>6. cursor' # NoCursor /\ ~CursorValid(cursor)'
  BY <1>4 DEF NoCursor, CursorValid
<1>7. shown = <<>> /\ page = <<>> /\ related = <<>>
  BY <1>2 DEF IInv, Phases, Boundary
<1>8. DOMAIN shown = {} /\ DOMAIN page = {} /\ DOMAIN related = {} /\ op # "get"
  BY <1>2, <1>7 DEF IInv, Phases
<1>9. LedgerSound' /\ TypeOK' /\ WalkTyped'
  BY <1>2, <1>5 DEF IInv, LedgerSound, TypeOK, WalkTyped
<1>10. Phases' /\ Boundary' /\ PageInOrder'
  BY <1>2, <1>7, <1>8 DEF IInv, Phases, Boundary, PageInOrder
<1>11. Remaining' /\ PageTakesFirst' /\ RelatedAfterRead'
  BY <1>2, <1>6, <1>8 DEF IInv, Remaining, PageTakesFirst, RelatedAfterRead
<1>12. WalkDescends' /\ NothingSkipped' /\ ReversalsNameTheirOriginal'
  BY <1>2, <1>8 DEF IInv, WalkDescends, NothingSkipped, ReversalsNameTheirOriginal
<1> QED
  BY <1>9, <1>10, <1>11, <1>12 DEF IInv

\* GET of one fact is a page of one.
LEMMA GetKeeps == IInv /\ Get => IInv'
<1> SUFFICES ASSUME IInv, Get PROVE IInv'
  OBVIOUS
<1>1. /\ pc = "idle" /\ op = "get"
      /\ UNCHANGED <<facts, op, filter, cursor, related, more, shown, before>>
  BY DEF Get, ledger
<1>2. /\ shown = <<>> /\ cursor = NoCursor /\ related = <<>> /\ ~more /\ before = {}
      /\ page = <<>>
  BY <1>1 DEF IInv, Phases
<1>3. DOMAIN shown = {} /\ DOMAIN related = {} /\ Len(related) = 0
  BY <1>2
<1>4. LedgerSound'
  BY <1>1 DEF IInv, LedgerSound
<1>5. CASE pc' = "not_found" /\ page' = <<>>
  <2>1. LedgerSound' /\ TypeOK' /\ WalkTyped'
    BY <1>1, <1>2, <1>4, <1>5 DEF IInv, TypeOK, WalkTyped
  <2>2. Phases' /\ Boundary' /\ PageInOrder'
    BY <1>1, <1>2, <1>3, <1>5 DEF Phases, Boundary, PageInOrder
  <2>3. Remaining' /\ PageTakesFirst' /\ RelatedAfterRead'
    BY <1>1, <1>3, <1>5 DEF Remaining, PageTakesFirst, RelatedAfterRead
  <2>4. WalkDescends' /\ NothingSkipped' /\ ReversalsNameTheirOriginal'
    BY <1>1, <1>3, <1>5 DEF WalkDescends, NothingSkipped, ReversalsNameTheirOriginal
  <2> QED BY <2>1, <2>2, <2>3, <2>4 DEF IInv
<1>6. ASSUME NEW f \in facts, page' = <<f>>, pc' = "relate"
      PROVE  IInv'
  <2>1. page' \in Seq(facts') /\ Len(page') = 1 /\ DOMAIN page' = {1}
    BY <1>1, <1>6
  <2>2. TypeOK'
    BY <1>1, <1>3, <1>6, <2>1, LimitIsPositive DEF IInv, TypeOK
  <2>3. WalkTyped'
    BY <1>1, <2>1 DEF IInv, WalkTyped
  <2>4. Phases' /\ Boundary' /\ PageInOrder'
    BY <1>1, <1>2, <1>3, <1>6, <2>1
       DEF Phases, Boundary, PageInOrder, CursorValid, AfterCursor
  <2>5. Remaining' /\ PageTakesFirst' /\ RelatedAfterRead'
    BY <1>1, <1>3, <1>6 DEF Remaining, PageTakesFirst, RelatedAfterRead
  <2>6. WalkDescends' /\ NothingSkipped' /\ ReversalsNameTheirOriginal'
    BY <1>1, <1>3, <1>6 DEF WalkDescends, NothingSkipped, ReversalsNameTheirOriginal
  <2> QED BY <1>4, <2>2, <2>3, <2>4, <2>5, <2>6 DEF IInv
<1> QED
  BY <1>5, <1>6 DEF Get

\* The first facts of a listing.
LEMMA FirstOfListed ==
    ASSUME NEW S, NEW s, NEW n, Lists(s, n, S), NEW m \in Nat, 1 <= m
    PROVE  /\ Len(s) = n
           /\ FirstOf(m, s) \in Seq(S)
           /\ Len(FirstOf(m, s)) = IF m < n THEN m ELSE n
           /\ \A i \in 1..Len(FirstOf(m, s)) : i \in 1..n /\ FirstOf(m, s)[i] = s[i]
<1>1. n \in Nat /\ s \in [1..n -> S]
  BY DEF Lists
<1>2. s \in Seq(S) /\ Len(s) = n
  BY <1>1, SeqDef
<1> DEFINE k == IF m < n THEN m ELSE n
<1>3. k \in Nat /\ k <= n
  BY <1>1
<1>4. FirstOf(m, s) = SubSeq(s, 1, k)
  BY <1>2 DEF FirstOf
<1> HIDE DEF k
<1>5. \A i \in 1..k : s[i] \in S
  BY <1>1, <1>3
<1>6. /\ SubSeq(s, 1, k) \in Seq(S)
      /\ Len(SubSeq(s, 1, k)) = IF 1 <= k THEN k - 1 + 1 ELSE 0
      /\ \A i \in 1..(k - 1 + 1) : SubSeq(s, 1, k)[i] = s[1 + i - 1]
  BY <1>3, <1>5, SubSeqProperties
<1>7. Len(SubSeq(s, 1, k)) = k
  BY <1>3, <1>6
<1>8. \A i \in 1..k : i \in 1..n /\ SubSeq(s, 1, k)[i] = s[i]
  <2> SUFFICES ASSUME NEW i \in 1..k PROVE i \in 1..n /\ SubSeq(s, 1, k)[i] = s[i]
    OBVIOUS
  <2>1. i \in 1..(k - 1 + 1) /\ 1 + i - 1 = i /\ i \in 1..n
    BY <1>1, <1>3
  <2> QED BY <1>6, <2>1
<1> QED
  BY <1>2, <1>4, <1>6, <1>7, <1>8 DEF k

\* A page holds the first facts after the cursor, and those that were there
\* when the walk began are on it or behind its last.
LEMMA ListKeeps == IInv /\ List => IInv'
<1> SUFFICES ASSUME IInv, List PROVE IInv'
  OBVIOUS
<1> DEFINE Left == {f \in facts : Matches(f, filter) /\ AfterCursor(f, cursor)}
           rows == Descending(Left)
           n    == Cardinality(Left)
<1>1. /\ pc = "ask" /\ CursorValid(cursor) /\ pc' = "relate" /\ related' = <<>>
      /\ page' = FirstOf(Limit, rows) /\ more' = (Len(rows) > Limit)
      /\ UNCHANGED <<facts, op, filter, cursor, shown, before>>
  BY DEF List, ledger
<1>2. op = "list"
  BY <1>1 DEF IInv, Phases, WalkTyped
<1>3. Lists(rows, n, Left)
  <2>1. Ordered(facts) /\ Left \in SUBSET facts
    BY FactsAreOrdered DEF IInv
  <2> HIDE DEF Left
  <2>2. Ordered(Left)
    BY <2>1, FS_Subset DEF Ordered
  <2> QED BY <2>2, DescendingLists
<1> HIDE DEF rows, n
<1>4. /\ n \in Nat /\ rows \in [1..n -> Left]
      /\ \A f \in Left : \E i \in 1..n : rows[i] = f
      /\ \A i, j \in 1..n : i < j => Precedes(rows[j], rows[i])
  BY <1>3 DEF Lists
<1>5. /\ Len(rows) = n /\ page' \in Seq(Left)
      /\ Len(page') = IF Limit < n THEN Limit ELSE n
      /\ \A i \in 1..Len(page') : i \in 1..n /\ page'[i] = rows[i]
  <2> HIDE DEF Left
  <2> QED BY <1>1, <1>3, FirstOfListed, LimitIsPositive
<1>6. /\ (more' <=> n > Limit) /\ Len(page') <= Limit /\ Len(page') \in Nat
      /\ DOMAIN page' = 1..Len(page') /\ more' \in BOOLEAN
      /\ more' => Len(page') = Limit
  <2>1. more' = (n > Limit)
    BY <1>1, <1>5
  <2>2. more' \in BOOLEAN
    BY <2>1
  <2>3. Len(page') <= Limit /\ Len(page') \in Nat /\ (n > Limit => Len(page') = Limit)
    <3> DEFINE k == Len(page')
    <3>1. k = IF Limit < n THEN Limit ELSE n
      BY <1>5
    <3> HIDE DEF k
    <3>2. k <= Limit /\ k \in Nat /\ (n > Limit => k = Limit)
      BY <1>4, <3>1, LimitIsPositive
    <3> QED BY <3>2 DEF k
  <2>4. DOMAIN page' = 1..Len(page')
    BY <1>5
  <2>5. more' <=> n > Limit
    BY <2>1
  <2> QED BY <2>2, <2>3, <2>4, <2>5
<1>7. page' \in Seq(facts')
  <2>1. Left \subseteq facts'
    BY <1>1
  <2> HIDE DEF Left
  <2> QED BY <1>5, <2>1, SeqMonotonic
<1>8. LedgerSound' /\ TypeOK' /\ WalkTyped'
  <2>1. LedgerSound'
    BY <1>1 DEF IInv, LedgerSound
  <2>2. TypeOK'
    BY <1>1, <1>6, <1>7 DEF IInv, TypeOK
  <2>3. WalkTyped'
    BY <1>1, <1>6 DEF IInv, WalkTyped
  <2> QED BY <2>1, <2>2, <2>3
<1>9. Phases' /\ Boundary'
  <2>1. more' => page' # <<>>
    <3>1. Len(<<>>) = 0
      OBVIOUS
    <3>2. more' => Len(page') # 0
      BY <1>6, LimitIsPositive
    <3> QED BY <3>1, <3>2
  <2> QED BY <1>1, <1>2, <2>1 DEF IInv, Phases, Boundary
<1>10. PageInOrder'
  <2>1. \A i \in DOMAIN page' : i \in 1..n /\ page'[i] = rows[i] /\ AfterCursor(page'[i], cursor)
    BY <1>4, <1>5, <1>6
  <2>2. \A i, j \in DOMAIN page' : i < j => Precedes(page'[j], page'[i])
    BY <1>4, <2>1
  <2> QED BY <1>1, <2>1, <2>2 DEF PageInOrder, AfterCursor
<1>11. PageTakesFirst'
  <2> SUFFICES ASSUME NEW f \in before, Matches(f, filter), AfterCursor(f, cursor)
               PROVE  \/ \E i \in DOMAIN page' : page'[i] = f
                      \/ more' /\ Precedes(f, page'[Len(page')])
    BY <1>1 DEF PageTakesFirst, Matches, AfterCursor
  <2>1. f \in Left
    BY DEF IInv, TypeOK
  <2>2. PICK k \in 1..n : rows[k] = f
    BY <1>4, <2>1
  <2>3. CASE k <= Len(page')
    <3>1. k \in DOMAIN page'
      BY <1>4, <1>6, <2>3
    <3> QED BY <1>5, <1>6, <2>2, <3>1
  <2>4. CASE ~(k <= Len(page'))
    <3>1. more' /\ Limit < k /\ Limit \in 1..n /\ Len(page') = Limit
      <4> DEFINE m == Len(page')
      <4>1. m = (IF Limit < n THEN Limit ELSE n) /\ ~(k <= m)
        BY <1>5, <2>4
      <4> HIDE DEF m
      <4>2. n > Limit /\ Limit < k /\ Limit \in 1..n
        BY <1>4, <4>1, LimitIsPositive
      <4>3. more'
        BY <1>6, <4>2
      <4>4. Len(page') = Limit
        BY <1>6, <4>3
      <4> QED BY <4>2, <4>3, <4>4
    <3>2. page'[Limit] = rows[Limit]
      BY <1>5, <3>1, LimitIsPositive
    <3> QED BY <1>4, <2>2, <3>1, <3>2
  <2> QED BY <2>3, <2>4
<1>12. Remaining' /\ RelatedAfterRead'
  <2>1. DOMAIN related' = {}
    BY <1>1
  <2>2. RelatedAfterRead'
    BY <2>1 DEF RelatedAfterRead
  <2>3. Remaining'
    BY <1>1, <1>2 DEF IInv, Remaining, ShownFact, Matches, AfterCursor
  <2> QED BY <2>2, <2>3
<1>13. WalkDescends' /\ NothingSkipped' /\ ReversalsNameTheirOriginal'
  BY <1>1 DEF IInv, WalkDescends, NothingSkipped, ReversalsNameTheirOriginal
<1> QED
  BY <1>8, <1>9, <1>10, <1>11, <1>12, <1>13 DEF IInv

\* Whoever finds no correction found no reversal either.
LEMMA CorrectionFound ==
    ASSUME LedgerSound, NEW id \in Nat
    PROVE  /\ DirectCorrection(id) \in Nat
           /\ DirectCorrection(id) = NoCorrection => \A f \in facts : f.reversalOf # id
<1>1. CASE \E f \in facts : f.reversalOf = id
  <2>1. PICK r \in facts : r.reversalOf = id
    BY <1>1
  <2>2. r.reversalOf # NoFact
    BY <2>1, PageAssumption DEF PageAssumption
  <2>3. \E p \in facts : p.correctionOf = id
    BY <2>1, <2>2 DEF LedgerSound
  <2> DEFINE p == CHOOSE f \in facts : f.correctionOf = id
  <2>4. p \in facts
    BY <2>3
  <2> HIDE DEF p
  <2>5. p.id \in Nat /\ p.id # 0
    BY <2>4, NextIsNew DEF LedgerSound
  <2>6. DirectCorrection(id) = p.id
    BY <1>1 DEF DirectCorrection, p
  <2> QED BY <2>5, <2>6 DEF NoCorrection
<1>2. CASE ~\E f \in facts : f.reversalOf = id
  BY <1>2 DEF DirectCorrection, NoCorrection
<1> QED BY <1>1, <1>2

\* A correction is read after every fact that the walk holds.
LEMMA RelateKeeps == IInv /\ Relate => IInv'
<1> SUFFICES ASSUME IInv, Relate PROVE IInv'
  OBVIOUS
<1> DEFINE k == Len(related) + 1
           found == DirectCorrection(page[k].id)
<1>1. /\ pc = "relate" /\ Len(related) < Len(page)
      /\ related' = Append(related, found)
      /\ UNCHANGED <<facts, op, filter, cursor, pc, page, more, shown, before>>
  BY DEF Relate, ledger
<1>2. /\ page \in Seq(facts) /\ Len(page) \in Nat /\ DOMAIN page = 1..Len(page)
      /\ related \in Seq(Nat) /\ Len(related) \in Nat /\ DOMAIN related = 1..Len(related)
      /\ \A i \in DOMAIN page : page[i] \in facts
      /\ \A i \in DOMAIN shown : shown[i].fact \in facts
  <2>1. page \in Seq(facts) /\ related \in Seq(Nat)
    BY DEF IInv, TypeOK, WalkTyped
  <2>2. \A i \in DOMAIN shown : shown[i].fact \in facts
    BY DEF IInv, TypeOK
  <2>3. Len(page) \in Nat /\ DOMAIN page = 1..Len(page)
    BY <2>1
  <2>4. Len(related) \in Nat /\ DOMAIN related = 1..Len(related)
    BY <2>1
  <2>5. \A i \in DOMAIN page : page[i] \in facts
    BY <2>1, <2>3
  <2> QED BY <2>1, <2>2, <2>3, <2>4, <2>5
<1>3. k \in DOMAIN page
  BY <1>1, <1>2
<1>4. page[k].id \in Nat
  BY <1>2, <1>3, NextIsNew DEF IInv, LedgerSound
<1>5. found \in Nat /\ (found = NoCorrection => \A f \in facts : f.reversalOf # page[k].id)
  BY <1>4, CorrectionFound DEF IInv
<1> HIDE DEF found
<1>6. /\ related' \in Seq(Nat) /\ Len(related') = k /\ DOMAIN related' = 1..k
      /\ related'[k] = found
      /\ \A i \in DOMAIN related : related'[i] = related[i]
  BY <1>1, <1>2, <1>5
<1>7. LedgerSound' /\ TypeOK' /\ WalkTyped'
  <2>1. LedgerSound'
    BY <1>1 DEF IInv, LedgerSound
  <2>2. TypeOK'
    BY <1>1, <1>2, <1>6 DEF IInv, TypeOK
  <2>3. WalkTyped'
    BY <1>1, <1>6 DEF IInv, WalkTyped
  <2> QED BY <2>1, <2>2, <2>3
<1>8. Phases' /\ Boundary' /\ PageInOrder'
  BY <1>1 DEF IInv, Phases, Boundary, PageInOrder, AfterCursor, CursorValid
<1>9. Remaining' /\ PageTakesFirst'
  BY <1>1 DEF IInv, Remaining, PageTakesFirst, AfterCursor, CursorValid, ShownFact, Matches
<1>10. RelatedAfterRead'
  <2> SUFFICES ASSUME NEW i \in DOMAIN related', related'[i] = NoCorrection
               PROVE  /\ \A j \in DOMAIN page : ~Reverses(page[j], page[i])
                      /\ \A j \in DOMAIN shown : ~Reverses(shown[j].fact, page[i])
    BY <1>1 DEF RelatedAfterRead, Reverses
  <2>1. CASE i \in DOMAIN related
    BY <1>6, <2>1 DEF IInv, RelatedAfterRead
  <2>2. CASE i = k
    <3>1. \A f \in facts : f.reversalOf # page[i].id
      BY <1>5, <1>6, <2>2
    <3> QED BY <1>2, <3>1 DEF Reverses
  <2>3. i \in DOMAIN related \/ i = k
    BY <1>2, <1>6
  <2> QED BY <2>1, <2>2, <2>3
<1>11. WalkDescends' /\ NothingSkipped' /\ ReversalsNameTheirOriginal'
  BY <1>1 DEF IInv, WalkDescends, NothingSkipped, ReversalsNameTheirOriginal
<1> QED
  BY <1>7, <1>8, <1>9, <1>10, <1>11 DEF IInv

\* A reversal comes after the fact it cancels.
LEMMA ReversalsComeLater ==
    ASSUME LedgerSound, NEW r \in facts, NEW o \in facts, Reverses(r, o)
    PROVE  Precedes(o, r)
<1>1. o.id \in Nat /\ o.id = o.seq
  BY NextIsNew DEF LedgerSound
<1>2. r.reversalOf # NoFact
  BY <1>1, PageAssumption DEF PageAssumption, Reverses
<1>3. PICK q \in facts : q.id = r.reversalOf /\ q.seq < r.seq /\ q.effectiveAt = r.effectiveAt
  BY <1>2 DEF LedgerSound
<1>4. q = o
  BY <1>3 DEF LedgerSound, Reverses
<1> QED BY <1>3, <1>4 DEF Precedes

\* What is shown after a response: what was shown, and the page.
Shows(new, n, q) ==
    /\ n \in Nat /\ q \in Nat
    /\ DOMAIN shown = 1..q /\ DOMAIN page = 1..n /\ DOMAIN related = 1..n
    /\ DOMAIN new = 1..(q + n)
    /\ \A i \in 1..q : new[i] = shown[i]
    /\ \A i \in 1..n : new[q + i].fact = page[i] /\ new[q + i].correction = related[i]

LEMMA ResponseShows ==
    ASSUME IInv, Respond
    PROVE  /\ shown' \in Seq([fact : facts, correction : Nat])
           /\ Shows(shown', Len(page), Len(shown))
<1> DEFINE R    == [fact : facts, correction : Nat]
           n    == Len(page)
           q    == Len(shown)
           rows == [i \in DOMAIN page |-> Record(i)]
<1>1. Len(related) = n /\ shown' = shown \o rows
  BY DEF Respond
<1>2. page \in Seq(facts) /\ related \in Seq(Nat) /\ shown \in Seq(R)
  BY DEF IInv, TypeOK, WalkTyped
<1>3. /\ n \in Nat /\ q \in Nat
      /\ DOMAIN page = 1..n /\ DOMAIN related = 1..n /\ DOMAIN shown = 1..q
      /\ \A i \in 1..n : page[i] \in facts /\ related[i] \in Nat
  BY <1>1, <1>2
<1>4. \A i \in 1..n : /\ rows[i] \in R
                      /\ rows[i].fact = page[i] /\ rows[i].correction = related[i]
  BY <1>3 DEF Record
<1>5. rows \in Seq(R) /\ Len(rows) = n
  <2>1. rows \in [1..n -> R]
    BY <1>3, <1>4
  <2> HIDE DEF rows, R, n
  <2> QED BY <1>3, <2>1, SeqDef
<1> HIDE DEF R, rows, n, q
<1>6. /\ shown \o rows \in Seq(R)
      /\ Len(shown \o rows) = q + n
      /\ \A i \in 1..(q + n) :
           (shown \o rows)[i] = IF i <= q THEN shown[i] ELSE rows[i - q]
  <2>1. /\ shown \o rows \in Seq(R)
        /\ Len(shown \o rows) = Len(shown) + Len(rows)
        /\ \A i \in 1..Len(shown) + Len(rows) :
             (shown \o rows)[i] = IF i <= Len(shown) THEN shown[i] ELSE rows[i - Len(shown)]
    BY <1>2, <1>5, ConcatProperties
  <2> QED BY <1>5, <2>1, Zenon DEF q
<1>7. DOMAIN shown' = 1..(q + n)
  BY <1>1, <1>6
<1>8. \A i \in 1..q : shown'[i] = shown[i]
  BY <1>1, <1>3, <1>6
<1>9. \A i \in 1..n : shown'[q + i] = rows[i]
  <2> SUFFICES ASSUME NEW i \in 1..n PROVE shown'[q + i] = rows[i]
    OBVIOUS
  <2>1. q + i \in 1..(q + n) /\ ~(q + i <= q) /\ (q + i) - q = i
    BY <1>3
  <2> QED BY <1>1, <1>6, <2>1
<1> QED
  BY <1>1, <1>3, <1>4, <1>6, <1>7, <1>8, <1>9 DEF Shows, R, n, q

\* Each page goes on where the walk was, and leaves out nothing.
LEMMA RespondKeeps == IInv /\ Respond => IInv'
<1> SUFFICES ASSUME IInv, Respond PROVE IInv'
  OBVIOUS
<1> DEFINE n == Len(page)
           q == Len(shown)
           last == page[n]
<1>1. /\ pc = "relate"
      /\ page' = <<>> /\ related' = <<>> /\ more' = FALSE
      /\ IF more
         THEN pc' = "ask" /\ cursor' = EncodeCursor(Position(last))
         ELSE pc' = "ended" /\ UNCHANGED cursor
      /\ UNCHANGED <<facts, op, filter, before>>
  BY DEF Respond, NoPage, ledger
<1>2. shown' \in Seq([fact : facts, correction : Nat])
  BY ResponseShows
<1>3. /\ n \in Nat /\ q \in Nat
      /\ DOMAIN shown = 1..q /\ DOMAIN page = 1..n /\ DOMAIN related = 1..n
      /\ DOMAIN shown' = 1..(q + n)
      /\ \A i \in 1..q : shown'[i] = shown[i]
      /\ \A i \in 1..n : shown'[q + i].fact = page[i] /\ shown'[q + i].correction = related[i]
  BY ResponseShows DEF Shows
<1>4. LedgerSound /\ Ordered(facts)
  BY FactsAreOrdered DEF IInv
<1>5. /\ \A i \in 1..n : page[i] \in facts
      /\ \A i \in 1..q : shown[i].fact \in facts
  <2>1. page \in Seq(facts)
    BY DEF IInv, TypeOK
  <2>2. \A i \in 1..n : page[i] \in facts
    BY <2>1
  <2>3. \A i \in DOMAIN shown : shown[i].fact \in facts
    BY DEF IInv, TypeOK
  <2> QED BY <1>3, <2>2, <2>3
<1>6. \A k \in 1..(q + n) : k \in 1..q \/ (k - q \in 1..n /\ q + (k - q) = k)
  BY <1>3
<1> HIDE DEF n, q
<1>7. \A i \in 1..n, j \in 1..q : Precedes(page[i], shown[j].fact)
  <2> SUFFICES ASSUME NEW i \in 1..n, NEW j \in 1..q
               PROVE  Precedes(page[i], shown[j].fact)
    OBVIOUS
  <2>1. shown # <<>>
    BY <1>3 DEF q
  <2>2. cursor # NoCursor /\ ~Precedes(shown[j].fact, DecodeCursor(cursor))
    BY <1>1, <1>3, <2>1 DEF IInv, Boundary
  <2>3. Precedes(page[i], DecodeCursor(cursor))
    BY <1>3, <2>2 DEF IInv, PageInOrder, AfterCursor
  <2>4. DecodeCursor(cursor).effectiveAt \in Int /\ DecodeCursor(cursor).seq \in Int
    BY <2>2 DEF IInv, WalkTyped, Cursor, DecodeCursor
  <2>5. page[i] \in facts /\ shown[j].fact \in facts
    BY <1>5
  <2> HIDE DEF DecodeCursor
  <2> QED BY <1>4, <2>2, <2>3, <2>4, <2>5 DEF Precedes, Ordered
<1>8. \A i, j \in 1..n : i < j => Precedes(page[j], page[i])
  BY <1>3 DEF IInv, PageInOrder
<1>9. WalkDescends'
  <2> SUFFICES ASSUME NEW i \in 1..(q + n), NEW j \in 1..(q + n), i < j
               PROVE  Precedes(shown'[j].fact, shown'[i].fact)
    BY <1>3 DEF WalkDescends
  <2>1. CASE i \in 1..q /\ j \in 1..q
    BY <1>3, <2>1 DEF IInv, WalkDescends
  <2>2. CASE i \in 1..q /\ j - q \in 1..n /\ q + (j - q) = j
    <3>1. shown'[i] = shown[i] /\ shown'[j].fact = page[j - q]
      BY <1>3, <2>2
    <3> QED BY <1>7, <2>2, <3>1
  <2>3. CASE i - q \in 1..n /\ j - q \in 1..n /\ q + (i - q) = i /\ q + (j - q) = j
    <3>1. shown'[i].fact = page[i - q] /\ shown'[j].fact = page[j - q] /\ i - q < j - q
      BY <1>3, <2>3
    <3> QED BY <1>8, <2>3, <3>1
  <2>4. ~(i - q \in 1..n /\ j \in 1..q)
    BY <1>3
  <2> QED BY <1>6, <2>1, <2>2, <2>3, <2>4
<1>10. ReversalsNameTheirOriginal'
  <2> SUFFICES ASSUME NEW i \in 1..(q + n), NEW j \in 1..(q + n),
                      Reverses(shown'[i].fact, shown'[j].fact),
                      shown'[j].correction = NoCorrection
               PROVE  FALSE
    BY <1>3 DEF ReversalsNameTheirOriginal, Reverses
  <2>1. CASE i \in 1..q /\ j \in 1..q
    BY <1>3, <2>1 DEF IInv, ReversalsNameTheirOriginal, Reverses
  <2>2. CASE j - q \in 1..n /\ q + (j - q) = j
    <3>1. shown'[j].fact = page[j - q] /\ related[j - q] = NoCorrection
      BY <1>3, <2>2
    <3>2. /\ \A m \in 1..n : ~Reverses(page[m], page[j - q])
          /\ \A m \in 1..q : ~Reverses(shown[m].fact, page[j - q])
      BY <1>3, <2>2, <3>1 DEF IInv, RelatedAfterRead
    <3>3. i \in 1..q => shown'[i] = shown[i]
      BY <1>3
    <3>4. i - q \in 1..n /\ q + (i - q) = i => shown'[i].fact = page[i - q]
      BY <1>3
    <3> QED BY <1>6, <3>1, <3>2, <3>3, <3>4
  <2>3. CASE i - q \in 1..n /\ q + (i - q) = i /\ j \in 1..q
    <3>1. shown'[i].fact = page[i - q] /\ shown'[j] = shown[j]
      BY <1>3, <2>3
    <3>2. Precedes(page[i - q], shown[j].fact)
      BY <1>7, <2>3
    <3>3. Precedes(shown[j].fact, page[i - q])
      BY <1>4, <1>5, <2>3, <3>1, ReversalsComeLater
    <3> QED BY <1>4, <1>5, <2>3, <3>2, <3>3, OrderLaws
  <2> QED BY <1>6, <2>1, <2>2, <2>3
<1>11. more => last \in facts /\ n \in 1..n
  <2>1. more => page # <<>>
    BY DEF IInv, Phases
  <2>2. page # <<>> => n # 0
    BY <1>3 DEF n, IInv, TypeOK
  <2>3. more => n \in 1..n
    BY <1>3, <2>1, <2>2
  <2> QED BY <1>5, <2>3
<1> HIDE DEF last
<1>12. more => /\ cursor' \in Cursor /\ cursor' # NoCursor /\ CursorValid(cursor)'
               /\ DecodeCursor(cursor)' = Position(last)
               /\ \A f : AfterCursor(f, cursor)' <=> Precedes(f, last)
  <2> SUFFICES ASSUME more
               PROVE  /\ cursor' \in Cursor /\ cursor' # NoCursor /\ CursorValid(cursor)'
                      /\ DecodeCursor(cursor)' = Position(last)
                      /\ \A f : AfterCursor(f, cursor)' <=> Precedes(f, last)
    OBVIOUS
  <2>1. cursor' = [version |-> "v1",
                   position |-> [effectiveAt |-> last.effectiveAt, seq |-> last.seq, id |-> last.id]]
    BY <1>1 DEF EncodeCursor, Position
  <2>2. last.effectiveAt \in Nat /\ last.seq \in Nat /\ last.id \in Nat /\ last.seq > 0
    BY <1>4, <1>11, NextIsNew DEF LedgerSound
  <2>3. cursor' \in Cursor
    BY <2>1, <2>2 DEF Cursor
  <2>4. cursor' # NoCursor
    BY <2>1 DEF NoCursor
  <2>5. CursorValid(cursor)'
    BY <2>1, <2>2 DEF CursorValid
  <2>6. DecodeCursor(cursor)' = Position(last)
    BY <2>1 DEF DecodeCursor, Position
  <2>7. \A f : AfterCursor(f, cursor)' <=> Precedes(f, last)
    BY <2>4, <2>6 DEF AfterCursor, Precedes, Position
  <2> QED BY <2>3, <2>4, <2>5, <2>6, <2>7
<1>13. \A f \in facts : Matches(f, filter) /\ f \in before /\ op = "list" =>
          \/ \E k \in DOMAIN shown' : shown'[k].fact = f
          \/ more /\ Precedes(f, last)
  <2> SUFFICES ASSUME NEW f \in before, Matches(f, filter), op = "list"
               PROVE  \/ \E k \in DOMAIN shown' : shown'[k].fact = f
                      \/ more /\ Precedes(f, last)
    OBVIOUS
  <2>1. CursorValid(cursor)
    BY <1>1 DEF IInv, Phases
  <2>2. AfterCursor(f, cursor) \/ ShownFact(f)
    BY <1>1, <2>1 DEF IInv, Remaining
  <2>3. CASE ShownFact(f)
    <3>1. PICK k \in 1..q : shown[k].fact = f
      BY <1>3, <2>3 DEF ShownFact
    <3>2. k \in DOMAIN shown' /\ shown'[k].fact = f
      BY <1>3, <3>1
    <3> QED BY <3>2
  <2>4. CASE AfterCursor(f, cursor)
    <3>1. (\E i \in DOMAIN page : page[i] = f) \/ (more /\ Precedes(f, last))
      BY <1>1, <2>4 DEF IInv, PageTakesFirst, last, n
    <3>2. ASSUME NEW i \in DOMAIN page, page[i] = f
          PROVE  \E k \in DOMAIN shown' : shown'[k].fact = f
      <4>1. q + i \in DOMAIN shown' /\ shown'[q + i].fact = f
        BY <1>3, <3>2
      <4> QED BY <4>1
    <3> QED BY <3>1, <3>2
  <2> QED BY <2>2, <2>3, <2>4
<1>14. before \subseteq facts /\ (op = "get" => before = {} /\ ~more /\ cursor = NoCursor)
       /\ op \in {"list", "get"}
  BY DEF IInv, TypeOK, Phases, WalkTyped
<1>15. DOMAIN page' = {} /\ DOMAIN related' = {} /\ Len(page') = 0 /\ Len(related') = 0
       /\ page' \in Seq(facts') /\ related' \in Seq(Nat)
  BY <1>1
<1>16. LedgerSound' /\ TypeOK' /\ WalkTyped'
  <2>1. LedgerSound'
    BY <1>1 DEF IInv, LedgerSound
  <2>2. \A i \in DOMAIN shown' : shown'[i].fact \in facts
    <3>1. \A i \in 1..q : shown'[i].fact \in facts
      BY <1>3, <1>5
    <3>2. \A i \in 1..n : shown'[q + i].fact \in facts
      BY <1>3, <1>5
    <3>3. \A i \in 1..(q + n) : shown'[i].fact \in facts
      BY <1>6, <3>1, <3>2
    <3> QED BY <1>3, <3>3
  <2>3. pc' \in {"ask", "ended"}
    BY <1>1
  <2>4. TypeOK'
    BY <1>1, <1>14, <1>15, <2>2, <2>3, LimitIsPositive DEF IInv, TypeOK
  <2>5. cursor' = NoCursor \/ cursor' \in Cursor
    BY <1>1, <1>12 DEF IInv, WalkTyped
  <2>6. more' \in BOOLEAN
    BY <1>1
  <2>7. WalkTyped'
    BY <1>1, <1>2, <1>14, <1>15, <2>5, <2>6 DEF WalkTyped
  <2> QED BY <2>1, <2>4, <2>7
<1>17. Phases'
  BY <1>1, <1>14 DEF Phases
<1>18. Boundary'
  <2> SUFFICES ASSUME pc' = "ask", NEW j \in 1..(q + n)
               PROVE  cursor' # NoCursor /\ ~Precedes(shown'[j].fact, DecodeCursor(cursor)')
    <3>1. shown' # <<>> => 1 \in 1..(q + n)
      BY <1>2, <1>3
    <3>2. pc' \in {"ask", "relate"} => pc' = "ask"
      BY <1>1
    <3> QED BY <1>3, <3>1, <3>2 DEF Boundary, DecodeCursor
  <2>1. more
    BY <1>1
  <2>2. shown'[j].fact \in facts /\ (shown'[j].fact = last \/ Precedes(last, shown'[j].fact))
    <3>1. CASE j \in 1..q
      BY <1>3, <1>5, <1>7, <1>11, <2>1, <3>1 DEF last
    <3>2. CASE j - q \in 1..n /\ q + (j - q) = j
      <4>1. shown'[j].fact = page[j - q]
        BY <1>3, <3>2
      <4>2. j - q = n \/ j - q < n
        BY <1>3, <3>2
      <4> QED BY <1>5, <1>8, <1>11, <2>1, <3>2, <4>1, <4>2 DEF last
    <3> QED BY <1>6, <3>1, <3>2
  <2>3. ~Precedes(shown'[j].fact, last)
    BY <1>4, <1>11, <2>1, <2>2, OrderLaws
  <2>4. ~Precedes(shown'[j].fact, Position(last))
    BY <2>3 DEF Precedes, Position
  <2> QED BY <1>12, <2>1, <2>4
<1>19. PageInOrder' /\ PageTakesFirst' /\ RelatedAfterRead'
  BY <1>1, <1>15 DEF PageInOrder, PageTakesFirst, RelatedAfterRead
<1>20. Remaining'
  <2> SUFFICES ASSUME op = "list", pc' = "ask", NEW f \in before, Matches(f, filter)
               PROVE  AfterCursor(f, cursor)' \/ \E k \in DOMAIN shown' : shown'[k].fact = f
    BY <1>1 DEF Remaining, ShownFact, Matches, AfterCursor
  <2>1. more
    BY <1>1
  <2> QED BY <1>12, <1>13, <1>14, <2>1
<1>21. NothingSkipped'
  <2> SUFFICES ASSUME pc' = "ended", NEW f \in before, Matches(f, filter)
               PROVE  f \in {shown'[i].fact : i \in DOMAIN shown'}
    BY <1>1 DEF NothingSkipped, Matches
  <2>1. ~more
    BY <1>1
  <2> QED BY <1>13, <1>14, <2>1
<1> QED
  BY <1>9, <1>10, <1>16, <1>17, <1>18, <1>19, <1>20, <1>21 DEF IInv

-----------------------------------------------------------------------------
(* The theorems *)

LEMMA NextIInv == IInv /\ [Next]_vars => IInv'
<1> SUFFICES ASSUME IInv, [Next]_vars PROVE IInv'
  OBVIOUS
<1>1. CASE Command
  <2>1. UNCHANGED walk
    BY <1>1 DEF Command
  <2> QED BY <1>1, <2>1, CommandGrows, LedgerStep DEF IInv
<1>2. CASE Correction
  <2>1. UNCHANGED walk
    BY <1>2 DEF Correction
  <2> QED BY <1>2, <2>1, CorrectionGrows, LedgerStep DEF IInv
<1>3. CASE UNCHANGED vars
  <2>1. UNCHANGED walk /\ facts' = facts
    BY <1>3 DEF vars, ledger
  <2>2. LedgerSound'
    BY <2>1 DEF IInv, LedgerSound
  <2> QED BY <2>1, <2>2, LedgerStep
<1> QED
  BY <1>1, <1>2, <1>3, StartWalkKeeps, RejectInputKeeps, ListKeeps, GetKeeps, RelateKeeps,
     RespondKeeps, FailKeeps, ForgeKeeps DEF Next

LEMMA IInvariance == Spec => []IInv
BY InitIInv, NextIInv, PTL DEF Spec

\* A walk over pages gives every matching fact that was there when it began,
\* each once and in descending order, whatever is recorded or corrected
\* between two pages and whichever responses are lost, for any page size and
\* any number of facts (transaction history handlers).
THEOREM WalksAreExact == Spec => []WalkIsExact
<1>1. IInv => WalkIsExact
  BY DEF IInv, WalkIsExact
<1> QED BY IInvariance, <1>1, PTL

\* A history that shows a reversal shows the fact it cancels as corrected,
\* although facts and corrections are read by different statements.
THEOREM ReversalsAreExplained == Spec => []ReversalsNameTheirOriginal
<1>1. IInv => ReversalsNameTheirOriginal
  BY DEF IInv
<1> QED BY IInvariance, <1>1, PTL

=============================================================================
