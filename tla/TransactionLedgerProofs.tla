----------------------- MODULE TransactionLedgerProofs -----------------------
(***************************************************************************)
(* The theorems of TransactionLedger.  A step is one of ten kinds; every   *)
(* conjunct of LedgerInvariant is preserved by each of them.               *)
(***************************************************************************)
EXTENDS TransactionLedgerInvariant, LedgerReplayCheck, FiniteSetTheorems, FunctionTheorems, TLAPS

(* A request that passes the first checks.                                 *)
Begins(a) ==
  \E r \in RequestSet :
    /\ pc[a] = "idle"
    /\ r.owner
    /\ request' = [request EXCEPT ![a] = r]
    /\ shares' = shares \union {a}
    /\ sawArchived' = [sawArchived EXCEPT ![a] = archived]
    /\ pc' = [pc EXCEPT ![a] = "lock_key"]
    /\ UNCHANGED <<database, keyHolder, seqHolder, sequence, pending, answer,
                   outcome, clock>>

(* A request that is rejected or cut off, at any point.                    *)
Ends(a) ==
  \E result \in Errors \union {"aborted"}, phase \in {"audit_rejection", "done"},
     r \in RequestSet :
    /\ pc[a] # "done"
    /\ pc[a] # "idle" => r = request[a]
    /\ phase = "audit_rejection" => result \in Errors
    /\ request' = [request EXCEPT ![a] = r]
    /\ Rollback(a, result)
    /\ pc' = [pc EXCEPT ![a] = phase]
    /\ UNCHANGED sawArchived

(* A request answered from a row of its key.                               *)
Replays(a) ==
  \E row \in LiveRows(request[a]) :
    /\ pc[a] = "lookup"
    /\ row.digest = Fingerprint(request[a])
    /\ AnswerFromRow(a, row)
    /\ UNCHANGED <<request, sawArchived>>

(* A request whose key is new and whose portfolio is active.               *)
Accepts(a) ==
  /\ pc[a] = "lookup"
  /\ LiveRows(request[a]) = {}
  /\ ~sawArchived[a]
  /\ AcceptNewKey(a)
  /\ UNCHANGED <<request, sawArchived>>

(* A request whose facts are valid.                                        *)
Writes(a) ==
  /\ pc[a] = "write"
  /\ WriteError(a) = "OK"
  /\ pending' = [pending EXCEPT ![a] = AllWrites(a)]
  /\ answer' = [answer EXCEPT ![a] = PrimaryFact(a)]
  /\ pc' = [pc EXCEPT ![a] = "commit"]
  /\ UNCHANGED <<database, locks, sequence, outcome, clock, request, sawArchived>>

-----------------------------------------------------------------------------
(* Requests are built from commands, so they are well formed.              *)
LEMMA RequestType ==
  ASSUME TypeOK, NEW c \in Commands, NEW target \in Targets(c)
  PROVE  Request(c, target) \in RequestSet
<1>1. CommandShape(c)
  BY CommandsAssumption
<1>2. target \in AnyFactId
  BY DEF Targets, AnyFactId, TypeOK, FactSet
<1>3. c.key \in Keys
  BY DEF Keys
<1> QED
  BY <1>1, <1>2, <1>3 DEF Request, RequestSet, CommandShape, Normalised

(* Start either refuses the request or takes the portfolio's share lock.   *)
LEMMA StartCases ==
  ASSUME TypeOK, NEW a \in Attempts, Start(a)
  PROVE  Begins(a) \/ Ends(a)
<1>c. PICK c \in Commands : \E target \in Targets(c) :
        LET r == Request(c, target)
        IN  /\ request' = [request EXCEPT ![a] = r]
            /\ \/ /\ StartError(r) # "none"
                  /\ Reject(a, StartError(r))
                  /\ UNCHANGED sawArchived
               \/ /\ StartError(r) = "none"
                  /\ shares' = shares \union {a}
                  /\ sawArchived' = [sawArchived EXCEPT ![a] = archived]
                  /\ pc' = [pc EXCEPT ![a] = "lock_key"]
                  /\ UNCHANGED <<database, keyHolder, seqHolder, sequence,
                                 pending, answer, outcome, clock>>
  BY DEF Start
<1>1. PICK target \in Targets(c) :
        LET r == Request(c, target)
        IN  /\ request' = [request EXCEPT ![a] = r]
            /\ \/ /\ StartError(r) # "none"
                  /\ Reject(a, StartError(r))
                  /\ UNCHANGED sawArchived
               \/ /\ StartError(r) = "none"
                  /\ shares' = shares \union {a}
                  /\ sawArchived' = [sawArchived EXCEPT ![a] = archived]
                  /\ pc' = [pc EXCEPT ![a] = "lock_key"]
                  /\ UNCHANGED <<database, keyHolder, seqHolder, sequence,
                                 pending, answer, outcome, clock>>
  BY <1>c
<1> DEFINE r == Request(c, target)
<1>2. r \in RequestSet
  BY RequestType
<1>3. pc[a] = "idle"
  BY DEF Start
<1>4. CASE StartError(r) # "none"
  <2>1. StartError(r) \in Errors
    BY <1>4 DEF StartError, Errors
  <2>2. Reject(a, StartError(r)) /\ UNCHANGED sawArchived
    BY <1>1, <1>4
  <2> QED
    BY <1>1, <1>2, <1>3, <2>1, <2>2 DEF Ends, Reject
<1>5. CASE StartError(r) = "none"
  <2>1. r.owner
    BY <1>5, <1>2 DEF StartError, RequestSet
  <2> QED
    BY <1>1, <1>2, <1>3, <1>5, <2>1 DEF Begins
<1> QED
  BY <1>4, <1>5

(* A step that leaves the requests alone, written as an update.            *)
LEMMA RequestKept ==
  ASSUME TypeOK, NEW a \in Attempts, UNCHANGED request
  PROVE  request' = [request EXCEPT ![a] = request[a]]
BY DEF TypeOK

(* What the idempotency lookup leads to: a rejection, the replay of a row, *)
(* or an accepted request.                                                 *)
LEMMA LookupCases ==
  ASSUME TypeOK, LocksHeld, NEW a \in Attempts, Lookup(a)
  PROVE  Ends(a) \/ Replays(a) \/ Accepts(a)
<1> USE DEF Lookup
<1>1. pc[a] = "lookup" /\ UNCHANGED <<request, sawArchived>>
  OBVIOUS
<1>2. request[a] \in RequestSet
  BY <1>1 DEF LocksHeld
<1>3. CASE LookupError(a) # "none" /\ Reject(a, LookupError(a))
  <2>1. LookupError(a) \in Errors
    BY <1>3 DEF LookupError, Errors
  <2> QED
    BY <1>1, <1>2, <1>3, <2>1, RequestKept DEF Ends, Reject
<1>4. CASE /\ LookupError(a) = "none"
           /\ \E row \in LiveRows(request[a]) : AnswerFromRow(a, row)
  <2>1. \A row \in LiveRows(request[a]) : row.digest = Fingerprint(request[a])
    BY <1>4 DEF LookupError
  <2> QED
    BY <1>1, <1>4, <2>1 DEF Replays
<1>5. CASE /\ LookupError(a) = "none"
           /\ LiveRows(request[a]) = {}
           /\ AcceptNewKey(a)
  <2>1. ~sawArchived[a]
    BY <1>5 DEF LookupError
  <2> QED
    BY <1>1, <1>5, <2>1 DEF Accepts
<1> QED
  BY <1>3, <1>4, <1>5

(* Writing leaves facts to commit or a rejection.                          *)
LEMMA WriteCases ==
  ASSUME TypeOK, LocksHeld, NEW a \in Attempts, Write(a)
  PROVE  Ends(a) \/ Writes(a)
<1> USE DEF Write
<1>1. pc[a] = "write" /\ UNCHANGED <<request, sawArchived>>
  OBVIOUS
<1>2. request[a] \in RequestSet
  BY <1>1 DEF LocksHeld
<1>3. CASE WriteError(a) # "OK" /\ RejectOrFail(a, WriteError(a))
  <2>1. CASE WriteError(a) \in Errors
    BY <1>1, <1>2, <1>3, <2>1, RequestKept DEF Ends, Reject, RejectOrFail
  <2>2. CASE WriteError(a) \notin Errors
    BY <1>1, <1>2, <1>3, <2>2, RequestKept DEF Ends, Fail, RejectOrFail
  <2> QED
    BY <2>1, <2>2
<1>4. CASE WriteError(a) = "OK"
  BY <1>1, <1>4 DEF Writes
<1> QED
  BY <1>3, <1>4

(* What an attempt can do, and with it the ten kinds of steps.             *)
Moves(a) ==
  \/ Begins(a) \/ Ends(a) \/ LockKey(a) \/ Replays(a) \/ Accepts(a)
  \/ Allocate(a) \/ Writes(a) \/ Commit(a) \/ AuditRejection(a)

(* The split of a step that every preservation proof below uses.           *)
LEMMA NextCases ==
  ASSUME TypeOK, LocksHeld, [Next]_vars
  PROVE  \/ \E a \in Attempts : Moves(a)
         \/ ArchivePortfolio \/ Tick \/ UNCHANGED vars
<1>1. ASSUME NEW a \in Attempts, Abort(a)
      PROVE  Ends(a)
  <2>1. request[a] \in RequestSet
    BY <1>1 DEF LocksHeld, Abort
  <2> QED
    BY <1>1, <2>1, RequestKept DEF Abort, Fail, Ends
<1> QED
  BY <1>1, StartCases, LookupCases, WriteCases DEF Next, Step, Moves

-----------------------------------------------------------------------------
(* What a valid command writes has the types of the tables.                *)
LEMMA TargetExists ==
  ASSUME TypeOK, NEW a \in Attempts, IsCorrection(request[a]), WriteError(a) = "OK"
  PROVE  /\ Target(request[a]) \in facts
         /\ Target(request[a]).id = request[a].target
         /\ Target(request[a]).kind # "REVERSAL"
<1>1. TargetError(request[a]) = "OK"
  BY DEF WriteError
<1>2. \E f \in facts : f.id = request[a].target
  BY <1>1 DEF TargetError
<1>3. Target(request[a]).kind # "REVERSAL"
  BY <1>1, <1>2 DEF TargetError
<1> QED
  BY <1>2, <1>3 DEF Target

(* The facts of a command are rows of the fact table.                      *)
LEMMA CandidatesType ==
  ASSUME TypeOK, NEW a \in Attempts, request[a] \in RequestSet,
         sequence[a] \in Nat \ {0}, WriteError(a) = "OK"
  PROVE  Candidates(a) \subseteq FactSet
<1>1. \A n \in {1, 2} : \A id \in AnyFactId : CommandFact(a, n, id) \in FactSet
  BY DEF CommandFact, FactSet, RequestSet, FactIds, AnyFactId, TypeOK, CreatableKinds, Normalised
<1>2. CASE IsCorrection(request[a])
  <2>1. Target(request[a]) \in FactSet
    BY <1>2, TargetExists DEF TypeOK
  <2>2. Reversal(a, Target(request[a])) \in FactSet
    BY <2>1 DEF Reversal, FactSet, FactIds, AnyFactId, TypeOK, Kinds, Normalised
  <2>3. request[a].target \in AnyFactId
    BY DEF RequestSet
  <2> QED
    BY <1>1, <1>2, <2>2, <2>3 DEF Candidates
<1>3. CASE ~IsCorrection(request[a])
  BY <1>1, <1>3 DEF Candidates, AnyFactId
<1> QED
  BY <1>2, <1>3

(* What a command writes has the types of the tables it goes to.           *)
LEMMA AllWritesType ==
  ASSUME TypeOK, NEW a \in Attempts, request[a] \in RequestSet,
         sequence[a] \in Nat \ {0}, WriteError(a) = "OK"
  PROVE  AllWrites(a) \in WriteSet /\ PrimaryFact(a) \in FactIds
<1> DEFINE r == request[a]
<1>1. Candidates(a) \subseteq FactSet
  BY CandidatesType
<1>2. PrimaryFact(a) \in FactIds
  BY DEF PrimaryFact, FactIds
<1>3. IsCorrection(r) => r.target \in FactIds
  BY TargetExists DEF TypeOK, FactSet
<1>4. AllWrites(a).corrections \in SUBSET CorrectionSet
  BY <1>3 DEF AllWrites, CorrectionSet, FactIds
<1>5. Fingerprint(r) \in DigestSet
  BY DEF Fingerprint, DigestSet, RequestSet
<1>6. AllWrites(a).rows \in SUBSET RowSet
  BY <1>2, <1>5 DEF AllWrites, RowSet, RequestSet, TypeOK
<1>7. AllWrites(a).expired \in SUBSET RowSet
  BY DEF AllWrites, TypeOK, WriteSet
<1>8. AllWrites(a).audits \in SUBSET AuditSet
  BY DEF AllWrites, AuditSet, SuccessActions, AuditActions
<1>9. AllWrites(a).events \in Seq(EventSet)
  <2>1. \A t \in EventTypes : [by |-> a, type |-> t] \in EventSet
    BY DEF EventSet
  <2>2. \A e \in EventSet : <<e>> \in Seq(EventSet)
    OBVIOUS
  <2>3. /\ <<[by |-> a, type |-> "transaction.corrected.v1"]>> \in Seq(EventSet)
        /\ <<[by |-> a, type |-> "transaction.recorded.v1"]>> \in Seq(EventSet)
    BY <2>1, <2>2 DEF EventTypes
  <2>4. AllWrites(a).events =
          IF IsCorrection(r) THEN <<[by |-> a, type |-> "transaction.corrected.v1"]>>
          ELSE <<[by |-> a, type |-> "transaction.recorded.v1"]>>
    BY DEF AllWrites
  <2> QED
    BY <2>3, <2>4
<1>10. AllWrites(a).facts = Candidates(a)
  BY DEF AllWrites
<1>11. \A f, c, r1, x, u, e :
         /\ f \in SUBSET FactSet /\ c \in SUBSET CorrectionSet
         /\ r1 \in SUBSET RowSet /\ x \in SUBSET RowSet
         /\ u \in SUBSET AuditSet /\ e \in Seq(EventSet)
         => [facts |-> f, corrections |-> c, rows |-> r1, expired |-> x,
             audits |-> u, events |-> e] \in WriteSet
  BY DEF WriteSet
<1>12. AllWrites(a) =
         [facts |-> AllWrites(a).facts, corrections |-> AllWrites(a).corrections,
          rows |-> AllWrites(a).rows, expired |-> AllWrites(a).expired,
          audits |-> AllWrites(a).audits, events |-> AllWrites(a).events]
  BY DEF AllWrites
<1> HIDE DEF r
<1> QED
  BY <1>1, <1>2, <1>4, <1>6, <1>7, <1>8, <1>9, <1>10, <1>11, <1>12

-----------------------------------------------------------------------------
(* Type correctness.                                                       *)
LEMMA NoWritesType ==
  /\ NoWrites \in WriteSet
  /\ \A x \in SUBSET RowSet : [NoWrites EXCEPT !.expired = x] \in WriteSet
  /\ \A u \in SUBSET AuditSet : [NoWrites EXCEPT !.audits = u] \in WriteSet
<1>1. <<>> \in Seq(EventSet)
  OBVIOUS
<1> QED
  BY <1>1 DEF NoWrites, WriteSet

(* The type invariant holds initially.                                     *)
LEMMA InitType == Init => TypeOK
<1> SUFFICES ASSUME Init PROVE TypeOK
  OBVIOUS
<1>1. outbox \in Seq(EventSet)
  BY DEF Init
<1>2. pending \in [Attempts -> WriteSet]
  BY NoWritesType DEF Init
<1>3. /\ clock \in Nat /\ nextSequence \in Nat \ {0}
      /\ answer \in [Attempts -> AnyFactId]
      /\ outcome \in [Attempts -> Outcomes]
      /\ pc \in [Attempts -> Phases]
      /\ sequence \in [Attempts -> Nat]
  BY ClockAssumption DEF Init, AnyFactId, Outcomes, Phases
<1> QED
  BY <1>1, <1>2, <1>3 DEF Init, TypeOK

(* The pending facts are as many as the sequences they advance the         *)
(* portfolio by.                                                           *)
LEMMA PendingCount ==
  ASSUME NEW a \in Attempts, PendingSequences
  PROVE  \/ pending[a].facts = {} /\ Cardinality(pending[a].facts) = 0
         \/ \E f : /\ pending[a].facts = {f} /\ f.seq = nextSequence
                   /\ Cardinality(pending[a].facts) = 1
         \/ \E f, g : /\ pending[a].facts = {f, g} /\ f # g
                      /\ f.seq = nextSequence /\ g.seq = nextSequence + 1
                      /\ Cardinality(pending[a].facts) = 2
<1>1. CASE pending[a].facts = {}
  BY <1>1, FS_EmptySet
<1>2. CASE pending[a].facts # {}
  <2>1. PICK f, g \in pending[a].facts :
          /\ pending[a].facts = {f, g}
          /\ f.seq = nextSequence
          /\ f # g => g.seq = nextSequence + 1
    BY <1>2 DEF PendingSequences
  <2>2. IsFiniteSet({f}) /\ Cardinality({f}) = 1
    BY FS_Singleton
  <2>3. CASE f = g
    BY <2>1, <2>2, <2>3
  <2>4. CASE f # g
    <3>1. Cardinality({f} \union {g}) = 1 + 1
      BY <2>2, <2>4, FS_AddElement
    <3>2. {f} \union {g} = pending[a].facts
      BY <2>1
    <3> QED
      BY <2>1, <2>4, <3>1, <3>2
  <2> QED
    BY <2>3, <2>4
<1> QED
  BY <1>1, <1>2

(* The type invariant is preserved, given the inductive invariant.         *)
LEMMA TypeStep == LedgerInvariant /\ [Next]_vars => TypeOK'
<1> SUFFICES ASSUME LedgerInvariant, [Next]_vars PROVE TypeOK'
  OBVIOUS
<1> USE DEF LedgerInvariant
<1>1. ASSUME NEW a \in Attempts, Begins(a) PROVE TypeOK'
  BY <1>1 DEF Begins, TypeOK, database, Phases
<1>2. ASSUME NEW a \in Attempts, Ends(a) PROVE TypeOK'
  <2>1. /\ pc' \in [Attempts -> Phases] /\ request' \in [Attempts -> RequestSet \union {NoRequest}]
        /\ UNCHANGED <<sawArchived, database, clock>>
    BY <1>2 DEF Ends, TypeOK, Phases, Rollback
  <2>2. /\ sequence' \in [Attempts -> Nat] /\ answer' \in [Attempts -> AnyFactId]
        /\ outcome' \in [Attempts -> Outcomes] /\ pending' \in [Attempts -> WriteSet]
    BY <1>2, NoWritesType DEF Ends, TypeOK, Rollback, AnyFactId, Outcomes
  <2>3. /\ shares' \subseteq Attempts /\ seqHolder' \in Attempts \union {NoAttempt}
        /\ keyHolder' \in [LockIds -> Attempts \union {NoAttempt}]
    BY <1>2 DEF Ends, Rollback, ReleaseLocks, TypeOK
  <2> QED
    BY <2>1, <2>2, <2>3 DEF TypeOK, database
<1>3. ASSUME NEW a \in Attempts, LockKey(a) PROVE TypeOK'
  BY <1>3 DEF LockKey, TypeOK, database, Phases
<1>4. ASSUME NEW a \in Attempts, Replays(a) PROVE TypeOK'
  <2>1. PICK row \in LiveRows(request[a]) :
          AnswerFromRow(a, row) /\ UNCHANGED <<request, sawArchived>>
    BY <1>4 DEF Replays
  <2>2. row.primary \in AnyFactId
    BY DEF LiveRows, KeyRows, TypeOK, RowSet, AnyFactId
  <2>3. {[by |-> a, action |-> "transaction_idempotent_replay"]} \in SUBSET AuditSet
    BY DEF AuditSet, AuditActions
  <2>4. pending' \in [Attempts -> WriteSet]
    BY <2>1, <2>3, NoWritesType DEF AnswerFromRow, TypeOK
  <2> QED
    BY <2>1, <2>2, <2>4 DEF AnswerFromRow, TypeOK, database, locks, Phases
<1>5. ASSUME NEW a \in Attempts, Accepts(a) PROVE TypeOK'
  <2>1. KeyRows(request[a]) \in SUBSET RowSet
    BY DEF KeyRows, TypeOK
  <2>2. pending' \in [Attempts -> WriteSet]
    BY <1>5, <2>1, NoWritesType DEF Accepts, AcceptNewKey, TypeOK
  <2> QED
    BY <1>5, <2>2 DEF Accepts, AcceptNewKey, TypeOK, database, locks, Phases
<1>6. ASSUME NEW a \in Attempts, Allocate(a) PROVE TypeOK'
  BY <1>6 DEF Allocate, AllocatedSequence, TypeOK, database, Phases
<1>7. ASSUME NEW a \in Attempts, Writes(a) PROVE TypeOK'
  <2>1. request[a] \in RequestSet /\ sequence[a] \in Nat \ {0}
    BY <1>7 DEF Writes, LocksHeld, PendingSequences, TypeOK
  <2>2. AllWrites(a) \in WriteSet /\ PrimaryFact(a) \in AnyFactId
    BY <1>7, <2>1, AllWritesType DEF Writes, AnyFactId
  <2>3. /\ pending' \in [Attempts -> WriteSet] /\ answer' \in [Attempts -> AnyFactId]
        /\ pc' \in [Attempts -> Phases]
    BY <1>7, <2>2 DEF Writes, TypeOK, Phases
  <2> QED
    BY <1>7, <2>3 DEF Writes, TypeOK, database, locks
<1>8. ASSUME NEW a \in Attempts, Commit(a) PROVE TypeOK'
  <2>1. pending[a] \in WriteSet
    BY DEF TypeOK
  <2>2. /\ facts' \subseteq FactSet /\ corrections' \subseteq CorrectionSet
        /\ idempotency' \subseteq RowSet /\ outbox' \in Seq(EventSet)
        /\ audits' \subseteq AuditSet
    BY <1>8, <2>1 DEF Commit, TypeOK, WriteSet
  <2>3. nextSequence' \in Nat \ {0}
    <3>1. Cardinality(pending[a].facts) \in {0, 1, 2}
      BY PendingCount
    <3>2. nextSequence' = nextSequence + Cardinality(pending[a].facts)
      BY <1>8 DEF Commit
    <3> QED
      BY <3>1, <3>2 DEF TypeOK
  <2>4. /\ shares' \subseteq Attempts /\ seqHolder' \in Attempts \union {NoAttempt}
        /\ keyHolder' \in [LockIds -> Attempts \union {NoAttempt}]
    BY <1>8 DEF Commit, ReleaseLocks, TypeOK
  <2>5. /\ pending' \in [Attempts -> WriteSet] /\ sequence' \in [Attempts -> Nat]
        /\ outcome' \in [Attempts -> Outcomes] /\ pc' \in [Attempts -> Phases]
    BY <1>8, NoWritesType DEF Commit, TypeOK, Outcomes, Phases
  <2> QED
    BY <1>8, <2>2, <2>3, <2>4, <2>5 DEF Commit, TypeOK
<1>9. ASSUME NEW a \in Attempts, AuditRejection(a) PROVE TypeOK'
  <2>1. [by |-> a, action |-> RejectionAction(request[a], outcome[a])] \in AuditSet
    BY DEF RejectionAction, AuditSet, AuditActions
  <2> QED
    BY <1>9, <2>1 DEF AuditRejection, TypeOK, locks, Phases
<1>10. CASE ArchivePortfolio
  BY <1>10 DEF ArchivePortfolio, TypeOK, locks
<1>11. CASE Tick
  BY <1>11 DEF Tick, TypeOK, locks, database
<1>12. CASE UNCHANGED vars
  BY <1>12 DEF vars, TypeOK
<1> QED
  BY <1>1, <1>2, <1>3, <1>4, <1>5, <1>6, <1>7, <1>8, <1>9, <1>10, <1>11, <1>12, NextCases
  DEF Moves

-----------------------------------------------------------------------------
(* A move of one attempt leaves the others as they are, their locks too.   *)
LEMMA OthersKept ==
  ASSUME TypeOK, NEW a \in Attempts, Moves(a), NEW b \in Attempts, b # a
  PROVE  /\ pc'[b] = pc[b] /\ request'[b] = request[b]
         /\ sawArchived'[b] = sawArchived[b] /\ sequence'[b] = sequence[b]
         /\ pending'[b] = pending[b] /\ answer'[b] = answer[b]
         /\ outcome'[b] = outcome[b]
         /\ b \in shares' <=> b \in shares
         /\ \A l \in LockIds : keyHolder'[l] = b <=> keyHolder[l] = b
         /\ seqHolder' = b <=> seqHolder = b
<1>0. b # NoAttempt
  BY AttemptsAssumption
<1>1. CASE Begins(a)
  BY <1>1 DEF Begins, TypeOK
<1>2. CASE Ends(a)
  BY <1>0, <1>2 DEF Ends, Rollback, ReleaseLocks, TypeOK
<1>3. CASE LockKey(a)
  BY <1>0, <1>3 DEF LockKey, KeyFree, TypeOK
<1>4. CASE Replays(a)
  BY <1>4 DEF Replays, AnswerFromRow, locks, TypeOK
<1>5. CASE Accepts(a)
  BY <1>5 DEF Accepts, AcceptNewKey, locks, TypeOK
<1>6. CASE Allocate(a)
  BY <1>0, <1>6 DEF Allocate, SequenceFree, TypeOK
<1>7. CASE Writes(a)
  BY <1>7 DEF Writes, locks, TypeOK
<1>8. CASE Commit(a)
  BY <1>0, <1>8 DEF Commit, ReleaseLocks, TypeOK
<1>9. CASE AuditRejection(a)
  BY <1>9 DEF AuditRejection, locks, TypeOK
<1> QED
  BY <1>1, <1>2, <1>3, <1>4, <1>5, <1>6, <1>7, <1>8, <1>9 DEF Moves

(* Only a commit changes the ledger, its rows and its sequence.            *)
LEMMA LedgerKept ==
  ASSUME NEW a \in Attempts, Moves(a), ~Commit(a)
  PROVE  UNCHANGED <<facts, corrections, idempotency, nextSequence, archived, outbox, clock>>
BY DEF Moves, Begins, Ends, Rollback, LockKey, Replays, AnswerFromRow, Accepts,
       AcceptNewKey, Allocate, Writes, AuditRejection, database

(* A lock id of a request is one the lock table knows.                     *)
LEMMA LockIdKnown ==
  ASSUME NEW r \in RequestSet
  PROVE  LockId(r) \in LockIds
BY DEF LockId, LockIds, RequestSet, Keys

-----------------------------------------------------------------------------
(* Every phase keeps the locks of the earlier ones.                        *)
LEMMA LocksStep == LedgerInvariant /\ [Next]_vars => LocksHeld'
<1> DEFINE Held(b) == /\ pc[b] # "idle" => request[b] \in RequestSet
                      /\ InTransaction(b) => request[b].owner /\ b \in shares
                      /\ HasKey(b) => keyHolder[LockId(request[b])] = b
                      /\ HasSequence(b) => seqHolder = b
<1> SUFFICES ASSUME LedgerInvariant, [Next]_vars PROVE LocksHeld'
  OBVIOUS
<1> USE DEF LedgerInvariant
<1>1. \A b \in Attempts : Held(b)
  BY DEF LocksHeld
<1>2. ASSUME NEW a \in Attempts, Moves(a), NEW b \in Attempts, b # a PROVE Held(b)'
  <2>1. request[b] \in RequestSet => LockId(request[b]) \in LockIds
    BY LockIdKnown
  <2> QED
    BY <1>1, <1>2, <2>1, OthersKept
    DEF InTransaction, HasKey, HasSequence, Recording, LockId
<1>3. ASSUME NEW a \in Attempts, Moves(a) PROVE Held(a)'
  <2>0. Held(a)
    BY <1>1
  <2>1. CASE Begins(a)
    BY <2>1 DEF Begins, InTransaction, HasKey, HasSequence, Recording, TypeOK
  <2>2. CASE Ends(a)
    BY <2>2 DEF Ends, InTransaction, HasKey, HasSequence, Recording, TypeOK
  <2>3. CASE LockKey(a)
    <3>1. LockId(request[a]) \in LockIds
      BY <2>0, <2>3, LockIdKnown DEF LockKey
    <3> QED
      BY <2>0, <2>3, <3>1 DEF LockKey, InTransaction, HasKey, HasSequence, Recording, TypeOK
  <2>4. CASE Replays(a)
    BY <2>0, <2>4 DEF Replays, AnswerFromRow, NoWrites, locks, InTransaction, HasKey,
                      HasSequence, Recording, TypeOK
  <2>5. CASE Accepts(a)
    BY <2>0, <2>5 DEF Accepts, AcceptNewKey, locks, InTransaction, HasKey,
                      HasSequence, Recording, TypeOK
  <2>6. CASE Allocate(a)
    BY <2>0, <2>6 DEF Allocate, InTransaction, HasKey, HasSequence, Recording, TypeOK
  <2>7. CASE Writes(a)
    BY <2>0, <2>7 DEF Writes, locks, InTransaction, HasKey, HasSequence, Recording, TypeOK
  <2>8. CASE Commit(a)
    BY <2>0, <2>8 DEF Commit, InTransaction, HasKey, HasSequence, Recording, TypeOK
  <2>9. CASE AuditRejection(a)
    BY <2>0, <2>9 DEF AuditRejection, InTransaction, HasKey, HasSequence, Recording, TypeOK
  <2> QED
    BY <1>3, <2>1, <2>2, <2>3, <2>4, <2>5, <2>6, <2>7, <2>8, <2>9 DEF Moves
<1>4. ASSUME ArchivePortfolio \/ Tick \/ UNCHANGED vars PROVE \A b \in Attempts : Held(b)'
  BY <1>1, <1>4 DEF ArchivePortfolio, Tick, vars, locks, InTransaction, HasKey,
                    HasSequence, Recording
<1>5. \A b \in Attempts : Held(b)'
  BY <1>2, <1>3, <1>4, NextCases
<1> QED
  BY <1>5 DEF LocksHeld

(* An attempt writes facts of its own.                                     *)
LEMMA CandidateWriters ==
  ASSUME NEW a \in Attempts
  PROVE  Candidates(a) # {} /\ \A f \in Candidates(a) : Writer(f) = a
<1>1. \A n, c : Writer(CommandFact(a, n, c)) = a
  BY DEF CommandFact, Writer
<1>2. \A o : Writer(Reversal(a, o)) = a
  BY DEF Reversal, Writer
<1> QED
  BY <1>1, <1>2 DEF Candidates

(* A phase that needs a lock no more has released it.                      *)
LEMMA ReleasedStep == LedgerInvariant /\ [Next]_vars => LocksReleased'
<1> DEFINE Owns(b) == /\ b \in shares => InTransaction(b)
                      /\ \A l \in LockIds :
                           keyHolder[l] = b => HasKey(b) /\ LockId(request[b]) = l
                      /\ seqHolder = b => HasSequence(b)
<1> SUFFICES ASSUME LedgerInvariant, [Next]_vars PROVE LocksReleased'
  OBVIOUS
<1> USE DEF LedgerInvariant
<1>0. \A b \in Attempts : b # NoAttempt
  BY AttemptsAssumption
<1>1. \A b \in Attempts : Owns(b)
  BY DEF LocksReleased
<1>2. ASSUME NEW a \in Attempts, Moves(a), NEW b \in Attempts, b # a PROVE Owns(b)'
  BY <1>1, <1>2, OthersKept DEF InTransaction, HasKey, HasSequence, Recording, LockId, LockIds
<1>3. ASSUME NEW a \in Attempts, Moves(a) PROVE Owns(a)'
  <2>0. Owns(a)
    BY <1>1
  <2>1. CASE Begins(a)
    BY <2>0, <2>1 DEF Begins, InTransaction, HasKey, HasSequence, Recording, LockIds, TypeOK
  <2>2. CASE Ends(a)
    BY <1>0, <2>2 DEF Ends, Rollback, ReleaseLocks, LockIds, TypeOK
  <2>3. CASE LockKey(a)
    BY <2>0, <2>3 DEF LockKey, InTransaction, HasKey, HasSequence, Recording, LockIds, TypeOK
  <2>4. CASE Replays(a)
    BY <2>0, <2>4 DEF Replays, AnswerFromRow, locks, InTransaction, HasKey, HasSequence,
                      Recording, LockIds, TypeOK
  <2>5. CASE Accepts(a)
    BY <2>0, <2>5 DEF Accepts, AcceptNewKey, locks, InTransaction, HasKey, HasSequence,
                      Recording, LockIds, TypeOK
  <2>6. CASE Allocate(a)
    BY <2>0, <2>6 DEF Allocate, InTransaction, HasKey, HasSequence, Recording, LockIds, TypeOK
  <2>7. CASE Writes(a)
    <3>1. pending'[a].facts # {}
      BY <2>7, CandidateWriters DEF Writes, AllWrites, TypeOK
    <3> QED
      BY <2>0, <2>7, <3>1 DEF Writes, locks, InTransaction, HasKey, HasSequence, Recording,
                              LockIds, TypeOK
  <2>8. CASE Commit(a)
    BY <1>0, <2>8 DEF Commit, ReleaseLocks, LockIds, TypeOK
  <2>9. CASE AuditRejection(a)
    BY <2>0, <2>9 DEF AuditRejection, locks, InTransaction, HasKey, HasSequence, Recording,
                      LockIds, TypeOK
  <2> QED
    BY <1>3, <2>1, <2>2, <2>3, <2>4, <2>5, <2>6, <2>7, <2>8, <2>9 DEF Moves
<1>4. ASSUME ArchivePortfolio \/ Tick \/ UNCHANGED vars PROVE \A b \in Attempts : Owns(b)'
  BY <1>1, <1>4 DEF ArchivePortfolio, Tick, vars, locks, InTransaction, HasKey,
                    HasSequence, Recording, LockIds
<1>5. \A b \in Attempts : Owns(b)'
  BY <1>2, <1>3, <1>4, NextCases
<1>6. TypeOK'
  BY TypeStep
<1> QED
  BY <1>5, <1>6 DEF LocksReleased, TypeOK

(* Pending writes appear with the write and go with the transaction.       *)
LEMMA PendingWritesStep == LedgerInvariant /\ [Next]_vars => PendingWrites'
<1> DEFINE Good(b) ==
      /\ pc[b] # "commit" => pending[b].facts = {}
      /\ pending[b].facts = {} =>
           pending[b].corrections = {} /\ pending[b].rows = {} /\ pending[b].events = <<>>
      /\ pc[b] = "commit" /\ pending[b].facts = {} => pending[b].expired = {}
      /\ \A f \in pending[b].facts : Writer(f) = b
      /\ outcome[b] \in {"success", "replay"} => pc[b] = "done"
<1> SUFFICES ASSUME LedgerInvariant, [Next]_vars PROVE PendingWrites'
  OBVIOUS
<1> USE DEF LedgerInvariant
<1>1. \A b \in Attempts : Good(b)
  BY DEF PendingWrites
<1>2. ASSUME NEW a \in Attempts, Moves(a), NEW b \in Attempts, b # a PROVE Good(b)'
  BY <1>1, <1>2, OthersKept DEF Writer
<1>3. ASSUME NEW a \in Attempts, Moves(a) PROVE Good(a)'
  <2>0. Good(a)
    BY <1>1
  <2>1. CASE Begins(a)
    BY <2>0, <2>1 DEF Begins, TypeOK, Writer
  <2>2. CASE Ends(a)
    BY <2>2 DEF Ends, Rollback, NoWrites, TypeOK, Errors
  <2>3. CASE LockKey(a)
    BY <2>0, <2>3 DEF LockKey, TypeOK, Writer
  <2>4. CASE Replays(a)
    BY <2>0, <2>4 DEF Replays, AnswerFromRow, NoWrites, TypeOK
  <2>5. CASE Accepts(a)
    BY <2>0, <2>5 DEF Accepts, AcceptNewKey, NoWrites, TypeOK
  <2>6. CASE Allocate(a)
    BY <2>0, <2>6 DEF Allocate, TypeOK, Writer
  <2>7. CASE Writes(a)
    <3>1. /\ AllWrites(a).facts # {}
          /\ \A f \in AllWrites(a).facts : Writer(f) = a
      BY CandidateWriters DEF AllWrites
    <3>2. pending'[a] = AllWrites(a) /\ pc'[a] = "commit" /\ outcome'[a] = outcome[a]
      BY <2>7 DEF Writes, TypeOK
    <3>3. pc[a] = "write"
      BY <2>7 DEF Writes
    <3> QED
      BY <2>0, <3>1, <3>2, <3>3 DEF Writer
  <2>8. CASE Commit(a)
    BY <2>0, <2>8 DEF Commit, NoWrites, TypeOK
  <2>9. CASE AuditRejection(a)
    BY <2>0, <2>9 DEF AuditRejection, TypeOK, Writer
  <2> QED
    BY <1>3, <2>1, <2>2, <2>3, <2>4, <2>5, <2>6, <2>7, <2>8, <2>9 DEF Moves
<1>4. ASSUME ArchivePortfolio \/ Tick \/ UNCHANGED vars PROVE \A b \in Attempts : Good(b)'
  BY <1>1, <1>4 DEF ArchivePortfolio, Tick, vars, Writer
<1>5. \A b \in Attempts : Good(b)'
  BY <1>2, <1>3, <1>4, NextCases
<1> QED
  BY <1>5 DEF PendingWrites

(* An attempt in its transaction keeps the portfolio from being archived.  *)
LEMMA ArchivalStep == LedgerInvariant /\ [Next]_vars => ArchivalSeen'
<1> DEFINE Good(b) == /\ b \in shares /\ archived => sawArchived[b]
                      /\ Accepted(b) => ~sawArchived[b]
<1> SUFFICES ASSUME LedgerInvariant, [Next]_vars PROVE ArchivalSeen'
  OBVIOUS
<1> USE DEF LedgerInvariant
<1>1. \A b \in Attempts : Good(b)
  BY DEF ArchivalSeen
<1>a. \A b \in Attempts : pc[b] # "commit" => pending[b].facts = {}
  BY DEF PendingWrites
<1>2. ASSUME NEW a \in Attempts, Moves(a), NEW b \in Attempts PROVE Good(b)'
  <2>1. UNCHANGED archived
    BY <1>2, LedgerKept DEF Commit
  <2>2. CASE b # a
    BY <1>1, <1>2, <2>1, <2>2, OthersKept DEF Accepted, HasSequence, Recording
  <2>3. CASE b = a
    <3> USE DEF Accepted, HasSequence, Recording, TypeOK
    <3>1. CASE Begins(a)
      BY <2>1, <2>3, <3>1 DEF Begins
    <3>2. CASE Ends(a)
      BY <2>3, <3>2 DEF Ends, Rollback, ReleaseLocks
    <3>3. CASE LockKey(a)
      BY <1>1, <2>1, <2>3, <3>3 DEF LockKey
    <3>4. CASE Replays(a)
      BY <1>1, <2>1, <2>3, <3>4 DEF Replays, AnswerFromRow, NoWrites, locks
    <3>5. CASE Accepts(a)
      BY <1>1, <2>1, <2>3, <3>5 DEF Accepts, AcceptNewKey, NoWrites, locks
    <3>6. CASE Allocate(a)
      BY <1>1, <2>1, <2>3, <3>6 DEF Allocate
    <3>7. CASE Writes(a)
      BY <1>1, <2>1, <2>3, <3>7 DEF Writes, locks
    <3>8. CASE Commit(a)
      BY <2>3, <3>8 DEF Commit, ReleaseLocks
    <3>9. CASE AuditRejection(a)
      BY <1>1, <2>1, <2>3, <3>9 DEF AuditRejection, locks
    <3> QED
      BY <1>2, <3>1, <3>2, <3>3, <3>4, <3>5, <3>6, <3>7, <3>8, <3>9 DEF Moves
  <2> QED
    BY <2>2, <2>3
<1>3. ASSUME ArchivePortfolio PROVE \A b \in Attempts : Good(b)'
  BY <1>1, <1>3 DEF ArchivePortfolio, RowUnlocked, locks, Accepted, HasSequence, Recording
<1>4. ASSUME Tick \/ UNCHANGED vars PROVE \A b \in Attempts : Good(b)'
  BY <1>1, <1>4 DEF Tick, vars, database, locks, Accepted, HasSequence, Recording
<1>5. \A b \in Attempts : Good(b)'
  BY <1>2, <1>3, <1>4, NextCases
<1> QED
  BY <1>5 DEF ArchivalSeen

-----------------------------------------------------------------------------
(* Two attempts with the sequence row are the same attempt.                *)
LEMMA OneWriter ==
  ASSUME LedgerInvariant, NEW a \in Attempts, NEW b \in Attempts,
         HasSequence(a), HasSequence(b)
  PROVE  a = b
BY DEF LedgerInvariant, LocksHeld

(* The facts a command writes take the sequences it allocated.             *)
LEMMA CandidateSequences ==
  ASSUME TypeOK, NEW a \in Attempts
  PROVE  \E f, g \in Candidates(a) :
           /\ Candidates(a) = {f, g}
           /\ f.seq = sequence[a]
           /\ f # g => g.seq = sequence[a] + 1
<1> DEFINE r == request[a]
<1>1. CASE IsCorrection(r)
  <2> DEFINE f == Reversal(a, Target(r))
             g == CommandFact(a, 2, r.target)
  <2>1. f.seq = sequence[a]
    BY DEF Reversal
  <2>2. g.seq = sequence[a] + 1
    BY DEF CommandFact, TypeOK
  <2> QED
    BY <1>1, <2>1, <2>2 DEF Candidates
<1>2. CASE ~IsCorrection(r)
  <2> DEFINE f == CommandFact(a, 1, NoFact)
  <2>1. f.seq = sequence[a]
    BY DEF CommandFact, TypeOK
  <2> QED
    BY <1>2, <2>1 DEF Candidates
<1> QED
  BY <1>1, <1>2

(* Pending facts keep the next sequences until they are committed.         *)
LEMMA SequencesStep == LedgerInvariant /\ [Next]_vars => PendingSequences'
<1> DEFINE Good(b) ==
      /\ pc[b] = "write" => sequence[b] = nextSequence
      /\ pending[b].facts # {} =>
           \E f, g \in pending[b].facts :
             /\ pending[b].facts = {f, g}
             /\ f.seq = nextSequence
             /\ f # g => g.seq = nextSequence + 1
<1> SUFFICES ASSUME LedgerInvariant, [Next]_vars PROVE PendingSequences'
  OBVIOUS
<1> USE DEF LedgerInvariant
<1>1. \A b \in Attempts : Good(b)
  BY DEF PendingSequences
<1>a. \A b \in Attempts : pc[b] # "commit" => pending[b].facts = {}
  BY DEF PendingWrites
<1>2. ASSUME NEW a \in Attempts, Moves(a), ~Commit(a), NEW b \in Attempts PROVE Good(b)'
  <2>1. UNCHANGED nextSequence
    BY <1>2, LedgerKept
  <2>2. CASE b # a
    BY <1>1, <1>2, <2>1, <2>2, OthersKept
  <2>3. CASE b = a
    <3> USE DEF TypeOK
    <3>1. CASE Begins(a)
      BY <1>1, <1>a, <2>1, <2>3, <3>1 DEF Begins
    <3>2. CASE Ends(a)
      BY <2>3, <3>2 DEF Ends, Rollback, NoWrites
    <3>3. CASE LockKey(a)
      BY <1>1, <1>a, <2>1, <2>3, <3>3 DEF LockKey
    <3>4. CASE Replays(a)
      BY <2>3, <3>4 DEF Replays, AnswerFromRow, NoWrites
    <3>5. CASE Accepts(a)
      BY <2>3, <3>5 DEF Accepts, AcceptNewKey, NoWrites
    <3>6. CASE Allocate(a)
      BY <1>1, <1>a, <2>1, <2>3, <3>6 DEF Allocate, AllocatedSequence
    <3>7. CASE Writes(a)
      <4>1. pending'[b].facts = Candidates(a) /\ pc'[b] = "commit"
        BY <2>3, <3>7 DEF Writes, AllWrites
      <4>2. sequence[a] = nextSequence
        BY <1>1, <3>7 DEF Writes
      <4>3. \E f, g \in Candidates(a) : /\ Candidates(a) = {f, g}
                                        /\ f.seq = nextSequence
                                        /\ f # g => g.seq = nextSequence + 1
        BY <4>2, CandidateSequences
      <4> QED
        BY <2>1, <2>3, <4>1, <4>3
    <3>8. CASE AuditRejection(a)
      BY <1>1, <1>a, <2>1, <2>3, <3>8 DEF AuditRejection
    <3> QED
      BY <1>2, <3>1, <3>2, <3>3, <3>4, <3>5, <3>6, <3>7, <3>8 DEF Moves
  <2> QED
    BY <2>2, <2>3
<1>3. ASSUME NEW a \in Attempts, Commit(a), NEW b \in Attempts PROVE Good(b)'
  <2>0. Moves(a)
    BY <1>3 DEF Moves
  <2>1. CASE b = a
    BY <1>3, <2>1 DEF Commit, NoWrites, TypeOK
  <2>2. CASE b # a /\ ~HasSequence(b)
    <3>1. pc[b] # "write" /\ pending[b].facts = {}
      BY <1>a, <2>2 DEF HasSequence, Recording
    <3> QED
      BY <2>0, <2>2, <3>1, OthersKept
  <2>3. CASE b # a /\ HasSequence(b)
    <3>1. pending[a].facts = {}
      BY <1>3, <2>3, OneWriter DEF HasSequence, Recording, Commit
    <3>2. nextSequence' = nextSequence
      BY <1>3, <3>1, FS_EmptySet DEF Commit, TypeOK
    <3> QED
      BY <1>1, <2>0, <2>3, <3>2, OthersKept
  <2> QED
    BY <2>1, <2>2, <2>3
<1>4. ASSUME ArchivePortfolio \/ Tick \/ UNCHANGED vars PROVE \A b \in Attempts : Good(b)'
  BY <1>1, <1>4 DEF ArchivePortfolio, Tick, vars, database
<1>5. \A b \in Attempts : Good(b)'
  BY <1>2, <1>3, <1>4, NextCases
<1> QED
  BY <1>5 DEF PendingSequences

(* A commit extends the numbering by the sequences of its facts.           *)
LEMMA GapFreeStep == LedgerInvariant /\ [Next]_vars => SequenceGapFree'
<1> SUFFICES ASSUME LedgerInvariant, [Next]_vars PROVE SequenceGapFree'
  OBVIOUS
<1> USE DEF LedgerInvariant
<1>0. nextSequence \in Nat \ {0}
  BY DEF TypeOK
<1>1. ASSUME NEW a \in Attempts, Commit(a) PROVE SequenceGapFree'
  <2>1. /\ facts' = facts \union pending[a].facts
        /\ nextSequence' = nextSequence + Cardinality(pending[a].facts)
    BY <1>1 DEF Commit
  <2>2. \A f \in facts : f.seq \in 1 .. nextSequence - 1
    BY DEF SequenceGapFree
  <2>3. CASE pending[a].facts = {}
    BY <1>0, <2>1, <2>3, FS_EmptySet DEF SequenceGapFree
  <2>4. ASSUME NEW f, pending[a].facts = {f}, f.seq = nextSequence,
               Cardinality(pending[a].facts) = 1
        PROVE  SequenceGapFree'
    <3>1. facts' = facts \union {f} /\ nextSequence' = nextSequence + 1
      BY <2>1, <2>4
    <3>2. {h.seq : h \in facts'} = {h.seq : h \in facts} \union {nextSequence}
      BY <2>4, <3>1
    <3>a. {h.seq : h \in facts} = 1 .. nextSequence - 1
      BY DEF SequenceGapFree
    <3>b. (1 .. nextSequence - 1) \union {nextSequence} = 1 .. (nextSequence + 1) - 1
      BY <1>0
    <3>3. {h.seq : h \in facts'} = 1 .. nextSequence' - 1
      BY <3>1, <3>2, <3>a, <3>b
    <3>4. \A h \in facts : h.seq # f.seq
      BY <1>0, <2>2, <2>4
    <3>5. \A h, k \in facts : h.seq = k.seq => h = k
      BY DEF SequenceGapFree
    <3>6. \A h, k \in facts' : h.seq = k.seq => h = k
      <4> HIDE DEF LedgerInvariant
      <4> QED
        BY <3>1, <3>4, <3>5
    <3> QED
      BY <3>3, <3>6 DEF SequenceGapFree
  <2>5. ASSUME NEW f, NEW g, pending[a].facts = {f, g}, f # g,
               f.seq = nextSequence, g.seq = nextSequence + 1,
               Cardinality(pending[a].facts) = 2
        PROVE  SequenceGapFree'
    <3>1. facts' = facts \union {f, g} /\ nextSequence' = nextSequence + 2
      BY <2>1, <2>5
    <3>2. {h.seq : h \in facts'} =
            {h.seq : h \in facts} \union {nextSequence, nextSequence + 1}
      BY <2>5, <3>1
    <3>a. {h.seq : h \in facts} = 1 .. nextSequence - 1
      BY DEF SequenceGapFree
    <3>b. (1 .. nextSequence - 1) \union {nextSequence, nextSequence + 1}
            = 1 .. (nextSequence + 2) - 1
      BY <1>0
    <3>3. {h.seq : h \in facts'} = 1 .. nextSequence' - 1
      BY <3>1, <3>2, <3>a, <3>b
    <3> QED
      BY <1>0, <2>2, <2>5, <3>1, <3>3 DEF SequenceGapFree
  <2> QED
    BY <2>3, <2>4, <2>5, PendingCount
<1>2. ASSUME UNCHANGED <<facts, nextSequence>> PROVE SequenceGapFree'
  BY <1>2 DEF SequenceGapFree
<1> QED
  BY <1>1, <1>2, LedgerKept, NextCases DEF ArchivePortfolio, Tick, vars, database

-----------------------------------------------------------------------------
(* The verdict on the rows an attempt reads is the verdict on the whole    *)
(* ledger: the balance of a fact depends on the facts of its asset only,   *)
(* and an asset no candidate names was valid before.                       *)
LEMMA PartialReplaySuffices ==
  ASSUME NEW a \in Attempts, NoNegativePosition,
         NEW C, ReplayLedger(ReplayRows(a, C), C) = "OK"
  PROVE  Overdrawn(facts \union C) = {}
<1> DEFINE read == ReplayRows(a, C) \union C
           all  == facts \union C
<1>1. Overdrawn(read) = {}
  BY DEF ReplayLedger
<1>2. read \subseteq all
  BY DEF ReplayRows
<1>3. ASSUME NEW f \in all, f.asset # NoAsset, f.quantity > 0
      PROVE  ~(Balance(f, AssetRows(all, f.asset)) < 0)
  <2>1. CASE \E c \in C : c.asset = f.asset
    <3>1. PICK c \in C : c.asset = f.asset
      BY <2>1
    <3>2. AssetRows(facts, f.asset) \subseteq ReplayRows(a, C)
      BY <1>3, <3>1 DEF ReplayRows, AssetRows
    <3>3. AssetRows(all, f.asset) = AssetRows(read, f.asset)
      BY <1>2, <3>2 DEF AssetRows
    <3>4. f \in read
      BY <3>2 DEF AssetRows
    <3> QED
      BY <1>1, <1>3, <3>3, <3>4 DEF Overdrawn
  <2>2. CASE ~\E c \in C : c.asset = f.asset
    <3>1. f \in facts
      BY <2>2
    <3>2. AssetRows(all, f.asset) = AssetRows(facts, f.asset)
      BY <2>2 DEF AssetRows
    <3> QED
      BY <1>3, <3>1, <3>2 DEF NoNegativePosition, Overdrawn
  <2> QED
    BY <2>1, <2>2
<1> HIDE DEF all
<1>4. Overdrawn(all) = {}
  BY <1>3 DEF Overdrawn
<1> QED
  BY <1>4 DEF all

(* What was validated under the sequence lock is still valid at commit.    *)
LEMMA ValidStep ==
  LedgerInvariant /\ [Next]_vars => PendingValid' /\ NoNegativePosition'
<1> SUFFICES ASSUME LedgerInvariant, [Next]_vars
             PROVE  PendingValid' /\ NoNegativePosition'
  OBVIOUS
<1> USE DEF LedgerInvariant
<1>a. \A b \in Attempts : pc[b] # "commit" => pending[b].facts = {}
  BY DEF PendingWrites
<1>1. ASSUME NEW a \in Attempts, Moves(a), ~Commit(a)
      PROVE  PendingValid' /\ NoNegativePosition'
  <2>1. UNCHANGED facts
    BY <1>1, LedgerKept
  <2>2. NoNegativePosition'
    BY <2>1 DEF NoNegativePosition
  <2>3. ASSUME NEW b \in Attempts, pc'[b] = "commit"
        PROVE  Overdrawn(facts \union pending'[b].facts) = {}
    <3>1. CASE b # a
      <4>1. pc'[b] = pc[b] /\ pending'[b] = pending[b]
        BY <1>1, <3>1, OthersKept
      <4> QED
        BY <2>3, <4>1 DEF PendingValid
    <3>2. CASE b = a
      <4> USE DEF TypeOK
      <4>1. Replays(a) \/ Writes(a)
        BY <1>1, <2>3, <3>2
        DEF Moves, Begins, Ends, LockKey, Accepts, AcceptNewKey, Allocate, AuditRejection
      <4>2. CASE Replays(a)
        <5>1. pending'[a].facts = {}
          BY <4>2 DEF Replays, AnswerFromRow, NoWrites
        <5>2. facts \union {} = facts
          OBVIOUS
        <5> QED
          BY <3>2, <5>1, <5>2 DEF NoNegativePosition
      <4>3. CASE Writes(a)
        <5>1. pending'[a].facts = Candidates(a)
          BY <4>3 DEF Writes, AllWrites
        <5>2. ReplayLedger(ReplayRows(a, Candidates(a)), Candidates(a)) = "OK"
          BY <4>3 DEF Writes, WriteError
        <5> QED
          BY <3>2, <5>1, <5>2, PartialReplaySuffices
      <4> QED
        BY <4>1, <4>2, <4>3
    <3> QED
      BY <3>1, <3>2
  <2> QED
    BY <2>1, <2>2, <2>3 DEF PendingValid
<1>2. ASSUME NEW a \in Attempts, Commit(a)
      PROVE  PendingValid' /\ NoNegativePosition'
  <2>0. Moves(a)
    BY <1>2 DEF Moves
  <2>1. facts' = facts \union pending[a].facts /\ pc[a] = "commit" /\ pc'[a] = "done"
    BY <1>2 DEF Commit, TypeOK
  <2>2. Overdrawn(facts') = {}
    BY <2>1 DEF PendingValid
  <2>3. ASSUME NEW b \in Attempts, pc'[b] = "commit"
        PROVE  Overdrawn(facts' \union pending'[b].facts) = {}
    <3>1. b # a /\ pc[b] = "commit" /\ pending'[b] = pending[b]
      BY <2>0, <2>1, <2>3, OthersKept
    <3>2. CASE pending[b].facts = {}
      <4>1. facts' \union {} = facts'
        OBVIOUS
      <4> QED
        BY <2>2, <3>1, <3>2, <4>1
    <3>3. CASE pending[b].facts # {}
      <4>1. pending[a].facts = {}
        BY <2>1, <3>1, <3>3, OneWriter DEF HasSequence, Recording
      <4>2. facts' = facts
        BY <2>1, <4>1
      <4> QED
        BY <3>1, <4>2 DEF PendingValid
    <3> QED
      BY <3>2, <3>3
  <2> QED
    BY <2>2, <2>3 DEF PendingValid, NoNegativePosition
<1>3. ASSUME ArchivePortfolio \/ Tick \/ UNCHANGED vars
      PROVE  PendingValid' /\ NoNegativePosition'
  BY <1>3 DEF ArchivePortfolio, Tick, vars, database, PendingValid, NoNegativePosition
<1> QED
  BY <1>1, <1>2, <1>3, NextCases

-----------------------------------------------------------------------------
(* The key an attempt works under is locked by it alone.                   *)
LEMMA OneKeyHolder ==
  ASSUME LocksHeld, NEW a \in Attempts, NEW b \in Attempts, HasKey(a), HasKey(b),
         LockId(request[a]) = LockId(request[b])
  PROVE  a = b
BY DEF LocksHeld

(* The rows of a key by its lock.                                          *)
LEMMA KeyRowsByLock ==
  ASSUME NEW r
  PROVE  KeyRows(r) = {row \in idempotency : LockId(row) = LockId(r)}
BY DEF KeyRows, LockId

(* A commit replaces the rows of its key by its own.                       *)
LEMMA RowsAfterCommit ==
  ASSUME LedgerInvariant, NEW a \in Attempts, Commit(a), NEW r
  PROVE  IF pending[a].facts # {} /\ LockId(r) = LockId(request[a])
         THEN {row \in idempotency' : LockId(row) = LockId(r)} = pending[a].rows
         ELSE {row \in idempotency' : LockId(row) = LockId(r)} = KeyRows(r)
<1> USE DEF LedgerInvariant
<1>1. idempotency' = (idempotency \ pending[a].expired) \union pending[a].rows
  BY DEF Commit
<1>2. pc[a] = "commit"
  BY DEF Commit
<1>3. CASE pending[a].facts = {}
  <2>1. pending[a].expired = {} /\ pending[a].rows = {}
    BY <1>2, <1>3 DEF PendingWrites
  <2> QED
    BY <1>1, <1>3, <2>1, KeyRowsByLock
<1>4. CASE pending[a].facts # {}
  <2>1. /\ pending[a].expired = KeyRows(request[a])
        /\ \A row \in pending[a].rows : LockId(row) = LockId(request[a])
    BY <1>2, <1>4 DEF RowsCoverFacts, Recording
  <2>2. pending[a].expired = {row \in idempotency : LockId(row) = LockId(request[a])}
    BY <2>1, KeyRowsByLock
  <2>3. KeyRows(r) = {row \in idempotency : LockId(row) = LockId(r)}
    BY KeyRowsByLock
  <2> QED
    BY <1>1, <1>4, <2>1, <2>2, <2>3
<1> QED
  BY <1>3, <1>4

(* A fact's key keeps a row at least as young as the fact, and the next    *)
(* fact of the key waits until that row has expired.                       *)
LEMMA CommittedRowsStep ==
  ASSUME LedgerInvariant, [Next]_vars
  PROVE  /\ AtMostOncePerKey'
         /\ \A f \in facts' :
              /\ pc'[Writer(f)] = "done"
              /\ \E row \in idempotency' :
                   /\ LockId(row) = LockId(request'[Writer(f)])
                   /\ f.createdAt <= row.completedAt
<1> USE DEF LedgerInvariant
<1>0. /\ \A f \in FactSet : Writer(f) \in Attempts /\ f.createdAt \in Nat
      /\ \A row \in RowSet : row.completedAt \in Nat
      /\ facts \subseteq FactSet /\ idempotency \subseteq RowSet
      /\ Retention \in Nat
  BY ClockAssumption DEF TypeOK, FactSet, FactIds, Writer, RowSet
<1>1. \A f \in facts :
        /\ pc[Writer(f)] = "done"
        /\ \E row \in idempotency :
             /\ LockId(row) = LockId(request[Writer(f)])
             /\ f.createdAt <= row.completedAt
  BY KeyRowsByLock DEF RowsCoverFacts
<1>2. ASSUME UNCHANGED <<facts, idempotency>>,
             \A f \in facts : /\ pc'[Writer(f)] = pc[Writer(f)]
                              /\ request'[Writer(f)] = request[Writer(f)]
      PROVE  /\ AtMostOncePerKey'
             /\ \A f \in facts' :
                  /\ pc'[Writer(f)] = "done"
                  /\ \E row \in idempotency' :
                       /\ LockId(row) = LockId(request'[Writer(f)])
                       /\ f.createdAt <= row.completedAt
  <2>1. AtMostOncePerKey'
    BY <1>2 DEF AtMostOncePerKey, Writer, LockId
  <2> QED
    BY <1>1, <1>2, <2>1
<1>3. ASSUME NEW a \in Attempts, Moves(a), ~Commit(a)
      PROVE  \A f \in facts : /\ pc'[Writer(f)] = pc[Writer(f)]
                              /\ request'[Writer(f)] = request[Writer(f)]
  <2>1. pc[a] # "done"
    BY <1>3 DEF Moves, Begins, Ends, LockKey, Replays, Accepts, Allocate, Writes,
                AuditRejection
  <2> QED
    BY <1>0, <1>1, <1>3, <2>1, OthersKept
<1>4. ASSUME NEW a \in Attempts, Commit(a)
      PROVE  /\ AtMostOncePerKey'
             /\ \A f \in facts' :
                  /\ pc'[Writer(f)] = "done"
                  /\ \E row \in idempotency' :
                       /\ LockId(row) = LockId(request'[Writer(f)])
                       /\ f.createdAt <= row.completedAt
  <2>0. Moves(a)
    BY <1>4 DEF Moves
  <2>1. /\ facts' = facts \union pending[a].facts
        /\ pc[a] = "commit" /\ pc'[a] = "done" /\ request' = request
    BY <1>4 DEF Commit, TypeOK
  <2>2. \A f \in facts : Writer(f) # a
    BY <1>1, <2>1
  <2>3. \A f \in pending[a].facts : Writer(f) = a /\ f \in FactSet
    BY DEF PendingWrites, TypeOK, WriteSet
  <2>4. \A f \in facts : \A g \in pending[a].facts :
          LockId(request[Writer(f)]) = LockId(request[a])
            => g.createdAt >= f.createdAt + Retention
    <3> SUFFICES ASSUME NEW f \in facts, NEW g \in pending[a].facts,
                        LockId(request[Writer(f)]) = LockId(request[a])
                 PROVE  g.createdAt >= f.createdAt + Retention
      OBVIOUS
    <3>1. PICK row \in idempotency : /\ LockId(row) = LockId(request[a])
                                     /\ f.createdAt <= row.completedAt
      BY <1>1
    <3>2. row \in KeyRows(request[a])
      BY <3>1, KeyRowsByLock
    <3>3. row.completedAt + Retention <= g.createdAt
      BY <2>1, <3>2 DEF RowsCoverFacts, Recording
    <3> QED
      BY <1>0, <2>3, <3>1, <3>3
  <2>5. AtMostOncePerKey'
    <3> SUFFICES ASSUME NEW f \in facts', NEW g \in facts', Writer(f) # Writer(g),
                        LockId(request[Writer(f)]) = LockId(request[Writer(g)])
                 PROVE  \/ f.createdAt >= g.createdAt + Retention
                        \/ g.createdAt >= f.createdAt + Retention
      BY <2>1 DEF AtMostOncePerKey, Writer, LockId
    <3>1. CASE f \in facts /\ g \in facts
      BY <3>1 DEF AtMostOncePerKey
    <3>2. CASE f \in facts /\ g \in pending[a].facts
      BY <2>3, <2>4, <3>2
    <3>3. CASE f \in pending[a].facts /\ g \in facts
      BY <2>3, <2>4, <3>3
    <3>4. CASE f \in pending[a].facts /\ g \in pending[a].facts
      BY <2>3, <3>4
    <3> QED
      BY <2>1, <3>1, <3>2, <3>3, <3>4
  <2>6. ASSUME NEW f \in facts'
        PROVE  /\ pc'[Writer(f)] = "done"
               /\ \E row \in idempotency' :
                    /\ LockId(row) = LockId(request[Writer(f)])
                    /\ f.createdAt <= row.completedAt
    <3>1. CASE pending[a].facts # {} /\ LockId(request[Writer(f)]) = LockId(request[a])
      <4>1. PICK row \in pending[a].rows : LockId(row) = LockId(request[a])
        BY <2>1, <3>1 DEF RowsCoverFacts, Recording
      <4>2. row \in idempotency'
        BY <1>4, <4>1 DEF Commit
      <4>3. PICK g \in pending[a].facts : TRUE
        BY <3>1
      <4>4. \A h \in pending[a].facts : row.completedAt = h.createdAt
        BY <2>1, <3>1, <4>1 DEF RowsCoverFacts, Recording
      <4>5. row.completedAt = g.createdAt
        BY <4>4
      <4>6. CASE f \in facts
        <5>1. g.createdAt >= f.createdAt + Retention
          BY <2>4, <3>1, <4>6
        <5>2. f.createdAt <= row.completedAt
          BY <1>0, <2>3, <4>5, <4>6, <5>1
        <5>3. pc'[Writer(f)] = "done"
          BY <1>0, <1>1, <2>0, <2>2, <4>6, OthersKept
        <5> QED
          BY <3>1, <4>1, <4>2, <5>2, <5>3
      <4>7. CASE f \in pending[a].facts
        BY <1>0, <2>1, <2>3, <4>1, <4>2, <4>4, <4>7
      <4> QED
        BY <2>1, <4>6, <4>7
    <3>2. CASE ~(pending[a].facts # {} /\ LockId(request[Writer(f)]) = LockId(request[a]))
      <4>1. f \in facts
        BY <2>1, <2>3, <3>2
      <4>2. PICK row \in KeyRows(request[Writer(f)]) : f.createdAt <= row.completedAt
        BY <4>1 DEF RowsCoverFacts
      <4>3. row \in idempotency' /\ LockId(row) = LockId(request[Writer(f)])
        BY <1>4, <3>2, <4>2, RowsAfterCommit
      <4>4. pc'[Writer(f)] = "done"
        BY <1>0, <1>1, <2>0, <2>2, <4>1, OthersKept
      <4> QED
        BY <4>2, <4>3, <4>4
    <3> QED
      BY <3>1, <3>2
  <2> QED
    BY <2>1, <2>5, <2>6
<1>5. ASSUME ArchivePortfolio \/ Tick \/ UNCHANGED vars
      PROVE  /\ UNCHANGED <<facts, idempotency>>
             /\ \A f \in facts : /\ pc'[Writer(f)] = pc[Writer(f)]
                                 /\ request'[Writer(f)] = request[Writer(f)]
  BY <1>5 DEF ArchivePortfolio, Tick, vars, database
<1> QED
  BY <1>2, <1>3, <1>4, <1>5, LedgerKept, NextCases

(* What a command that goes on knows of its key's rows stays true until it *)
(* commits.                                                                *)
LEMMA RowsStep == LedgerInvariant /\ [Next]_vars => RowsCoverFacts'
<1> DEFINE Waiting(b) ==
      pc[b] \in {"allocate", "write"} =>
        /\ pending[b].expired = KeyRows(request[b])
        /\ \A row \in KeyRows(request[b]) : row.completedAt + Retention <= clock
    Ready(b) ==
      Recording(b) =>
        /\ pending[b].expired = KeyRows(request[b])
        /\ \A f \in pending[b].facts :
             /\ \A row \in KeyRows(request[b]) :
                  row.completedAt + Retention <= f.createdAt
             /\ \A row \in pending[b].rows : row.completedAt = f.createdAt
        /\ \E row \in pending[b].rows : /\ pending[b].rows = {row}
                                        /\ LockId(row) = LockId(request[b])
<1> SUFFICES ASSUME LedgerInvariant, [Next]_vars PROVE RowsCoverFacts'
  OBVIOUS
<1> USE DEF LedgerInvariant
<1>0. /\ \A row \in idempotency : row.completedAt \in Nat
      /\ Retention \in Nat /\ clock \in Nat
  BY ClockAssumption DEF TypeOK, RowSet
<1>1. \A b \in Attempts : Waiting(b) /\ Ready(b)
  BY DEF RowsCoverFacts
<1>a. \A b \in Attempts : pc[b] # "commit" => pending[b].facts = {}
  BY DEF PendingWrites
<1>2. ASSUME NEW a \in Attempts, Moves(a), ~Commit(a), NEW b \in Attempts
      PROVE  Waiting(b)' /\ Ready(b)'
  <2>1. UNCHANGED <<idempotency, clock>>
    BY <1>2, LedgerKept
  <2>3. CASE b # a
    <3>1. /\ pc'[b] = pc[b] /\ pending'[b] = pending[b] /\ request'[b] = request[b]
      BY <1>2, <2>3, OthersKept
    <3>2. KeyRows(request[b])' = KeyRows(request[b])
      BY <2>1, <3>1 DEF KeyRows
    <3> QED
      BY <1>1, <2>1, <3>1, <3>2 DEF Recording, LockId
  <2>4. CASE b = a
    <3> USE DEF TypeOK
    <3>1. CASE Begins(a) \/ Ends(a) \/ LockKey(a) \/ AuditRejection(a)
      BY <2>4, <3>1 DEF Begins, Ends, LockKey, AuditRejection, Recording
    <3>2. CASE Replays(a)
      BY <2>4, <3>2 DEF Replays, AnswerFromRow, NoWrites, Recording
    <3>3. CASE Accepts(a)
      <4>1. /\ pc'[a] = "allocate" /\ request'[a] = request[a]
            /\ pending'[a].expired = KeyRows(request[a])
        BY <3>3 DEF Accepts, AcceptNewKey, NoWrites
      <4>2. \A row \in KeyRows(request[a]) : row.completedAt + Retention <= clock
        BY <1>0, <3>3 DEF Accepts, LiveRows, KeyRows
      <4>3. KeyRows(request[a])' = KeyRows(request[a])
        BY <2>1, <4>1 DEF KeyRows
      <4> QED
        BY <2>1, <2>4, <4>1, <4>2, <4>3 DEF Recording
    <3>4. CASE Allocate(a)
      <4>1. /\ pc[a] = "allocate" /\ pc'[a] = "write" /\ request'[a] = request[a]
            /\ pending'[a] = pending[a]
        BY <3>4 DEF Allocate
      <4>2. KeyRows(request[a])' = KeyRows(request[a])
        BY <2>1, <4>1 DEF KeyRows
      <4> QED
        BY <1>1, <2>1, <2>4, <4>1, <4>2 DEF Recording
    <3>5. CASE Writes(a)
      <4>1. /\ pc[a] = "write" /\ pc'[a] = "commit" /\ request'[a] = request[a]
            /\ pending'[a] = AllWrites(a)
        BY <3>5 DEF Writes
      <4>2. KeyRows(request[a])' = KeyRows(request[a])
        BY <2>1, <4>1 DEF KeyRows
      <4>3. /\ AllWrites(a).expired = KeyRows(request[a])
            /\ \A row \in KeyRows(request[a]) : row.completedAt + Retention <= clock
        BY <1>1, <4>1 DEF AllWrites
      <4>4. \A f \in AllWrites(a).facts : f.createdAt = clock
        <5>1. \A n, c : CommandFact(a, n, c).createdAt = clock
          BY DEF CommandFact
        <5>2. \A o : Reversal(a, o).createdAt = clock
          BY DEF Reversal
        <5> QED
          BY <5>1, <5>2 DEF AllWrites, Candidates
      <4>5. \E row \in AllWrites(a).rows : /\ AllWrites(a).rows = {row}
                                           /\ row.completedAt = clock
                                           /\ LockId(row) = LockId(request[a])
        BY DEF AllWrites, LockId
      <4> QED
        BY <2>4, <4>1, <4>2, <4>3, <4>4, <4>5 DEF Recording, LockId
    <3> QED
      BY <1>2, <3>1, <3>2, <3>3, <3>4, <3>5 DEF Moves
  <2> QED
    BY <2>3, <2>4
<1>3. ASSUME NEW a \in Attempts, Commit(a), NEW b \in Attempts
      PROVE  Waiting(b)' /\ Ready(b)'
  <2>0. Moves(a)
    BY <1>3 DEF Moves
  <2>1. CASE b = a
    BY <1>3, <2>1 DEF Commit, Recording, TypeOK
  <2>2. CASE b # a
    <3>1. /\ pc'[b] = pc[b] /\ pending'[b] = pending[b] /\ request'[b] = request[b]
          /\ clock' = clock
      BY <1>3, <2>0, <2>2, OthersKept DEF Commit
    <3>2. CASE pc[b] \in {"allocate", "write"} \/ Recording(b)
      <4>1. HasKey(a) /\ HasKey(b)
        BY <1>3, <3>2 DEF Commit, HasKey, Recording
      <4>2. LockId(request[a]) # LockId(request[b])
        BY <2>2, <4>1, OneKeyHolder
      <4>3. {row \in idempotency' : LockId(row) = LockId(request[b])} = KeyRows(request[b])
        BY <1>3, <4>2, RowsAfterCommit
      <4>4. KeyRows(request[b])' = KeyRows(request[b])
        BY <3>1, <4>3 DEF KeyRows, LockId
      <4> QED
        BY <1>1, <3>1, <4>4 DEF Recording, LockId
    <3>3. CASE ~(pc[b] \in {"allocate", "write"} \/ Recording(b))
      BY <3>1, <3>3 DEF Recording
    <3> QED
      BY <3>2, <3>3
  <2> QED
    BY <2>1, <2>2
<1>4. ASSUME ArchivePortfolio \/ Tick \/ UNCHANGED vars, NEW b \in Attempts
      PROVE  Waiting(b)' /\ Ready(b)'
  <2>1. /\ UNCHANGED <<idempotency, pc, pending, request>>
        /\ clock' \in Nat /\ clock <= clock'
    BY <1>0, <1>4 DEF ArchivePortfolio, Tick, vars, database
  <2>2. KeyRows(request[b])' = KeyRows(request[b])
    BY <2>1 DEF KeyRows
  <2>3. \A row \in KeyRows(request[b]) : row.completedAt \in Nat
    BY <1>0 DEF KeyRows
  <2> QED
    BY <1>0, <1>1, <2>1, <2>2, <2>3 DEF Recording, LockId
<1>5. \A b \in Attempts : Waiting(b)' /\ Ready(b)'
  BY <1>2, <1>3, <1>4, NextCases
<1>6. \A f \in facts' : /\ pc'[Writer(f)] = "done"
                        /\ \E row \in KeyRows(request[Writer(f)])' :
                             f.createdAt <= row.completedAt
  BY CommittedRowsStep DEF KeyRows, LockId
<1> QED
  BY <1>5, <1>6 DEF RowsCoverFacts, Writer

-----------------------------------------------------------------------------
(* A request is its owner's, its key and its fingerprint.                  *)
LEMMA RequestIdentity ==
  ASSUME NEW q \in RequestSet, NEW r \in RequestSet, q.owner, r.owner,
         LockId(q) = LockId(r), Fingerprint(q) = Fingerprint(r)
  PROVE  q = r
<1>1. q.scope = r.scope /\ q.key = r.key
  BY DEF LockId
<1>2. /\ q.target = r.target /\ q.kind = r.kind /\ q.asset = r.asset
      /\ q.quantity = r.quantity /\ q.effectiveAt = r.effectiveAt
  BY DEF Fingerprint
<1>3. q.owner = r.owner
  BY DEF RequestSet
<1> QED
  BY <1>1, <1>2, <1>3 DEF RequestSet

(* Answers given stay given: a move of one attempt never takes back the    *)
(* answer of a finished one.                                               *)
LEMMA AnswersKept ==
  ASSUME LedgerInvariant, NEW a \in Attempts, Moves(a),
         NEW b \in Attempts, outcome[b] \in {"success", "replay"}
  PROVE  /\ outcome'[b] = outcome[b] /\ request'[b] = request[b]
         /\ answer'[b] = answer[b] /\ facts \subseteq facts'
<1> USE DEF LedgerInvariant
<1>1. pc[b] = "done"
  BY DEF PendingWrites
<1>2. pc[a] # "done" \/ UNCHANGED <<outcome, request, answer>>
  BY DEF Moves, Begins, Ends, LockKey, Replays, Accepts, Allocate, Writes, Commit,
         AuditRejection
<1>3. facts \subseteq facts'
  BY LedgerKept DEF Commit
<1> QED
  BY <1>1, <1>2, <1>3, OthersKept

(* Rows and answers keep naming what an attempt committed.                 *)
LEMMA AnswersStep ==
  LedgerInvariant /\ [Next]_vars => RowsAreAnswers' /\ ReplayAnswersOriginal'
<1> DEFINE Traced(row) == \E b \in Attempts :
             /\ outcome[b] = "success" /\ request[b].owner
             /\ LockId(row) = LockId(request[b])
             /\ row.digest = Fingerprint(request[b])
             /\ row.primary = answer[b]
             /\ \E f \in facts : f.id = answer[b]
           Replaying(b) == pc[b] = "commit" /\ pending[b].facts = {}
           Ready(b) == Recording(b) =>
             /\ \E f \in pending[b].facts : f.id = answer[b]
             /\ \A row \in pending[b].rows :
                  row.digest = Fingerprint(request[b]) /\ row.primary = answer[b]
           Answered(b) == \E c \in Attempts : AnsweredBy(b, c)
           Good(b) == /\ Replaying(b) => Answered(b)
                      /\ outcome[b] = "replay" => Answered(b)
                      /\ Ready(b)
<1> SUFFICES ASSUME LedgerInvariant, [Next]_vars
             PROVE  RowsAreAnswers' /\ ReplayAnswersOriginal'
  OBVIOUS
<1> USE DEF LedgerInvariant
<1>1. /\ \A row \in idempotency : Traced(row)
      /\ \A b \in Attempts : Good(b)
  BY DEF RowsAreAnswers, ReplayAnswersOriginal, AnsweredBy
<1>a. \A b \in Attempts : pc[b] # "commit" => pending[b].facts = {}
  BY DEF PendingWrites
<1>2. ASSUME NEW a \in Attempts, Moves(a), NEW row, Traced(row) PROVE Traced(row)'
  BY <1>2, AnswersKept DEF LockId, Fingerprint
<1>3. ASSUME NEW a \in Attempts, Moves(a), NEW b \in Attempts, Answered(b),
             request'[b] = request[b], answer'[b] = answer[b]
      PROVE  Answered(b)'
  <2>1. PICK c \in Attempts : AnsweredBy(b, c)
    BY <1>3
  <2>2. AnsweredBy(b, c)'
    BY <1>3, <2>1, AnswersKept DEF AnsweredBy
  <2> QED
    BY <2>2
<1>4. ASSUME NEW a \in Attempts, Moves(a), NEW b \in Attempts, b # a PROVE Good(b)'
  BY <1>1, <1>3, <1>4, OthersKept DEF Recording, Fingerprint
<1>5. ASSUME NEW a \in Attempts, Moves(a) PROVE Good(a)'
  <2>0. Good(a)
    BY <1>1
  <2> USE DEF TypeOK
  <2>1. CASE Begins(a)
    <3>1. outcome'[a] # "replay"
      BY <2>1 DEF Begins, PendingWrites
    <3> QED
      BY <2>1, <3>1 DEF Begins, Recording
  <2>2. CASE Ends(a)
    BY <2>2 DEF Ends, Rollback, Errors, Recording
  <2>3. CASE LockKey(a) \/ Allocate(a) \/ AuditRejection(a)
    <3>1. /\ pc'[a] # "commit" /\ pc[a] # "done" /\ outcome'[a] = outcome[a]
      BY <2>3 DEF LockKey, Allocate, AuditRejection
    <3>2. outcome[a] # "replay"
      BY <3>1 DEF PendingWrites
    <3> QED
      BY <3>1, <3>2 DEF Recording
  <2>4. CASE Accepts(a)
    <3>1. /\ pc'[a] # "commit" /\ pc[a] # "done" /\ outcome'[a] = outcome[a]
      BY <2>4 DEF Accepts, AcceptNewKey
    <3>2. outcome[a] # "replay"
      BY <3>1 DEF PendingWrites
    <3> QED
      BY <3>1, <3>2 DEF Recording
  <2>5. CASE Replays(a)
    <3>1. PICK row \in LiveRows(request[a]) :
            /\ pc[a] = "lookup"
            /\ row.digest = Fingerprint(request[a])
            /\ AnswerFromRow(a, row)
            /\ UNCHANGED <<request, sawArchived>>
      BY <2>5 DEF Replays
    <3>2. row \in idempotency /\ LockId(row) = LockId(request[a])
      BY DEF LiveRows, KeyRows, LockId
    <3>3. PICK b \in Attempts :
            /\ outcome[b] = "success" /\ request[b].owner
            /\ LockId(row) = LockId(request[b])
            /\ row.digest = Fingerprint(request[b])
            /\ row.primary = answer[b]
            /\ \E f \in facts : f.id = answer[b]
      BY <1>1, <3>2
    <3>4. pc[b] = "done"
      BY <3>3 DEF PendingWrites
    <3>5. request[a] \in RequestSet /\ request[a].owner /\ request[b] \in RequestSet
      BY <3>1, <3>4 DEF LocksHeld, InTransaction
    <3>6. request[b] = request[a]
      BY <3>1, <3>2, <3>3, <3>5, RequestIdentity
    <3>7. b # a
      BY <3>1, <3>4
    <3>8. /\ answer'[a] = row.primary /\ answer'[b] = answer[b]
          /\ UNCHANGED <<outcome, request, facts>>
          /\ pending'[a].facts = {}
      BY <3>1, <3>7 DEF AnswerFromRow, NoWrites, database
    <3>9. AnsweredBy(a, b)'
      BY <3>3, <3>6, <3>8 DEF AnsweredBy
    <3> QED
      BY <3>8, <3>9 DEF Recording
  <2>6. CASE Writes(a)
    <3>1. /\ pc[a] = "write" /\ pending'[a] = AllWrites(a) /\ answer'[a] = PrimaryFact(a)
          /\ outcome'[a] = outcome[a] /\ request'[a] = request[a]
      BY <2>6 DEF Writes
    <3>2. outcome[a] # "replay"
      BY <3>1 DEF PendingWrites
    <3>3. \E f \in AllWrites(a).facts : f.id = PrimaryFact(a)
      BY DEF AllWrites, Candidates, CommandFact, PrimaryFact
    <3>4. \A row \in AllWrites(a).rows :
            row.digest = Fingerprint(request[a]) /\ row.primary = PrimaryFact(a)
      BY DEF AllWrites
    <3>5. Fingerprint(request[a])' = Fingerprint(request[a])
      BY <3>1 DEF Fingerprint
    <3> QED
      BY <3>1, <3>2, <3>3, <3>4, <3>5
  <2>7. CASE Commit(a)
    <3>1. /\ pc[a] = "commit" /\ pc'[a] = "done"
          /\ request'[a] = request[a] /\ answer'[a] = answer[a]
          /\ outcome'[a] = IF pending[a].facts = {} THEN "replay" ELSE "success"
      BY <2>7 DEF Commit
    <3> QED
      BY <1>3, <1>5, <2>0, <3>1 DEF Recording
  <2> QED
    BY <1>5, <2>1, <2>2, <2>3, <2>4, <2>5, <2>6, <2>7 DEF Moves
<1>6. ASSUME NEW a \in Attempts, Moves(a) PROVE \A row \in idempotency' : Traced(row)'
  <2>1. CASE ~Commit(a)
    BY <1>1, <1>2, <1>6, <2>1, LedgerKept
  <2>2. CASE Commit(a)
    <3>1. ASSUME NEW row \in pending[a].rows PROVE Traced(row)'
      <4>1. /\ pc[a] = "commit"
            /\ request' = request /\ answer' = answer
            /\ facts' = facts \union pending[a].facts
            /\ outcome'[a] = IF pending[a].facts = {} THEN "replay" ELSE "success"
        BY <2>2 DEF Commit, TypeOK
      <4>2. pending[a].facts # {}
        BY <3>1 DEF PendingWrites
      <4>3. Recording(a)
        BY <4>1, <4>2 DEF Recording
      <4>4. /\ \E f \in pending[a].facts : f.id = answer[a]
            /\ row.digest = Fingerprint(request[a]) /\ row.primary = answer[a]
        BY <1>1, <3>1, <4>3
      <4>5. LockId(row) = LockId(request[a])
        BY <3>1, <4>3 DEF RowsCoverFacts
      <4>6. request[a].owner
        BY <4>1 DEF LocksHeld, InTransaction
      <4> QED
        BY <4>1, <4>2, <4>4, <4>5, <4>6 DEF LockId, Fingerprint
    <3>2. idempotency' = (idempotency \ pending[a].expired) \union pending[a].rows
      BY <2>2 DEF Commit
    <3> QED
      BY <1>1, <1>2, <1>6, <3>1, <3>2
  <2> QED
    BY <2>1, <2>2
<1>7. ASSUME ArchivePortfolio \/ Tick \/ UNCHANGED vars
      PROVE  /\ \A row \in idempotency' : Traced(row)'
             /\ \A b \in Attempts : Good(b)'
  <2>1. UNCHANGED <<facts, idempotency, pc, request, pending, answer, outcome>>
    BY <1>7 DEF ArchivePortfolio, Tick, vars, database
  <2> QED
    BY <1>1, <2>1 DEF Recording, AnsweredBy, LockId, Fingerprint
<1>8. /\ \A row \in idempotency' : Traced(row)'
      /\ \A b \in Attempts : Good(b)'
  BY <1>4, <1>5, <1>6, <1>7, NextCases
<1> QED
  BY <1>8 DEF RowsAreAnswers, ReplayAnswersOriginal, AnsweredBy

-----------------------------------------------------------------------------
(* Every fact was written by an attempt that has ended.                    *)
LEMMA WritersEnded ==
  ASSUME LedgerInvariant, NEW a \in Attempts, pc[a] # "done"
  PROVE  \A f \in facts : Writer(f) # a
BY DEF LedgerInvariant, RowsCoverFacts

(* What a commit leaves in the tables, of its attempt and of the others.   *)
LEMMA CommitEvidence ==
  ASSUME LedgerInvariant, NEW a \in Attempts, Commit(a)
  PROVE  /\ FactsOf(a)' = pending[a].facts
         /\ AuditsOf(a)' = pending[a].audits
         /\ EventsOf(a)' = IF pending[a].facts = {} THEN {} ELSE {Len(outbox) + 1}
         /\ \A b \in Attempts \ {a} : /\ FactsOf(b)' = FactsOf(b)
                                      /\ EventsOf(b)' = EventsOf(b)
                                      /\ AuditsOf(b)' = AuditsOf(b)
<1> USE DEF LedgerInvariant
<1>1. /\ pc[a] = "commit"
      /\ facts' = facts \union pending[a].facts
      /\ audits' = audits \union pending[a].audits
      /\ outbox' = outbox \o pending[a].events
  BY DEF Commit
<1>2. FactsOf(a) = {} /\ AuditsOf(a) = {} /\ EventsOf(a) = {}
  BY <1>1 DEF PendingEvidence
<1>3. \A f \in pending[a].facts : Writer(f) = a
  BY DEF PendingWrites
<1>4. \A x \in pending[a].audits : x.by = a
  BY <1>1 DEF PendingEvidence, Recording
<1>5. FactsOf(a)' = pending[a].facts
  BY <1>1, <1>2, <1>3 DEF FactsOf, Writer
<1>6. AuditsOf(a)' = pending[a].audits
  BY <1>1, <1>2, <1>4 DEF AuditsOf
<1>7. \A b \in Attempts \ {a} : FactsOf(b)' = FactsOf(b) /\ AuditsOf(b)' = AuditsOf(b)
  BY <1>1, <1>3, <1>4 DEF FactsOf, AuditsOf, Writer
<1>8. CASE pending[a].facts = {}
  <2>0. outbox \in Seq(EventSet) /\ pending[a].events = <<>>
    BY <1>8 DEF PendingWrites, TypeOK
  <2>1. outbox' = outbox
    BY <1>1, <2>0
  <2>2. \A b \in Attempts : EventsOf(b)' = EventsOf(b)
    BY <2>1 DEF EventsOf
  <2> QED
    BY <1>2, <1>5, <1>6, <1>7, <1>8, <2>2
<1>9. CASE pending[a].facts # {}
  <2>1. PICK e \in EventSet : pending[a].events = <<e>> /\ e.by = a
    BY <1>1, <1>9 DEF PendingEvidence, Recording
  <2>2. outbox' = Append(outbox, e) /\ outbox \in Seq(EventSet)
    BY <1>1, <2>1 DEF TypeOK
  <2>3. /\ DOMAIN outbox' = 1 .. Len(outbox) + 1
        /\ DOMAIN outbox = 1 .. Len(outbox)
        /\ Len(outbox) \in Nat
        /\ \A i \in 1 .. Len(outbox) : outbox'[i] = outbox[i]
        /\ outbox'[Len(outbox) + 1] = e
    BY <2>2
  <2>4. EventsOf(a)' = {Len(outbox) + 1}
    <3>1. \A i \in 1 .. Len(outbox) : outbox'[i].by # a
      BY <1>2, <2>3 DEF EventsOf
    <3>2. 1 .. Len(outbox) + 1 = (1 .. Len(outbox)) \union {Len(outbox) + 1}
      BY <2>3
    <3> QED
      BY <2>1, <2>3, <3>1, <3>2 DEF EventsOf
  <2>5. \A b \in Attempts \ {a} : EventsOf(b)' = EventsOf(b)
    <3>1. 1 .. Len(outbox) + 1 = (1 .. Len(outbox)) \union {Len(outbox) + 1}
      BY <2>3
    <3> QED
      BY <2>1, <2>3, <3>1 DEF EventsOf
  <2> QED
    BY <1>5, <1>6, <1>7, <1>9, <2>4, <2>5
<1> QED
  BY <1>8, <1>9

(* Only a commit and the audit of a rejection leave evidence.              *)
LEMMA EvidenceKept ==
  ASSUME NEW a \in Attempts, Moves(a), ~Commit(a)
  PROVE  \A b \in Attempts : /\ FactsOf(b)' = FactsOf(b)
                             /\ EventsOf(b)' = EventsOf(b)
                             /\ ~AuditRejection(a) \/ b # a => AuditsOf(b)' = AuditsOf(b)
<1>1. \A b \in Attempts : FactsOf(b)' = FactsOf(b) /\ EventsOf(b)' = EventsOf(b)
  <2>1. UNCHANGED <<facts, outbox>>
    BY LedgerKept
  <2> QED
    BY <2>1 DEF FactsOf, EventsOf, Writer
<1>2. CASE ~AuditRejection(a)
  <2>1. UNCHANGED audits
    BY <1>2 DEF Moves, Begins, Ends, Rollback, LockKey, Replays, AnswerFromRow, Accepts,
       AcceptNewKey, Allocate, Writes, database
  <2> QED
    BY <1>1, <2>1 DEF AuditsOf
<1>3. CASE AuditRejection(a)
  <2> DEFINE x == [by |-> a, action |-> RejectionAction(request[a], outcome[a])]
  <2>1. audits' = audits \union {x} /\ x.by = a
    BY <1>3 DEF AuditRejection
  <2> HIDE DEF x
  <2> QED
    BY <1>1, <1>3, <2>1 DEF AuditsOf
<1> QED
  BY <1>2, <1>3

(* What is pending stays the evidence of what it will have done.           *)
LEMMA PendingEvidenceStep == LedgerInvariant /\ [Next]_vars => PendingEvidence'
<1> DEFINE Silent(b) == pc[b] # "done" =>
                          FactsOf(b) = {} /\ EventsOf(b) = {} /\ AuditsOf(b) = {}
           Ready(b) ==
             /\ pc[b] = "commit" /\ pending[b].facts = {} =>
                  pending[b].audits = {[by |-> b, action |-> "transaction_idempotent_replay"]}
             /\ Recording(b) =>
                  /\ pending[b].audits = {[by |-> b, action |-> x] : x \in SuccessActions(request[b])}
                  /\ \E e \in EventSet : pending[b].events = <<e>> /\ e.by = b
           Open(b) ==
             /\ pc[b] \notin {"audit_rejection", "done"} => outcome[b] = "none"
             /\ pc[b] = "audit_rejection" => outcome[b] \in Errors
<1> SUFFICES ASSUME LedgerInvariant, [Next]_vars PROVE PendingEvidence'
  OBVIOUS
<1> USE DEF LedgerInvariant
<1>1. \A b \in Attempts : Silent(b) /\ Ready(b) /\ Open(b)
  BY DEF PendingEvidence
<1>a. \A b \in Attempts : pc[b] # "commit" => pending[b].facts = {}
  BY DEF PendingWrites
<1>2. ASSUME NEW a \in Attempts, Moves(a), NEW b \in Attempts, b # a
      PROVE  Silent(b)' /\ Ready(b)' /\ Open(b)'
  <2>1. /\ FactsOf(b)' = FactsOf(b) /\ EventsOf(b)' = EventsOf(b)
        /\ AuditsOf(b)' = AuditsOf(b)
    BY <1>2, CommitEvidence, EvidenceKept
  <2>2. /\ pc'[b] = pc[b] /\ request'[b] = request[b] /\ outcome'[b] = outcome[b]
        /\ pending'[b] = pending[b]
    BY <1>2, OthersKept
  <2>3. Silent(b)' /\ Open(b)'
    BY <1>1, <2>1, <2>2
  <2>4. Ready(b)'
    BY <1>1, <2>2 DEF Recording, SuccessActions, IsCorrection
  <2> QED
    BY <2>3, <2>4
<1>3. ASSUME NEW a \in Attempts, Moves(a) PROVE Silent(a)' /\ Ready(a)' /\ Open(a)'
  <2>0. Silent(a) /\ Ready(a) /\ Open(a)
    BY <1>1
  <2> USE DEF TypeOK
  <2>1. CASE Commit(a) \/ AuditRejection(a)
    BY <2>1 DEF Commit, AuditRejection, Recording
  <2>2. CASE ~Commit(a) /\ ~AuditRejection(a)
    <3>1. /\ FactsOf(a)' = FactsOf(a) /\ EventsOf(a)' = EventsOf(a)
          /\ AuditsOf(a)' = AuditsOf(a)
      BY <1>3, <2>2, EvidenceKept
    <3>2. CASE Begins(a)
      BY <2>0, <3>1, <3>2 DEF Begins, Recording
    <3>3. CASE Ends(a)
      BY <2>0, <3>1, <3>3 DEF Ends, Rollback, Recording
    <3>4. CASE LockKey(a) \/ Allocate(a)
      BY <2>0, <3>1, <3>4 DEF LockKey, Allocate, Recording
    <3>5. CASE Accepts(a)
      BY <2>0, <3>1, <3>5 DEF Accepts, AcceptNewKey, Recording
    <3>6. CASE Replays(a)
      BY <2>0, <3>1, <3>6 DEF Replays, AnswerFromRow, NoWrites, Recording
    <3>7. CASE Writes(a)
      <4>1. /\ pc[a] = "write" /\ pending'[a] = AllWrites(a) /\ pc'[a] = "commit"
            /\ outcome'[a] = outcome[a] /\ request'[a] = request[a]
        BY <3>7 DEF Writes
      <4>2. Silent(a)' /\ Open(a)'
        BY <2>0, <3>1, <4>1
      <4>3. AllWrites(a).facts # {}
        BY CandidateWriters DEF AllWrites
      <4>4. AllWrites(a).audits = {[by |-> a, action |-> x] : x \in SuccessActions(request[a])}
        BY DEF AllWrites
      <4>5. \E e \in EventSet : AllWrites(a).events = <<e>> /\ e.by = a
        <5>1. \A t \in EventTypes : [by |-> a, type |-> t] \in EventSet
          BY DEF EventSet
        <5>2. \E t \in EventTypes : AllWrites(a).events = <<[by |-> a, type |-> t]>>
          BY DEF AllWrites, EventTypes
        <5> QED
          BY <5>1, <5>2
      <4>6. SuccessActions(request[a])' = SuccessActions(request[a])
        BY <4>1 DEF SuccessActions, IsCorrection
      <4> QED
        BY <4>1, <4>2, <4>3, <4>4, <4>5, <4>6
    <3> QED
      BY <1>3, <2>2, <3>2, <3>3, <3>4, <3>5, <3>6, <3>7 DEF Moves
  <2> QED
    BY <2>1, <2>2
<1>4. ASSUME ArchivePortfolio \/ Tick \/ UNCHANGED vars, NEW b \in Attempts
      PROVE  Silent(b)' /\ Ready(b)' /\ Open(b)'
  <2>1. UNCHANGED <<pc, facts, outbox, audits, pending, request, outcome>>
    BY <1>4 DEF ArchivePortfolio, Tick, vars, database
  <2>2. /\ FactsOf(b)' = FactsOf(b) /\ EventsOf(b)' = EventsOf(b)
        /\ AuditsOf(b)' = AuditsOf(b)
    BY <2>1 DEF FactsOf, EventsOf, AuditsOf, Writer
  <2>3. Silent(b)' /\ Open(b)'
    BY <1>1, <2>1, <2>2
  <2>4. Ready(b)'
    BY <1>1, <2>1 DEF Recording, SuccessActions, IsCorrection
  <2> QED
    BY <2>3, <2>4
<1>5. \A b \in Attempts : Silent(b)' /\ Ready(b)' /\ Open(b)'
  BY <1>2, <1>3, <1>4, NextCases
<1> QED
  BY <1>5 DEF PendingEvidence

(* The evidence of an attempt appears with its facts and stays.            *)
LEMMA EvidenceStep == LedgerInvariant /\ [Next]_vars => EvidenceMatchesFacts'
<1> DEFINE Said(b) == {x.action : x \in AuditsOf(b)}
           Good(b) ==
             IF outcome[b] = "success"
             THEN /\ FactsOf(b) # {}
                  /\ Cardinality(EventsOf(b)) = 1
                  /\ Said(b) = SuccessActions(request[b])
             ELSE /\ FactsOf(b) = {} /\ EventsOf(b) = {}
                  /\ outcome[b] = "replay" => Said(b) = {"transaction_idempotent_replay"}
                  /\ outcome[b] \notin {"replay"} \union Errors => Said(b) = {}
                  /\ outcome[b] \in Errors =>
                       Said(b) \subseteq {RejectionAction(request[b], outcome[b])}
           Same(b) == /\ FactsOf(b)' = FactsOf(b) /\ EventsOf(b)' = EventsOf(b)
                      /\ AuditsOf(b)' = AuditsOf(b)
<1> SUFFICES ASSUME LedgerInvariant, [Next]_vars PROVE EvidenceMatchesFacts'
  OBVIOUS
<1> USE DEF LedgerInvariant
<1>1. \A b \in Attempts : Good(b)
  BY DEF EvidenceMatchesFacts
<1>2. ASSUME NEW b \in Attempts, Same(b), request'[b] = request[b], outcome'[b] = outcome[b]
      PROVE  Good(b)'
  BY <1>1, <1>2 DEF SuccessActions, RejectionAction, IsCorrection
<1>3. ASSUME NEW b \in Attempts, Same(b), FactsOf(b) = {}, EventsOf(b) = {},
             AuditsOf(b) = {}, outcome'[b] \notin {"success", "replay"}
      PROVE  Good(b)'
  BY <1>3
<1>4. ASSUME NEW a \in Attempts, Moves(a), NEW b \in Attempts, b # a PROVE Good(b)'
  <2>1. Same(b)
    BY <1>4, CommitEvidence, EvidenceKept
  <2>2. request'[b] = request[b] /\ outcome'[b] = outcome[b]
    BY <1>4, OthersKept
  <2> HIDE DEF Good, Same
  <2> QED
    BY <1>2, <2>1, <2>2
<1>5. ASSUME NEW a \in Attempts, Moves(a) PROVE Good(a)'
  <2> USE DEF TypeOK
  <2>0. "replay" \notin Errors /\ "success" \notin Errors
    BY DEF Errors
  <2>1. CASE Commit(a)
    <3>1. /\ FactsOf(a)' = pending[a].facts
          /\ AuditsOf(a)' = pending[a].audits
          /\ EventsOf(a)' = IF pending[a].facts = {} THEN {} ELSE {Len(outbox) + 1}
      BY <2>1, CommitEvidence
    <3>2. /\ pc[a] = "commit"
          /\ outcome'[a] = IF pending[a].facts = {} THEN "replay" ELSE "success"
          /\ request'[a] = request[a]
      BY <2>1 DEF Commit
    <3>3. CASE pending[a].facts = {}
      <4>1. pending[a].audits = {[by |-> a, action |-> "transaction_idempotent_replay"]}
        BY <3>2, <3>3 DEF PendingEvidence
      <4>2. Said(a)' = {"transaction_idempotent_replay"}
        BY <3>1, <4>1
      <4> QED
        BY <2>0, <3>1, <3>2, <3>3, <4>2
    <3>4. CASE pending[a].facts # {}
      <4>1. pending[a].audits = {[by |-> a, action |-> x] : x \in SuccessActions(request[a])}
        BY <3>2, <3>4 DEF PendingEvidence, Recording
      <4>2. Said(a)' = SuccessActions(request[a])
        <5>1. Said(a)' = {x.action : x \in pending[a].audits}
          BY <3>1
        <5>2. \A x \in pending[a].audits : x.action \in SuccessActions(request[a])
          BY <4>1
        <5>3. ASSUME NEW y \in SuccessActions(request[a])
              PROVE  \E x \in pending[a].audits : x.action = y
          <6>1. [by |-> a, action |-> y] \in pending[a].audits
            BY <4>1
          <6> QED
            BY <6>1
        <5> DEFINE evidence == pending[a].audits
                   said     == SuccessActions(request[a])
        <5> HIDE DEF Said, evidence, said
        <5>4. {x.action : x \in evidence} = said
          BY <5>2, <5>3 DEF evidence, said
        <5> QED
          BY <5>1, <5>4 DEF evidence, said
      <4>3. SuccessActions(request[a])' = SuccessActions(request[a])
        BY <3>2 DEF SuccessActions, IsCorrection
      <4>4. Cardinality({Len(outbox) + 1}) = 1
        BY FS_Singleton
      <4> QED
        BY <3>1, <3>2, <3>4, <4>2, <4>3, <4>4
    <3> QED
      BY <3>3, <3>4
  <2>2. CASE AuditRejection(a)
    <3> DEFINE x == [by |-> a, action |-> RejectionAction(request[a], outcome[a])]
    <3>1. /\ pc[a] = "audit_rejection" /\ audits' = audits \union {x}
          /\ request'[a] = request[a] /\ outcome'[a] = outcome[a]
      BY <2>2 DEF AuditRejection
    <3>2. /\ FactsOf(a) = {} /\ EventsOf(a) = {} /\ AuditsOf(a) = {}
          /\ outcome[a] \in Errors
      BY <3>1 DEF PendingEvidence
    <3>3. FactsOf(a)' = {} /\ EventsOf(a)' = {}
      BY <1>5, <2>2, <3>1, <3>2, EvidenceKept DEF Commit
    <3>4. AuditsOf(a)' = {x}
      BY <3>1, <3>2 DEF AuditsOf
    <3>5. Said(a)' = {RejectionAction(request[a], outcome[a])}
      BY <3>4
    <3>6. RejectionAction(request[a], outcome[a])' = RejectionAction(request[a], outcome[a])
      BY <3>1 DEF RejectionAction, IsCorrection
    <3> HIDE DEF Said, x
    <3> QED
      BY <2>0, <3>1, <3>2, <3>3, <3>5, <3>6
  <2>3. CASE ~Commit(a) /\ ~AuditRejection(a)
    <3>1. Same(a)
      BY <1>5, <2>3, EvidenceKept
    <3>2. pc[a] # "done"
      BY <1>5, <2>3
      DEF Moves, Begins, Ends, LockKey, Replays, Accepts, Allocate, Writes
    <3>3. FactsOf(a) = {} /\ EventsOf(a) = {} /\ AuditsOf(a) = {}
      BY <3>2 DEF PendingEvidence
    <3>4. outcome[a] \notin {"success", "replay"}
      BY <3>2 DEF PendingWrites
    <3>5. CASE Ends(a)
      <4>1. outcome'[a] \in Errors \union {"aborted"}
        BY <3>5 DEF Ends, Rollback
      <4> QED
        BY <1>3, <2>0, <3>1, <3>3, <4>1
    <3>6. CASE ~Ends(a)
      <4>1. outcome'[a] = outcome[a]
        BY <1>5, <2>3, <3>6
        DEF Moves, Begins, LockKey, Replays, AnswerFromRow, Accepts, AcceptNewKey,
            Allocate, Writes
      <4> QED
        BY <1>3, <3>1, <3>3, <3>4, <4>1
    <3> QED
      BY <3>5, <3>6
  <2> QED
    BY <2>1, <2>2, <2>3
<1>6. ASSUME ArchivePortfolio \/ Tick \/ UNCHANGED vars, NEW b \in Attempts PROVE Good(b)'
  <2>1. UNCHANGED <<facts, outbox, audits, request, outcome>>
    BY <1>6 DEF ArchivePortfolio, Tick, vars, database
  <2>2. Same(b)
    BY <2>1 DEF FactsOf, EventsOf, AuditsOf, Writer
  <2> QED
    BY <1>2, <2>1, <2>2
<1>7. \A b \in Attempts : Good(b)'
  BY <1>4, <1>5, <1>6, NextCases
<1> QED
  BY <1>7 DEF EvidenceMatchesFacts
-----------------------------------------------------------------------------
(* A commit of nothing changes no ledger, and while one attempt holds      *)
(* facts to commit, every other commits nothing.                           *)
LEMMA CommitOfNothing ==
  ASSUME LedgerInvariant, NEW a \in Attempts, Commit(a), pending[a].facts = {}
  PROVE  UNCHANGED <<facts, corrections, nextSequence>>
<1>1. pending[a].corrections = {}
  BY DEF LedgerInvariant, PendingWrites
<1>2. nextSequence \in Nat
  BY DEF LedgerInvariant, TypeOK
<1> QED
  BY <1>1, <1>2, FS_EmptySet DEF Commit

(* The facts a command writes form one ordinary fact or one group.         *)
LEMMA WritesGroup ==
  ASSUME LedgerInvariant, NEW a \in Attempts, Writes(a)
  PROVE  PendingRecord(a)' \/ PendingGroup(a)'
<1> USE DEF LedgerInvariant
<1> DEFINE r == request[a]
<1>1. /\ pc[a] = "write" /\ WriteError(a) = "OK" /\ sequence[a] = nextSequence
      /\ pending'[a] = AllWrites(a)
      /\ UNCHANGED <<facts, corrections, nextSequence>>
  BY DEF Writes, PendingSequences, TypeOK, database
<1>2. r \in RequestSet
  BY <1>1 DEF LocksHeld
<1>3. AllWrites(a).facts = Candidates(a)
  BY DEF AllWrites
<1>4. \A n, c : /\ CommandFact(a, n, c).id = <<a, n>>
                /\ CommandFact(a, n, c).seq = sequence[a] + n - 1
                /\ CommandFact(a, n, c).kind = r.kind
                /\ CommandFact(a, n, c).reversalOf = NoFact
                /\ CommandFact(a, n, c).correctionOf = c
  BY DEF CommandFact
<1>5. r.kind # "REVERSAL"
  BY <1>2 DEF RequestSet, CreatableKinds
<1>6. CASE ~IsCorrection(r)
  <2>1. Candidates(a) = {CommandFact(a, 1, NoFact)} /\ AllWrites(a).corrections = {}
    BY <1>6 DEF Candidates, AllWrites
  <2> QED
    BY <1>1, <1>3, <1>4, <1>5, <2>1 DEF PendingRecord
<1>7. CASE IsCorrection(r)
  <2>1. /\ Target(r) \in facts /\ Target(r).id = r.target
        /\ Target(r).kind # "REVERSAL"
    BY <1>1, <1>7, TargetExists
  <2>2. ~HasDirectCorrection(r.target)
    BY <1>1, <1>7 DEF WriteError, TargetError
  <2>3. PICK o \in facts : o = Target(r)
    BY <2>1
  <2>4. PICK f : f = Reversal(a, o)
    OBVIOUS
  <2>5. PICK p : p = CommandFact(a, 2, r.target)
    OBVIOUS
  <2>a. PICK c : c = [id |-> a, original |-> o.id, reversal |-> <<a, 1>>,
                      replacement |-> <<a, 2>>]
    OBVIOUS
  <2>6. AllWrites(a).facts = {f, p} /\ AllWrites(a).corrections = {c}
    BY <1>7, <2>1, <2>3, <2>4, <2>5, <2>a DEF Candidates, AllWrites
  <2>7. /\ f.id = <<a, 1>> /\ f.seq = sequence[a] /\ f.kind = "REVERSAL"
        /\ f.asset = o.asset /\ f.quantity = o.quantity
        /\ f.effectiveAt = o.effectiveAt /\ f.reversalOf = o.id
    BY <2>4 DEF Reversal
  <2>8. /\ p.id = <<a, 2>> /\ p.kind # "REVERSAL" /\ p.reversalOf = NoFact
        /\ p.correctionOf = o.id /\ p.seq = sequence[a] + 2 - 1
    BY <1>4, <1>5, <2>1, <2>3, <2>5
  <2>9. o.seq \in 1 .. nextSequence - 1 /\ nextSequence \in Nat
    BY DEF SequenceGapFree, TypeOK
  <2>10. o.seq < f.seq /\ f.seq = nextSequence /\ p.seq = f.seq + 1
    BY <1>1, <2>7, <2>8, <2>9
  <2>11. Group(o, f, p)
    BY <2>1, <2>3, <2>7, <2>8, <2>10 DEF Group, SameFinancialDimensions
  <2>12. o \in facts' /\ (~HasDirectCorrection(o.id))' /\ f.seq = nextSequence'
    BY <1>1, <2>1, <2>2, <2>3, <2>10 DEF HasDirectCorrection
  <2>13. pending'[a].facts = {f, p} /\ pending'[a].corrections = {c}
    BY <1>1, <2>6
  <2>14. /\ c.original = o.id /\ c.reversal = f.id /\ c.replacement = p.id
         /\ f.id # p.id
    BY <2>7, <2>8, <2>a
  <2> QED
    BY <2>8, <2>11, <2>12, <2>13, <2>14 DEF PendingGroup, Group, SameFinancialDimensions
<1> QED
  BY <1>6, <1>7

(* What is pending stays a record or a group of the ledger it goes to.     *)
LEMMA PendingGroupsStep == LedgerInvariant /\ [Next]_vars => PendingGroups'
<1> DEFINE Good(b) == Recording(b) => PendingRecord(b) \/ PendingGroup(b)
<1> SUFFICES ASSUME LedgerInvariant, [Next]_vars PROVE PendingGroups'
  OBVIOUS
<1> USE DEF LedgerInvariant
<1>1. \A b \in Attempts : Good(b)
  BY DEF PendingGroups
<1>a. \A b \in Attempts : pc[b] # "commit" => pending[b].facts = {}
  BY DEF PendingWrites
<1>2. ASSUME NEW b \in Attempts, pc'[b] = pc[b], pending'[b] = pending[b],
             UNCHANGED <<facts, corrections, nextSequence>>
      PROVE  Good(b)'
  <2>1. PendingRecord(b) => PendingRecord(b)'
    BY <1>2 DEF PendingRecord
  <2>2. PendingGroup(b) => PendingGroup(b)'
    BY <1>2 DEF PendingGroup, Group, SameFinancialDimensions, HasDirectCorrection
  <2> QED
    BY <1>1, <1>2, <2>1, <2>2 DEF Recording
<1>3. ASSUME NEW b \in Attempts, ~Recording(b)' PROVE Good(b)'
  BY <1>3
<1> HIDE DEF Good
<1>4. ASSUME NEW a \in Attempts, Moves(a), NEW b \in Attempts, b # a PROVE Good(b)'
  <2>1. pc'[b] = pc[b] /\ pending'[b] = pending[b]
    BY <1>4, OthersKept
  <2>2. CASE ~Commit(a)
    BY <1>2, <1>4, <2>1, <2>2, LedgerKept
  <2>3. CASE Commit(a) /\ ~Recording(b)
    BY <1>3, <2>1, <2>3 DEF Recording
  <2>4. CASE Commit(a) /\ Recording(b)
    <3>1. pending[a].facts = {}
      BY <1>4, <2>4, OneWriter DEF HasSequence, Recording, Commit
    <3> QED
      BY <1>2, <2>1, <2>4, <3>1, CommitOfNothing
  <2> QED
    BY <2>2, <2>3, <2>4
<1>5. ASSUME NEW a \in Attempts, Moves(a) PROVE Good(a)'
  <2> USE DEF TypeOK
  <2>1. CASE Writes(a)
    BY <2>1, WritesGroup DEF Good
  <2>2. CASE Replays(a)
    BY <1>3, <2>2 DEF Replays, AnswerFromRow, NoWrites, Recording
  <2>3. CASE ~Writes(a) /\ ~Replays(a)
    <3>1. pc'[a] # "commit"
      BY <1>5, <2>3 DEF Moves, Begins, Ends, LockKey, Accepts, AcceptNewKey, Allocate,
                        Commit, AuditRejection
    <3> QED
      BY <1>3, <3>1 DEF Recording
  <2> QED
    BY <2>1, <2>2, <2>3
<1>6. ASSUME ArchivePortfolio \/ Tick \/ UNCHANGED vars, NEW b \in Attempts PROVE Good(b)'
  <2>1. UNCHANGED <<facts, corrections, nextSequence, pc, pending>>
    BY <1>6 DEF ArchivePortfolio, Tick, vars, database
  <2> QED
    BY <1>2, <2>1
<1>7. \A b \in Attempts : Good(b)'
  BY <1>4, <1>5, <1>6, NextCases
<1> QED
  BY <1>7 DEF PendingGroups, Good

(* Every step leaves the ledger and the corrections as they are, or        *)
(* commits one record or one group.                                        *)
LEMMA LedgerSteps ==
  ASSUME LedgerInvariant, [Next]_vars
  PROVE  \/ UNCHANGED <<facts, corrections, nextSequence>>
         \/ \E a \in Attempts :
              /\ Commit(a) /\ Recording(a)
              /\ PendingRecord(a) \/ PendingGroup(a)
<1>1. ASSUME NEW a \in Attempts, Moves(a)
      PROVE  \/ UNCHANGED <<facts, corrections, nextSequence>>
             \/ Commit(a) /\ Recording(a) /\ (PendingRecord(a) \/ PendingGroup(a))
  <2>1. CASE ~Commit(a)
    BY <1>1, <2>1, LedgerKept
  <2>2. CASE Commit(a) /\ pending[a].facts = {}
    BY <2>2, CommitOfNothing
  <2>3. CASE Commit(a) /\ pending[a].facts # {}
    <3>1. Recording(a)
      BY <2>3 DEF Recording, Commit
    <3> QED
      BY <2>3, <3>1 DEF LedgerInvariant, PendingGroups
  <2> QED
    BY <2>1, <2>2, <2>3
<1>2. ASSUME ArchivePortfolio \/ Tick \/ UNCHANGED vars
      PROVE  UNCHANGED <<facts, corrections, nextSequence>>
  BY <1>2 DEF ArchivePortfolio, Tick, vars, database
<1> QED
  BY <1>1, <1>2, NextCases DEF LedgerInvariant

(* The facts of a commit have identities of their own.                     *)
LEMMA CommitIsNew ==
  ASSUME LedgerInvariant, NEW a \in Attempts, Commit(a),
         NEW f \in facts, NEW g \in pending[a].facts
  PROVE  f.id # g.id
<1>1. pc[a] # "done"
  BY DEF Commit
<1>2. Writer(f) # a
  BY <1>1, WritersEnded
<1>3. Writer(g) = a
  BY DEF LedgerInvariant, PendingWrites
<1> QED
  BY <1>2, <1>3 DEF Writer

(* Facts stay distinct.                                                    *)
LEMMA DistinctStep == LedgerInvariant /\ [Next]_vars => FactsDistinct'
<1> SUFFICES ASSUME LedgerInvariant, [Next]_vars PROVE FactsDistinct'
  OBVIOUS
<1>0. FactsDistinct
  BY DEF LedgerInvariant
<1>1. CASE UNCHANGED facts
  BY <1>0, <1>1 DEF FactsDistinct
<1>2. ASSUME NEW a \in Attempts, Commit(a), PendingRecord(a) \/ PendingGroup(a)
      PROVE  FactsDistinct'
  <2>1. facts' = facts \union pending[a].facts
    BY <1>2 DEF Commit
  <2>2. \A f \in facts : \A g \in pending[a].facts : f.id # g.id
    BY <1>2, CommitIsNew
  <2>3. /\ \A f, g \in pending[a].facts : f.id = g.id => f = g
        /\ \A f \in pending[a].facts : f.kind # "REVERSAL" => f.reversalOf = NoFact
    <3>1. CASE PendingRecord(a)
      BY <3>1 DEF PendingRecord
    <3>2. CASE PendingGroup(a)
      <4>1. PICK r, p \in pending[a].facts :
              /\ pending[a].facts = {r, p} /\ r.id # p.id
              /\ r.kind = "REVERSAL" /\ p.reversalOf = NoFact
        BY <3>2 DEF PendingGroup, Group
      <4> QED
        BY <4>1
    <3> QED
      BY <1>2, <3>1, <3>2
  <2> QED
    BY <1>0, <2>1, <2>2, <2>3 DEF FactsDistinct
<1> QED
  BY <1>1, <1>2, LedgerSteps

(* A commit leaves complete groups: a record adds none, a group completes  *)
(* the correction it comes with.                                           *)
LEMMA CorrectionGroupsStep == LedgerInvariant /\ [Next]_vars => CorrectionGroups'
<1> DEFINE Complete(c, ledger) ==
             \E o, r, p \in ledger :
               /\ o.id = c.original /\ r.id = c.reversal /\ p.id = c.replacement
               /\ Group(o, r, p)
<1> SUFFICES ASSUME LedgerInvariant, [Next]_vars PROVE CorrectionGroups'
  OBVIOUS
<1>0. /\ \A c \in corrections : Complete(c, facts)
      /\ \A c, d \in corrections : c.original = d.original => c = d
      /\ \A f \in facts :
           f.kind = "REVERSAL" \/ f.correctionOf # NoFact =>
             \E c \in corrections : f.id \in {c.reversal, c.replacement}
  BY DEF LedgerInvariant, CorrectionGroups
<1>a. SUFFICES /\ \A c \in corrections' : Complete(c, facts')
               /\ \A c, d \in corrections' : c.original = d.original => c = d
               /\ \A f \in facts' :
                    f.kind = "REVERSAL" \/ f.correctionOf # NoFact =>
                      \E c \in corrections' : f.id \in {c.reversal, c.replacement}
  BY <1>a DEF CorrectionGroups, Group, SameFinancialDimensions
<1>1. CASE UNCHANGED <<facts, corrections>>
  BY <1>0, <1>1
<1>2. \A c : Complete(c, facts) /\ facts \subseteq facts' => Complete(c, facts')
  OBVIOUS
<1> HIDE DEF Complete
<1>3. ASSUME NEW a \in Attempts, Commit(a), PendingRecord(a) \/ PendingGroup(a)
      PROVE  /\ \A c \in corrections' : Complete(c, facts')
             /\ \A c, d \in corrections' : c.original = d.original => c = d
             /\ \A f \in facts' :
                  f.kind = "REVERSAL" \/ f.correctionOf # NoFact =>
                    \E c \in corrections' : f.id \in {c.reversal, c.replacement}
  <2>1. /\ facts' = facts \union pending[a].facts
        /\ corrections' = corrections \union pending[a].corrections
    BY <1>3 DEF Commit
  <2>2. \A c \in corrections : Complete(c, facts')
    BY <1>0, <1>2, <2>1
  <2>3. CASE PendingRecord(a)
    BY <1>0, <2>1, <2>2, <2>3 DEF PendingRecord
  <2>4. CASE PendingGroup(a)
    <3>1. PICK o \in facts, r \in pending[a].facts, p \in pending[a].facts,
               c \in pending[a].corrections :
            /\ pending[a].facts = {r, p} /\ pending[a].corrections = {c}
            /\ c.original = o.id /\ c.reversal = r.id /\ c.replacement = p.id
            /\ Group(o, r, p)
            /\ ~HasDirectCorrection(o.id)
      BY <2>4 DEF PendingGroup
    <3>4. Complete(c, facts')
      <4>1. o \in facts' /\ r \in facts' /\ p \in facts'
        BY <2>1
      <4> QED
        BY <3>1, <4>1 DEF Complete
    <3>5. \A d \in corrections : d.original # c.original
      BY <3>1 DEF HasDirectCorrection
    <3>6. corrections' = corrections \union {c} /\ facts' = facts \union {r, p}
      BY <2>1, <3>1
    <3>7. \A d \in corrections' : Complete(d, facts')
      BY <2>2, <3>4, <3>6
    <3>8. \A d, e \in corrections' : d.original = e.original => d = e
      BY <1>0, <3>5, <3>6
    <3>9. \A f \in facts' :
            f.kind = "REVERSAL" \/ f.correctionOf # NoFact =>
              \E d \in corrections' : f.id \in {d.reversal, d.replacement}
      BY <1>0, <3>1, <3>6
    <3> QED
      BY <3>7, <3>8, <3>9
  <2> QED
    BY <1>3, <2>3, <2>4
<1> QED
  BY <1>1, <1>3, LedgerSteps

-----------------------------------------------------------------------------
(* The inductive invariant holds initially.                                *)
LEMMA InitInvariant == Init => LedgerInvariant
<1> SUFFICES ASSUME Init PROVE LedgerInvariant
  OBVIOUS
<1>1. TypeOK
  BY InitType
<1>2. /\ facts = {} /\ idempotency = {} /\ nextSequence = 1
      /\ \A a \in Attempts : /\ pc[a] = "idle" /\ pending[a].facts = {}
                             /\ pending[a].corrections = {} /\ pending[a].rows = {}
                             /\ pending[a].events = <<>>
                             /\ outcome[a] = "none"
      /\ shares = {}
  BY DEF Init, NoWrites
<1>3. LocksHeld /\ PendingWrites /\ ArchivalSeen
  BY <1>2 DEF LocksHeld, PendingWrites, ArchivalSeen, InTransaction, HasKey,
              HasSequence, Recording, Accepted
<1>4. PendingSequences /\ PendingValid
  BY <1>2 DEF PendingSequences, PendingValid
<1>12. LocksReleased
  BY <1>2, AttemptsAssumption DEF Init, LocksReleased
<1>5. SequenceGapFree
  BY <1>2 DEF SequenceGapFree
<1>6. NoNegativePosition
  BY <1>2 DEF NoNegativePosition, Overdrawn
<1>7. RowsCoverFacts /\ AtMostOncePerKey
  BY <1>2 DEF RowsCoverFacts, AtMostOncePerKey, Recording
<1>8. RowsAreAnswers /\ ReplayAnswersOriginal
  BY <1>2 DEF RowsAreAnswers, ReplayAnswersOriginal, Recording
<1>9. \A a \in Attempts : FactsOf(a) = {} /\ EventsOf(a) = {} /\ AuditsOf(a) = {}
  BY DEF Init, FactsOf, EventsOf, AuditsOf
<1>10. PendingEvidence /\ EvidenceMatchesFacts
  BY <1>2, <1>9 DEF PendingEvidence, EvidenceMatchesFacts, Recording, Errors
<1>11. FactsDistinct /\ PendingGroups /\ CorrectionGroups
  BY <1>2 DEF Init, FactsDistinct, PendingGroups, CorrectionGroups, Recording
<1> QED
  BY <1>1, <1>3, <1>4, <1>5, <1>6, <1>7, <1>8, <1>10, <1>11, <1>12 DEF LedgerInvariant

(* Every conjunct of the invariant holds in every reachable state of the   *)
(* transaction service, for any commands, assets and number of concurrent  *)
(* attempts.                                                               *)
THEOREM LedgerInvariance == Spec => []LedgerInvariant
<1>1. LedgerInvariant /\ [Next]_vars => LedgerInvariant'
  BY TypeStep, LocksStep, ReleasedStep, PendingWritesStep, ArchivalStep, SequencesStep, GapFreeStep,
     ValidStep, RowsStep, CommittedRowsStep, AnswersStep, PendingEvidenceStep,
     EvidenceStep, DistinctStep, PendingGroupsStep, CorrectionGroupsStep
  DEF LedgerInvariant
<1> QED
  BY InitInvariant, <1>1, PTL DEF Spec

(* Rows, locks, phases and pending writes have their types.                *)
THEOREM TypeCorrectness == Spec => []TypeOK
<1>1. LedgerInvariant => TypeOK
  BY DEF LedgerInvariant
<1> QED
  BY <1>1, LedgerInvariance, PTL

(* Concurrent and backdated commands never oversell an asset.              *)
THEOREM NeverOversold == Spec => []NoNegativePosition
<1>1. LedgerInvariant => NoNegativePosition
  BY DEF LedgerInvariant
<1> QED
  BY <1>1, LedgerInvariance, PTL

(* Committed sequences are gap-free and unique.                            *)
THEOREM SequencesGapFree == Spec => []SequenceGapFree
<1>1. LedgerInvariant => SequenceGapFree
  BY DEF LedgerInvariant
<1> QED
  BY <1>1, LedgerInvariance, PTL

(* A key takes effect at most once in its lifetime.                        *)
THEOREM KeysTakeEffectOnce == Spec => []AtMostOncePerKey
<1>1. LedgerInvariant => AtMostOncePerKey
  BY DEF LedgerInvariant
<1> QED
  BY <1>1, LedgerInvariance, PTL

(* A replayed answer is the original's.                                    *)
THEOREM ReplaysAreFaithful == Spec => []ReplayAnswersOriginal
<1>1. LedgerInvariant => ReplayAnswersOriginal
  BY DEF LedgerInvariant
<1> QED
  BY <1>1, LedgerInvariance, PTL

(* Facts, events and audits of an attempt tell the same story.             *)
THEOREM EvidenceIsComplete == Spec => []EvidenceMatchesFacts
<1>1. LedgerInvariant => EvidenceMatchesFacts
  BY DEF LedgerInvariant
<1> QED
  BY <1>1, LedgerInvariance, PTL

(* Corrections are complete groups, at most one for a fact.                *)
THEOREM CorrectionsAreGroups == Spec => []CorrectionGroups
<1>1. LedgerInvariant => CorrectionGroups
  BY DEF LedgerInvariant
<1> QED
  BY <1>1, LedgerInvariance, PTL

(* Whatever fails and wherever, no lock stays behind an attempt that ended *)
(* or was cut off: the next command for the portfolio can go on.           *)
THEOREM LocksEndWithAttempts == Spec => []LocksReleased
<1>1. LedgerInvariant => LocksReleased
  BY DEF LedgerInvariant
<1> QED
  BY <1>1, LedgerInvariance, PTL

(* Commands never deadlock: keys are locked before the sequence, no        *)
(* attempt locks two keys, and the sequence's holder waits for nobody.     *)
THEOREM CommandsNeverDeadlock == Spec => []NoWaitCycle
<1>1. ASSUME LedgerInvariant PROVE NoWaitCycle
  <2> SUFFICES ASSUME NEW waiting \in SUBSET Attempts, waiting # {},
                      \A a \in waiting : \E b \in waiting : WaitsFor(a, b)
               PROVE  FALSE
    BY Zenon DEF NoWaitCycle
  <2>1. \A a \in waiting : pc[a] \in {"lock_key", "allocate"}
    BY DEF WaitsFor
  <2>2. ASSUME NEW a \in waiting PROVE pc[a] # "allocate"
    <3> SUFFICES ASSUME pc[a] = "allocate" PROVE FALSE
      OBVIOUS
    <3>1. PICK b \in waiting : seqHolder = b
      BY DEF WaitsFor
    <3> QED
      BY <1>1, <2>1, <3>1 DEF LedgerInvariant, LocksReleased, HasSequence, Recording
  <2>3. PICK a \in waiting : pc[a] = "lock_key"
    BY <2>1, <2>2
  <2>4. PICK b \in waiting : keyHolder[LockId(request[a])] = b
    BY <2>3 DEF WaitsFor
  <2>5. LockId(request[a]) \in LockIds
    BY <1>1, <2>3, LockIdKnown DEF LedgerInvariant, LocksHeld
  <2>6. HasKey(b)
    BY <1>1, <2>4, <2>5 DEF LedgerInvariant, LocksReleased
  <2> QED
    BY <2>1, <2>2, <2>6 DEF HasKey
<1> QED
  BY <1>1, LedgerInvariance, PTL

(* No step records anything in an archived portfolio: the attempt that     *)
(* would commit facts holds the portfolio's share lock and read it active. *)
THEOREM ArchivedIsFrozen == Spec => NothingAfterArchive
<1>1. ASSUME LedgerInvariant, [Next]_vars, archived
      PROVE  UNCHANGED <<facts, corrections, nextSequence, outbox>>
  <2> USE DEF LedgerInvariant
  <2>1. ASSUME NEW a \in Attempts, Commit(a)
        PROVE  UNCHANGED <<facts, corrections, nextSequence, outbox>>
    <3>1. sawArchived[a]
      BY <1>1, <2>1 DEF Commit, ArchivalSeen, LocksHeld, InTransaction
    <3>2. pending[a].facts = {}
      BY <1>1, <2>1, <3>1 DEF ArchivalSeen, Accepted, HasSequence, Recording, Commit
    <3>3. pending[a].corrections = {} /\ pending[a].events = <<>>
      BY <1>1, <3>2 DEF PendingWrites
    <3>4. nextSequence' = nextSequence
      BY <1>1, <2>1, <3>2, FS_EmptySet DEF Commit, TypeOK
    <3>5. outbox' = outbox
      BY <1>1, <2>1, <3>3 DEF Commit, TypeOK
    <3> QED
      BY <2>1, <3>2, <3>3, <3>4, <3>5 DEF Commit
  <2>2. ASSUME NEW a \in Attempts, Moves(a), ~Commit(a)
        PROVE  UNCHANGED <<facts, corrections, nextSequence, outbox>>
    BY <2>2, LedgerKept
  <2>3. ASSUME ArchivePortfolio \/ Tick \/ UNCHANGED vars
        PROVE  UNCHANGED <<facts, corrections, nextSequence, outbox>>
    BY <2>3 DEF ArchivePortfolio, Tick, vars, database
  <2> QED
    BY <1>1, <2>1, <2>2, <2>3, NextCases
<1>2. LedgerInvariant /\ [Next]_vars
        => [archived => UNCHANGED <<facts, corrections, nextSequence, outbox>>]_vars
  BY <1>1
<1> QED
  BY <1>2, LedgerInvariance, PTL DEF Spec, NothingAfterArchive
-----------------------------------------------------------------------------
(* The committed facts are as many as the sequences they take.             *)
LEMMA LedgerSize ==
  ASSUME TypeOK, SequenceGapFree
  PROVE  IsFiniteSet(facts) /\ Cardinality(facts) = nextSequence - 1
<1> DEFINE f == [x \in facts |-> x.seq]
           T == 1 .. nextSequence - 1
<1>1. nextSequence \in Nat \ {0}
  BY DEF TypeOK
<1>2. IsFiniteSet(T) /\ Cardinality(T) = nextSequence - 1
  BY <1>1, FS_Interval
<1>3. {x.seq : x \in facts} = T /\ \A x, y \in facts : x.seq = y.seq => x = y
  BY DEF SequenceGapFree
<1>4. f \in Bijection(facts, T)
  <2>1. f \in [facts -> T]
    BY <1>3
  <2>2. \A t \in T : \E x \in facts : f[x] = t
    BY <1>3
  <2>3. \A x, y \in facts : f[x] = f[y] => x = y
    BY <1>3
  <2> HIDE DEF f, T
  <2> QED
    BY <2>1, <2>2, <2>3, Fun_IsBij
<1> HIDE DEF f, T
<1>5. ExistsBijection(T, facts)
  BY <1>4, Fun_ExistsBijSymmetric DEF ExistsBijection
<1> QED
  BY <1>2, <1>5, FS_Bijection

(* A reversal is that of a correction, whose original it mirrors.          *)
LEMMA ReversalsAreCorrections ==
  ASSUME FactsDistinct, CorrectionGroups, NEW f \in facts, f.kind = "REVERSAL"
  PROVE  \E c \in corrections : \E o \in facts :
           /\ f.id = c.reversal /\ f.reversalOf = c.original
           /\ o.id = c.original /\ o.kind # "REVERSAL"
           /\ SameFinancialDimensions(f, o) /\ o.effectiveAt = f.effectiveAt
<1>1. PICK c \in corrections : f.id \in {c.reversal, c.replacement}
  BY DEF CorrectionGroups
<1>2. PICK o \in facts, r \in facts, p \in facts :
          /\ o.id = c.original /\ r.id = c.reversal /\ p.id = c.replacement
          /\ Group(o, r, p)
  BY DEF CorrectionGroups
<1>3. f = r \/ f = p
  BY <1>1, <1>2 DEF FactsDistinct
<1>4. f = r
  BY <1>2, <1>3 DEF Group
<1> QED
  BY <1>2, <1>4 DEF Group, SameFinancialDimensions

(* A ledger of complete groups is well formed: a reversal mirrors its      *)
(* original, and the group of an original is the only one.                 *)
LEMMA GroupsAreWellFormed ==
  ASSUME SequenceGapFree, FactsDistinct, CorrectionGroups
  PROVE  WellFormed(facts)
<1>1. UniqueFacts(facts)
  BY DEF UniqueFacts, SequenceGapFree, FactsDistinct
<1>3. ASSUME NEW f \in facts, f.kind = "REVERSAL", NEW h \in facts, h.kind = "REVERSAL",
             h.reversalOf = f.reversalOf
      PROVE  h = f
  <2>1. PICK c \in corrections : f.id = c.reversal /\ f.reversalOf = c.original
    BY <1>3, ReversalsAreCorrections
  <2>2. PICK d \in corrections : h.id = d.reversal /\ h.reversalOf = d.original
    BY <1>3, ReversalsAreCorrections
  <2>3. c = d
    BY <1>3, <2>1, <2>2 DEF CorrectionGroups
  <2> QED
    BY <2>1, <2>2, <2>3 DEF FactsDistinct
<1>4. ConsistentReversals(facts)
  BY <1>3, ReversalsAreCorrections DEF ConsistentReversals
<1> QED
  BY <1>1, <1>4 DEF WellFormed

(* The invariant's ledgers are well formed, before and after a step.       *)
LEMMA LedgerWellFormed == LedgerInvariant => WellFormed(facts)
BY GroupsAreWellFormed DEF LedgerInvariant

LEMMA NextWellFormed == LedgerInvariant' => WellFormed(facts)'
BY LedgerWellFormed, PTL

(* The committed ledger always passes its own replay: no interleaving      *)
(* leaves rows that reading it back rejects.                               *)
THEOREM LedgerAlwaysReplays == Spec => [](ReplayLedger(facts, {}) = "OK")
<1>1. LedgerInvariant => ReplayLedger(facts, {}) = "OK"
  <2>1. facts \union {} = facts
    OBVIOUS
  <2> QED
    BY <2>1, LedgerWellFormed DEF LedgerInvariant, NoNegativePosition, ReplayLedger
<1> QED
  BY <1>1, LedgerInvariance, PTL

(* The serial ledger validates as this one does.                           *)
LEMMA SameReplay ==
  ASSUME NEW e, NEW c, WellFormed(e \union c), Overdrawn(e \union c) = {}
  PROVE  Serial!ReplayLedger(e, c) = "OK"
<1>1. \A f, rows : Serial!Balance(f, rows) = Balance(f, rows)
  BY DEF Balance, Signed, Precedes, Reversed, MapThenSumSet, MapThenFoldSet,
         Serial!Balance, Serial!Signed, Serial!Precedes, Serial!Reversed,
         Serial!MapThenSumSet, Serial!MapThenFoldSet
<1>2. Serial!Overdrawn(e \union c) = Overdrawn(e \union c)
  BY <1>1 DEF Overdrawn, AssetRows, Serial!Overdrawn, Serial!AssetRows
<1>3. Serial!WellFormed(e \union c) = WellFormed(e \union c)
  BY DEF WellFormed, UniqueFacts, ConsistentReversals, SameFinancialDimensions,
         Serial!WellFormed, Serial!UniqueFacts, Serial!ConsistentReversals,
         Serial!SameFinancialDimensions
<1> QED
  BY <1>2, <1>3 DEF Serial!ReplayLedger

(* A commit of facts is announced by one event more.                       *)
LEMMA CommitAnnounces ==
  ASSUME LedgerInvariant, NEW a \in Attempts, Commit(a), Recording(a)
  PROVE  Announced' = Append(Announced, pending[a].facts)
<1> USE DEF LedgerInvariant
<1>1. PICK e \in EventSet : pending[a].events = <<e>> /\ e.by = a
  BY DEF PendingEvidence
<1>2. outbox \in Seq(EventSet)
  BY DEF TypeOK
<1>3. outbox' = Append(outbox, e)
  BY <1>1, <1>2 DEF Commit
<1>4. EventsOf(a) = {} /\ pc[a] # "done"
  BY DEF PendingEvidence, Commit
<1> DEFINE By(S, b) == {f \in S : Writer(f) = b}
           n == Len(outbox)
<1>5. /\ By(facts', a) = pending[a].facts
      /\ \A b \in Attempts \ {a} : By(facts', b) = By(facts, b)
  BY CommitEvidence DEF FactsOf, Writer
<1>6. \A i \in DOMAIN outbox : outbox[i].by \in Attempts \ {a}
  <2>1. \A i \in DOMAIN outbox : outbox[i] \in EventSet
    BY <1>2
  <2>2. \A x \in EventSet : x.by \in Attempts
    BY DEF EventSet
  <2> QED
    BY <1>4, <2>1, <2>2 DEF EventsOf
<1>7. /\ DOMAIN outbox = 1 .. n /\ n \in Nat
      /\ DOMAIN outbox' = 1 .. n + 1
      /\ \A i \in 1 .. n : outbox'[i] = outbox[i]
      /\ outbox'[n + 1] = e
  BY <1>2, <1>3
<1>8. /\ Announced = [i \in 1 .. n |-> By(facts, outbox[i].by)]
      /\ Announced' = [i \in 1 .. n + 1 |-> By(facts', outbox'[i].by)]
  BY <1>7 DEF Announced, FactsOf, Writer
<1>9. \A i \in 1 .. n : By(facts, outbox[i].by) \in SUBSET facts
  OBVIOUS
<1> HIDE DEF By, n
<1>10. Announced \in Seq(SUBSET facts) /\ Len(Announced) = n
  BY <1>7, <1>8, <1>9
<1>11. Append(Announced, pending[a].facts) =
         [i \in 1 .. n + 1 |-> IF i = n + 1 THEN pending[a].facts ELSE Announced[i]]
  BY <1>10
<1>12. \A i \in 1 .. n + 1 : i \in 1 .. n \/ i = n + 1
  BY <1>7
<1>13. \A i \in 1 .. n : i # n + 1 /\ By(facts', outbox'[i].by) = Announced[i]
  BY <1>5, <1>6, <1>7, <1>8
<1>14. By(facts', outbox'[n + 1].by) = pending[a].facts
  BY <1>1, <1>5, <1>7
<1> QED
  BY <1>8, <1>11, <1>12, <1>13, <1>14

(* A commit of facts is one command of the serial ledger.                  *)
LEMMA CommitImplements ==
  ASSUME LedgerInvariant, LedgerInvariant', NEW a \in Attempts, Commit(a), Recording(a),
         PendingRecord(a) \/ PendingGroup(a)
  PROVE  Serial!Record \/ Serial!Correct
<1>1. facts' = facts \union pending[a].facts /\ UNCHANGED archived
  BY DEF Commit
<1>2. ~archived
  BY DEF LedgerInvariant, ArchivalSeen, LocksHeld, InTransaction, Accepted, HasSequence,
         Recording
<1>3. Serial!ReplayLedger(facts, pending[a].facts) = "OK"
  <2>1. WellFormed(facts')
    BY NextWellFormed
  <2>2. Overdrawn(facts') = {}
    BY DEF LedgerInvariant, NoNegativePosition
  <2> QED
    BY <1>1, <2>1, <2>2, SameReplay
<1>4. Announced' = Append(Announced, pending[a].facts)
  BY CommitAnnounces
<1>5. Serial!Extend(pending[a].facts)
  BY <1>1, <1>2, <1>3, <1>4 DEF Serial!Extend
<1>6. Serial!NextSeq = nextSequence
  <2>1. Cardinality(facts) = nextSequence - 1 /\ nextSequence \in Nat
    BY LedgerSize DEF LedgerInvariant, TypeOK
  <2>2. Serial!Cardinality(facts) = Cardinality(facts)
    BY DEF Cardinality, Serial!Cardinality
  <2> QED
    BY <2>1, <2>2 DEF Serial!NextSeq
<1>7. CASE PendingRecord(a)
  <2>1. PICK f \in pending[a].facts :
          /\ pending[a].facts = {f}
          /\ f.kind # "REVERSAL" /\ f.reversalOf = NoFact /\ f.correctionOf = NoFact
    BY <1>7 DEF PendingRecord
  <2>2. f.seq = nextSequence
    BY <2>1 DEF LedgerInvariant, PendingSequences
  <2> QED
    BY <1>1, <1>5, <1>6, <2>1, <2>2 DEF Serial!Record
<1>8. CASE PendingGroup(a)
  <2>1. PICK o \in facts, r \in pending[a].facts, p \in pending[a].facts :
          /\ pending[a].facts = {r, p}
          /\ Group(o, r, p) /\ r.seq = nextSequence
          /\ ~HasDirectCorrection(o.id)
    BY <1>8 DEF PendingGroup
  <2>2. ~Serial!Corrected(o.id)
    <3> SUFFICES ASSUME NEW f \in facts, f.reversalOf = o.id PROVE FALSE
      BY DEF Serial!Corrected
    <3>1. o.id # NoFact
      BY FactIdsAssumption DEF LedgerInvariant, TypeOK, FactSet
    <3>2. f.kind = "REVERSAL"
      BY <3>1 DEF LedgerInvariant, FactsDistinct
    <3>3. \E c \in corrections : c.original = o.id
      BY <3>2, ReversalsAreCorrections DEF LedgerInvariant
    <3> QED
      BY <2>1, <3>3 DEF HasDirectCorrection
  <2>3. r \in facts' /\ p \in facts'
    BY <1>1
  <2>4. Serial!Extend({r, p})
    BY <1>5, <2>1
  <2>5. p.seq = Serial!NextSeq + 1
    BY <1>6, <2>1 DEF Group
  <2> QED
    BY <1>6, <2>1, <2>2, <2>3, <2>4, <2>5 DEF Serial!Correct, Group
<1> QED
  BY <1>7, <1>8

(* Archiving a portfolio is that of the serial ledger; the other steps do  *)
(* not change what it sees.                                                *)
LEMMA OthersImplement ==
  ASSUME NEW a \in Attempts, Moves(a), ~Commit(a)
  PROVE  UNCHANGED Serial!vars
<1>1. UNCHANGED <<facts, archived, outbox>>
  BY LedgerKept
<1> QED
  BY <1>1 DEF Serial!vars, Announced, FactsOf, Writer

(* Concurrent commands are commands run one at a time in the order of      *)
(* their commits, for any number of attempts, commands and assets.         *)
THEOREM CommandsAreSerializable == Spec => Serializable
<1>1. Init => Serial!Init
  BY DEF Init, Serial!Init, Announced
<1>2. ASSUME LedgerInvariant, LedgerInvariant', [Next]_vars
      PROVE  [Serial!Next]_(Serial!vars)
  <2>1. ASSUME NEW a \in Attempts, Commit(a), Recording(a)
        PROVE  Serial!Next
    BY <1>2, <2>1, CommitImplements DEF LedgerInvariant, PendingGroups, Serial!Next
  <2>2. ASSUME NEW a \in Attempts, Commit(a), ~Recording(a)
        PROVE  UNCHANGED Serial!vars
    <3>1. pending[a].facts = {}
      BY <2>2 DEF Commit, Recording
    <3>2. pending[a].events = <<>> /\ outbox \in Seq(EventSet)
      BY <1>2, <3>1 DEF LedgerInvariant, PendingWrites, TypeOK
    <3>3. UNCHANGED <<facts, archived, outbox>>
      BY <2>2, <3>1, <3>2 DEF Commit
    <3> QED
      BY <3>3 DEF Serial!vars, Announced, FactsOf, Writer
  <2>3. ASSUME ArchivePortfolio PROVE Serial!Next
    <3>1. archived' = TRUE /\ UNCHANGED <<facts, outbox>>
      BY <2>3 DEF ArchivePortfolio
    <3>2. UNCHANGED Announced
      BY <3>1 DEF Announced, FactsOf, Writer
    <3> QED
      BY <3>1, <3>2 DEF Serial!Next, Serial!Archive
  <2>4. ASSUME Tick \/ UNCHANGED vars PROVE UNCHANGED Serial!vars
    <3>1. UNCHANGED <<facts, archived, outbox>>
      BY <2>4 DEF Tick, vars, database
    <3> QED
      BY <3>1 DEF Serial!vars, Announced, FactsOf, Writer
  <2> QED
    BY <1>2, <2>1, <2>2, <2>3, <2>4, OthersImplement, NextCases DEF LedgerInvariant
<1> QED
  BY LedgerInvariance, <1>1, <1>2, PTL DEF Spec, Serializable, Serial!Spec

-----------------------------------------------------------------------------
(* Sums over sets of facts. *)

Less == {mn \in Nat \X Nat : mn[1] < mn[2]}

(* There is a least one among any natural numbers.                         *)
LEMMA LessWellFounded == IsWellFoundedOn(Less, Nat)
<1>1. OpToRel(<, Nat) = Less
  BY DEF OpToRel, Less
<1> QED BY <1>1, NatLessThanWellFounded

(* Induction, as a set of numbers that holds 0 and is closed under + 1.    *)
LEMMA UpFromZero ==
  ASSUME NEW T, 0 \in T, \A n \in T : n \in Nat => n + 1 \in T
  PROVE  Nat \subseteq T
<1> DEFINE U == Nat \ T
<1>1. ASSUME U # {} PROVE FALSE
  <2>1. PICK x \in U : \A y \in U : <<y, x>> \notin Less
    <3>1. U \subseteq Nat
      OBVIOUS
    <3> HIDE DEF U
    <3> QED BY <1>1, <3>1, LessWellFounded, WFMin
  <2>2. x \in Nat /\ x # 0 /\ x \notin T
    OBVIOUS
  <2>3. x - 1 \in Nat /\ x - 1 < x /\ (x - 1) + 1 = x
    BY <2>2
  <2>4. x - 1 \in T
    BY <2>1, <2>3 DEF Less
  <2> QED BY <2>2, <2>3, <2>4
<1> QED BY <1>1

(* Among subsets of a finite set there is a smallest one.                  *)
LEMMA MinimalSubset ==
  ASSUME NEW S, IsFiniteSet(S), NEW Q \in SUBSET SUBSET S, Q # {}
  PROVE  \E s \in Q : \A z \in Q : z \subseteq s => z = s
<1> DEFINE sizes == {Cardinality(s) : s \in Q}
<1>1. \A s \in Q : IsFiniteSet(s) /\ Cardinality(s) \in Nat
  BY FS_Subset, FS_CardinalityType
<1>2. sizes \subseteq Nat /\ sizes # {}
  BY <1>1
<1> HIDE DEF sizes
<1>3. PICK n \in sizes : \A m \in sizes : <<m, n>> \notin Less
  BY <1>2, LessWellFounded, WFMin
<1>4. PICK s \in Q : Cardinality(s) = n
  BY <1>3 DEF sizes
<1>5. ASSUME NEW z \in Q, z \subseteq s PROVE z = s
  <2>1. Cardinality(z) <= Cardinality(s) /\ (Cardinality(z) = Cardinality(s) => z = s)
    BY <1>1, <1>5, FS_Subset
  <2>2. ~(Cardinality(z) < Cardinality(s))
    BY <1>1, <1>2, <1>3, <1>4 DEF Less, sizes
  <2> QED BY <1>1, <2>1, <2>2
<1> QED BY <1>4, <1>5

(* The sums of a weight over the subsets of S, as the library computes it. *)
Taken(s) == CHOOSE x \in s : TRUE

Sums(g, W, S) ==
  g = [s \in SUBSET S |-> IF s = {} THEN 0 ELSE W[Taken(s)] + g[s \ {Taken(s)}]]

LEMMA TakenIn == \A s : s # {} => Taken(s) \in s
  BY DEF Taken

(* A fold over the subsets of a finite set exists, however an element is   *)
(* picked.                                                                 *)
Picks(pick, S) == \A s \in SUBSET S : s # {} => pick[s] \in s

Recurs(g, step, start, pick, S) ==
  \A s \in SUBSET S :
    g[s] = IF s = {} THEN start ELSE step[<<g[s \ {pick[s]}], pick[s]>>]

LEMMA FoldsExist ==
  ASSUME NEW S, IsFiniteSet(S), NEW V, NEW start \in V, NEW step \in [V \X S -> V],
         NEW pick, Picks(pick, S)
  PROVE  \E g \in [SUBSET S -> V] : Recurs(g, step, start, pick, S)
<1> DEFINE small(n) == {s \in SUBSET S : Cardinality(s) <= n}
           rest(s)  == s \ {pick[s]}
           T == {n \in Nat : \E g \in [small(n) -> V] : \A s \in small(n) :
                   g[s] = IF s = {} THEN start ELSE step[<<g[rest(s)], pick[s]>>]}
<1>0. \A s \in SUBSET S : IsFiniteSet(s) /\ Cardinality(s) \in Nat
        /\ (s = {} <=> Cardinality(s) = 0)
  BY FS_Subset, FS_CardinalityType, FS_EmptySet
<1>1. 0 \in T
  <2>1. small(0) = {{}}
    BY <1>0
  <2>2. [s \in {{}} |-> start] \in [small(0) -> V]
    BY <2>1
  <2> QED BY <2>1, <2>2
<1>2. ASSUME NEW n \in T, n \in Nat PROVE n + 1 \in T
  <2>1. PICK g \in [small(n) -> V] : \A s \in small(n) :
           g[s] = IF s = {} THEN start ELSE step[<<g[rest(s)], pick[s]>>]
    OBVIOUS
  <2> DEFINE h == [s \in small(n+1) |->
                     IF s = {} THEN start ELSE step[<<g[rest(s)], pick[s]>>]]
  <2>2. ASSUME NEW s \in small(n+1), s # {}
        PROVE  pick[s] \in S /\ rest(s) \in small(n)
    <3>1. pick[s] \in s
      BY <2>2 DEF Picks
    <3>2. Cardinality(rest(s)) = Cardinality(s) - 1
      BY <1>0, <3>1, FS_RemoveElement
    <3> QED BY <1>0, <3>1, <3>2
  <2>3. small(n) \subseteq small(n+1)
    BY <1>0
  <2>4. h \in [small(n+1) -> V]
    <3>1. ASSUME NEW s \in small(n+1), s # {}
          PROVE  step[<<g[rest(s)], pick[s]>>] \in V
      <4> HIDE DEF small, rest
      <4> QED BY <2>1, <2>2, <3>1
    <3> HIDE DEF small, rest
    <3> QED BY <3>1
  <2>5. \A s \in small(n) : h[s] = g[s]
    BY <2>1, <2>3
  <2>6. \A s \in small(n+1) : h[s] = IF s = {} THEN start ELSE step[<<h[rest(s)], pick[s]>>]
    BY <2>2, <2>5
  <2> HIDE DEF h
  <2>7. \E k \in [small(n+1) -> V] : \A s \in small(n+1) :
           k[s] = IF s = {} THEN start ELSE step[<<k[rest(s)], pick[s]>>]
    BY <2>4, <2>6
  <2> HIDE DEF small, rest
  <2> QED BY <1>2, <2>7
<1>3. Nat \subseteq T
  <2> HIDE DEF T
  <2> QED BY <1>1, <1>2, UpFromZero
<1>4. Cardinality(S) \in T
  BY <1>0, <1>3
<1>5. small(Cardinality(S)) = SUBSET S
  <2>1. \A s \in SUBSET S : Cardinality(s) <= Cardinality(S)
    BY FS_Subset
  <2> QED BY <2>1
<1> QED BY <1>4, <1>5 DEF Recurs

(* The sums of numbers exist, and each is a number.                        *)
LEMMA SumsExist ==
  ASSUME NEW S, IsFiniteSet(S), NEW W \in [S -> Int]
  PROVE  \E g \in [SUBSET S -> Int] : Sums(g, W, S)
<1> DEFINE step == [p \in Int \X S |-> W[p[2]] + p[1]]
           pick == [s \in SUBSET S |-> Taken(s)]
<1>1. step \in [Int \X S -> Int]
  OBVIOUS
<1>2. Picks(pick, S)
  BY TakenIn DEF Picks
<1>3. \A v \in Int, x \in S : step[<<v, x>>] = W[x] + v
  OBVIOUS
<1> HIDE DEF step
<1>4. PICK g \in [SUBSET S -> Int] : Recurs(g, step, 0, pick, S)
  <2> DEFINE start == 0
  <2>1. start \in Int
    OBVIOUS
  <2> HIDE DEF pick, start
  <2>2. \E g \in [SUBSET S -> Int] : Recurs(g, step, start, pick, S)
    BY <1>1, <1>2, <2>1, FoldsExist
  <2> QED BY <2>2 DEF start
<1>5. ASSUME NEW s \in SUBSET S, s # {}
      PROVE  g[s] = W[Taken(s)] + g[s \ {Taken(s)}]
  <2>1. Taken(s) \in S /\ s \ {Taken(s)} \in SUBSET S /\ pick[s] = Taken(s)
    BY <1>5, TakenIn
  <2>2. g[s] = step[<<g[s \ {Taken(s)}], Taken(s)>>]
    BY <1>4, <1>5, <2>1 DEF Recurs
  <2> QED BY <1>3, <2>1, <2>2
<1>6. g[{}] = 0
  BY <1>4 DEF Recurs
<1>7. \A s \in SUBSET S : g[s] = IF s = {} THEN 0 ELSE W[Taken(s)] + g[s \ {Taken(s)}]
  BY <1>5, <1>6
<1> QED BY <1>7 DEF Sums

LEMMA SumsInt ==
  ASSUME NEW S, IsFiniteSet(S), NEW W \in [S -> Int], NEW g, Sums(g, W, S)
  PROVE  g \in [SUBSET S -> Int]
<1> DEFINE Q == {s \in SUBSET S : g[s] \notin Int}
<1>1. ASSUME Q # {} PROVE FALSE
  <2>1. PICK s \in Q : \A z \in Q : z \subseteq s => z = s
    <3>1. Q \in SUBSET SUBSET S
      OBVIOUS
    <3> HIDE DEF Q
    <3> QED BY <1>1, <3>1, MinimalSubset
  <2>2. g[s] = IF s = {} THEN 0 ELSE W[Taken(s)] + g[s \ {Taken(s)}]
    BY DEF Sums
  <2>3. s # {} => Taken(s) \in s
    BY TakenIn
  <2>4. s # {} => g[s \ {Taken(s)}] \in Int
    BY <2>1, <2>3
  <2> QED BY <2>2, <2>3, <2>4
<1>2. g = [s \in SUBSET S |-> g[s]]
  BY DEF Sums
<1>3. \A s \in SUBSET S : g[s] \in Int
  BY <1>1
<1> HIDE DEF Q
<1> QED BY <1>2, <1>3

(* Any element can be taken first.                                         *)
TakesAny(g, W, S) == \A s \in SUBSET S : \A x \in s : g[s] = W[x] + g[s \ {x}]

LEMMA SumsTakeAny ==
  ASSUME NEW S, IsFiniteSet(S), NEW W \in [S -> Int],
         NEW g \in [SUBSET S -> Int], Sums(g, W, S)
  PROVE  TakesAny(g, W, S)
<1> DEFINE Q == {z \in SUBSET S : \E y \in z : g[z] # W[y] + g[z \ {y}]}
<1>1. \A z \in SUBSET S : g[z] \in Int
  OBVIOUS
<1>2. \A z \in SUBSET S : z # {} => g[z] = W[Taken(z)] + g[z \ {Taken(z)}]
  BY DEF Sums
<1>3. ASSUME Q # {} PROVE FALSE
  <2>1. PICK z \in Q : \A w \in Q : w \subseteq z => w = z
    <3>1. Q \in SUBSET SUBSET S
      OBVIOUS
    <3> HIDE DEF Q
    <3> QED BY <1>3, <3>1, MinimalSubset
  <2>2. PICK y \in z : g[z] # W[y] + g[z \ {y}]
    OBVIOUS
  <2> DEFINE c == Taken(z)
  <2>3. c \in z /\ c # y
    BY <1>2, <2>2, TakenIn
  <2>4. z \ {c} \in SUBSET S /\ z \ {y} \in SUBSET S /\ z \ {c} \notin Q /\ z \ {y} \notin Q
    BY <2>1, <2>2, <2>3
  <2>5. y \in z \ {c} /\ c \in z \ {y} /\ (z \ {c}) \ {y} = (z \ {y}) \ {c}
    BY <2>2, <2>3
  <2>6. g[z \ {c}] = W[y] + g[(z \ {c}) \ {y}]
    BY <2>4, <2>5
  <2>7. g[z \ {y}] = W[c] + g[(z \ {y}) \ {c}]
    BY <2>4, <2>5
  <2>8. g[z] = W[c] + g[z \ {c}]
    BY <1>2, <2>2
  <2>9. W[c] \in Int /\ W[y] \in Int /\ g[(z \ {c}) \ {y}] \in Int
    BY <1>1, <2>2, <2>3
  <2> HIDE DEF c
  <2>10. g[z] = W[c] + (W[y] + g[(z \ {c}) \ {y}]) /\ g[z \ {y}] = W[c] + g[(z \ {c}) \ {y}]
    BY <2>5, <2>6, <2>7, <2>8
  <2> QED BY <2>2, <2>9, <2>10
<1> QED BY <1>3 DEF TakesAny

(* Sums over the subsets of a subset.                                      *)
LEMMA SumsAgree ==
  ASSUME NEW T, IsFiniteSet(T), NEW W \in [T -> Int], NEW g, Sums(g, W, T),
         NEW V, NEW h,
         NEW S \in SUBSET T, Sums(h, V, S), \A x \in S : V[x] = W[x]
  PROVE  \A s \in SUBSET S : h[s] = g[s]
<1> DEFINE Q == {s \in SUBSET S : h[s] # g[s]}
<1>1. IsFiniteSet(S)
  BY FS_Subset
<1>2. ASSUME Q # {} PROVE FALSE
  <2>1. PICK s \in Q : \A z \in Q : z \subseteq s => z = s
    <3>1. Q \in SUBSET SUBSET S
      OBVIOUS
    <3> HIDE DEF Q
    <3> QED BY <1>1, <1>2, <3>1, MinimalSubset
  <2>2. h[s] = IF s = {} THEN 0 ELSE V[Taken(s)] + h[s \ {Taken(s)}]
    BY DEF Sums
  <2>3. g[s] = IF s = {} THEN 0 ELSE W[Taken(s)] + g[s \ {Taken(s)}]
    BY DEF Sums
  <2>4. s # {} => Taken(s) \in s
    BY TakenIn
  <2>5. s # {} => h[s \ {Taken(s)}] = g[s \ {Taken(s)}]
    BY <2>1, <2>4
  <2> QED BY <2>2, <2>3, <2>4, <2>5
<1> QED BY <1>2

SignedSum(rows, S) == MapThenSumSet(LAMBDA f : Signed(f, rows), S)
QuantitySum(S)     == MapThenSumSet(LAMBDA f : f.quantity, S)

(* The library's sum of what facts add is one of these sums.               *)
LEMMA SumOfSigned ==
  ASSUME NEW T, IsFiniteSet(T), NEW rows, NEW W \in [T -> Int], NEW g, Sums(g, W, T),
         NEW S \in SUBSET T, \A f \in S : W[f] = Signed(f, rows)
  PROVE  SignedSum(rows, S) = g[S]
<1> DEFINE P(h) == h = [s \in SUBSET S |->
              IF s = {} THEN 0 ELSE Signed(Taken(s), rows) + h[s \ {Taken(s)}]]
           V == [f \in S |-> W[f]]
<1>1. SignedSum(rows, S) = (CHOOSE h : P(h))[S]
  BY Zenon DEF SignedSum, MapThenSumSet, MapThenFoldSet, Taken
<1>2. \A h : P(h) <=> Sums(h, V, S)
  <2>1. \A s \in SUBSET S : s # {} => V[Taken(s)] = Signed(Taken(s), rows)
    BY TakenIn
  <2> QED BY <2>1 DEF Sums
<1>3. \E h : Sums(h, V, S)
  BY FS_Subset, SumsExist
<1>4. P(CHOOSE h : P(h))
  <2> HIDE DEF P, V
  <2> QED BY <1>2, <1>3
<1>5. Sums(CHOOSE h : P(h), V, S)
  BY <1>2, <1>4
<1> HIDE DEF P
<1>6. (CHOOSE h : P(h))[S] = g[S]
  BY <1>5, SumsAgree
<1> QED BY <1>1, <1>6

(* So is the library's sum of quantities.                                  *)
LEMMA SumOfQuantities ==
  ASSUME NEW T, IsFiniteSet(T), NEW W \in [T -> Int], NEW g, Sums(g, W, T),
         NEW S \in SUBSET T, \A f \in S : W[f] = f.quantity
  PROVE  QuantitySum(S) = g[S]
<1> DEFINE P(h) == h = [s \in SUBSET S |->
              IF s = {} THEN 0 ELSE Taken(s).quantity + h[s \ {Taken(s)}]]
           V == [f \in S |-> W[f]]
<1>1. QuantitySum(S) = (CHOOSE h : P(h))[S]
  BY Zenon DEF QuantitySum, MapThenSumSet, MapThenFoldSet, Taken
<1>2. \A h : P(h) <=> Sums(h, V, S)
  <2>1. \A s \in SUBSET S : s # {} => V[Taken(s)] = Taken(s).quantity
    BY TakenIn
  <2> QED BY <2>1 DEF Sums
<1>3. \E h : Sums(h, V, S)
  BY FS_Subset, SumsExist
<1>4. P(CHOOSE h : P(h))
  <2> HIDE DEF P, V
  <2> QED BY <1>2, <1>3
<1>5. Sums(CHOOSE h : P(h), V, S)
  BY <1>2, <1>4
<1> HIDE DEF P
<1>6. (CHOOSE h : P(h))[S] = g[S]
  BY <1>5, SumsAgree
<1> QED BY <1>1, <1>6

LEMMA SumsOfNothing ==
  ASSUME NEW W, NEW S, NEW g, Sums(g, W, S)
  PROVE  g[{}] = 0
BY DEF Sums

(* Elements whose weights cancel in pairs do not count.                    *)
Paired(mate, R, W, L) ==
  /\ R \in SUBSET L /\ mate \in [R -> L \ R]
  /\ \A q, r \in R : mate[q] = mate[r] => q = r
  /\ \A r \in R : W[r] + W[mate[r]] = 0

Unpaired(mate, R, L) == L \ (R \union {mate[r] : r \in R})

LEMMA PairsCancel ==
  ASSUME NEW L, IsFiniteSet(L), NEW W \in [L -> Int],
         NEW g \in [SUBSET L -> Int], Sums(g, W, L),
         NEW R, NEW mate, Paired(mate, R, W, L)
  PROVE  g[L] = g[Unpaired(mate, R, L)]
<1>p. /\ R \in SUBSET L /\ mate \in [R -> L \ R]
      /\ \A q, r \in R : mate[q] = mate[r] => q = r
      /\ \A r \in R : W[r] + W[mate[r]] = 0
  BY DEF Paired
<1> DEFINE Left(z) == L \ (z \union {mate[r] : r \in z})
           Q == {z \in SUBSET R : g[L] # g[Left(z)]}
<1>0. TakesAny(g, W, L)
  BY SumsTakeAny
<1>1. IsFiniteSet(R)
  BY <1>p, FS_Subset
<1>2. ASSUME Q # {} PROVE FALSE
  <2>1. PICK z \in Q : \A w \in Q : w \subseteq z => w = z
    <3>1. Q \in SUBSET SUBSET R
      OBVIOUS
    <3> HIDE DEF Q
    <3> QED BY <1>1, <1>2, <3>1, MinimalSubset
  <2>2. z # {}
    <3>1. Left({}) = L
      OBVIOUS
    <3> QED BY <3>1
  <2>3. PICK r \in z : TRUE
    BY <2>2
  <2> DEFINE X == Left(z \ {r})
             m == mate[r]
  <2>4. g[L] = g[X]
    <3>1. z \ {r} \in SUBSET R /\ z \ {r} \notin Q
      BY <2>1, <2>3
    <3> HIDE DEF Left
    <3> QED BY <3>1
  <2>5. r \in R /\ m \in L /\ m \notin R /\ m # r /\ X \in SUBSET L
    BY <1>p, <2>1, <2>3
  <2>6. r \in X /\ m \in X \ {r}
    BY <1>p, <2>1, <2>3, <2>5
  <2>7. (X \ {r}) \ {m} = Left(z)
    BY <1>p, <2>1, <2>3, <2>5
  <2> HIDE DEF Left, X, m
  <2>8. g[X] = W[r] + g[X \ {r}]
    BY <1>0, <2>5, <2>6 DEF TakesAny
  <2>9. g[X \ {r}] = W[m] + g[(X \ {r}) \ {m}]
    BY <1>0, <2>5, <2>6 DEF TakesAny
  <2>10. W[r] \in Int /\ W[m] \in Int /\ W[r] + W[m] = 0
    BY <1>p, <2>5 DEF m
  <2>11. g[(X \ {r}) \ {m}] \in Int
    BY <2>5
  <2>12. g[X] = g[(X \ {r}) \ {m}]
    BY <2>8, <2>9, <2>10, <2>11
  <2> QED BY <2>1, <2>4, <2>7, <2>12
<1>3. R \notin Q
  BY <1>2
<1> QED BY <1>3 DEF Unpaired

(* Without reversals the sum is what was bought minus what was sold.       *)
Plain(L, W, V, rows) ==
  \A f \in L : /\ f.quantity \in Int /\ f.kind # "REVERSAL"
              /\ W[f] = Signed(f, rows) /\ V[f] = f.quantity

Net(q, L) == q[{f \in L : f.kind = "BUY"}] - q[{f \in L : f.kind = "SELL"}]

\* g sums the signed quantities of L, and q its quantities.
Tallied(g, W, q, V, L, rows) ==
  /\ IsFiniteSet(L) /\ Plain(L, W, V, rows)
  /\ W \in [L -> Int] /\ g \in [SUBSET L -> Int] /\ Sums(g, W, L)
  /\ V \in [L -> Int] /\ q \in [SUBSET L -> Int] /\ Sums(q, V, L)

LEMMA TradesCount ==
  ASSUME NEW L, NEW rows, NEW W, NEW g, NEW V, NEW q, Tallied(g, W, q, V, L, rows)
  PROVE  g[L] = Net(q, L)
<1>f. /\ IsFiniteSet(L) /\ Sums(g, W, L) /\ Sums(q, V, L)
      /\ W \in [L -> Int] /\ g \in [SUBSET L -> Int]
      /\ V \in [L -> Int] /\ q \in [SUBSET L -> Int]
  BY DEF Tallied
<1>p. \A f \in L : /\ f.quantity \in Int /\ f.kind # "REVERSAL"
                  /\ W[f] = Signed(f, rows) /\ V[f] = f.quantity
  BY DEF Plain, Tallied
<1> DEFINE Of(z, kind) == {f \in z : f.kind = kind}
           Q == {z \in SUBSET L : g[z] # q[Of(z, "BUY")] - q[Of(z, "SELL")]}
<1>0. TakesAny(g, W, L) /\ TakesAny(q, V, L)
  BY <1>f, SumsTakeAny
<1>1. \A z \in SUBSET L : g[z] \in Int /\ q[z] \in Int
  BY <1>f
<1>4. \A z \in SUBSET L : \A f \in z : g[z] = W[f] + g[z \ {f}]
  BY <1>0 DEF TakesAny
<1>2. ASSUME Q # {} PROVE FALSE
  <2>1. PICK z \in Q : \A w \in Q : w \subseteq z => w = z
    <3>1. Q \in SUBSET SUBSET L
      OBVIOUS
    <3> HIDE DEF Q
    <3> QED BY <1>f, <1>2, <3>1, MinimalSubset
  <2>2. z # {}
    <3>1. g[{}] = 0 /\ q[{}] = 0
      BY <1>f, SumsOfNothing
    <3>2. Of({}, "BUY") = {} /\ Of({}, "SELL") = {}
      OBVIOUS
    <3>3. g[Of({}, "BUY")] = 0 /\ q[Of({}, "BUY")] - q[Of({}, "SELL")] = 0 /\ g[{}] = 0
      BY <3>1, <3>2
    <3> HIDE DEF Of
    <3>4. {} \notin Q
      BY <3>3
    <3> QED BY <2>1, <3>4
  <2>3. PICK f \in z : TRUE
    BY <2>2
  <2> DEFINE w == z \ {f}
  <2>4. g[w] = q[Of(w, "BUY")] - q[Of(w, "SELL")]
    <3>1. w \in SUBSET L /\ w \notin Q
      BY <2>1, <2>3
    <3> HIDE DEF w, Of
    <3> QED BY <3>1
  <2>5. g[z] = Signed(f, rows) + g[w]
    <3>1. z \in SUBSET L /\ f \in L
      BY <2>1, <2>3
    <3>2. g[z] = W[f] + g[w]
      BY <1>4, <2>3, <3>1
    <3> QED BY <1>p, <3>1, <3>2
  <2>6. ASSUME NEW kind, f.kind = kind
        PROVE  q[Of(z, kind)] = f.quantity + q[Of(w, kind)]
    <3>1. f \in Of(z, kind) /\ Of(z, kind) \in SUBSET L /\ Of(z, kind) \ {f} = Of(w, kind)
      BY <2>3, <2>6
    <3> HIDE DEF Of
    <3>2. q[Of(z, kind)] = V[f] + q[Of(z, kind) \ {f}]
      BY <1>0, <3>1 DEF TakesAny
    <3> QED BY <1>p, <2>1, <2>3, <3>1, <3>2
  <2>7. ASSUME NEW kind, f.kind # kind
        PROVE  q[Of(z, kind)] = q[Of(w, kind)]
    <3>1. Of(z, kind) = Of(w, kind)
      BY <2>3, <2>7
    <3> QED BY <3>1
  <2>8. /\ g[w] \in Int /\ q[Of(w, "BUY")] \in Int /\ q[Of(w, "SELL")] \in Int
        /\ f.quantity \in Int /\ f.kind # "REVERSAL"
    BY <1>1, <1>p, <2>1, <2>3
  <2>9. g[z] # q[Of(z, "BUY")] - q[Of(z, "SELL")]
    BY <2>1
  <2> HIDE DEF Of, w, Q
  <2>10. CASE f.kind = "BUY"
    BY <2>4, <2>5, <2>6, <2>7, <2>8, <2>9, <2>10 DEF Signed
  <2>11. CASE f.kind = "SELL"
    BY <2>4, <2>5, <2>6, <2>7, <2>8, <2>9, <2>11 DEF Signed
  <2>12. CASE f.kind \notin {"BUY", "SELL"}
    <3>1. Signed(f, rows) = 0
      BY <2>8, <2>12 DEF Signed
    <3> QED BY <2>4, <2>5, <2>7, <2>8, <2>9, <2>12, <3>1
  <2> QED BY <2>10, <2>11, <2>12
<1>3. L \notin Q
  BY <1>2
<1> QED BY <1>3 DEF Net

(* Facts of one portfolio, told apart by their sequence.                   *)
Ordered(S) ==
  /\ IsFiniteSet(S)
  /\ \A f \in S : f.seq \in Int /\ f.effectiveAt \in Int
  /\ \A f, g \in S : f.seq = g.seq => f = g

(* The replay order is total, strict and transitive.                       *)
LEMMA OrderLaws ==
  ASSUME NEW S, Ordered(S)
  PROVE  /\ \A f \in S : ~Precedes(f, f)
         /\ \A f, g \in S : f = g \/ Precedes(f, g) \/ Precedes(g, f)
         /\ \A f, g, h \in S : Precedes(f, g) /\ Precedes(g, h) => Precedes(f, h)
<1>1. \A f \in S : ~Precedes(f, f)
  BY DEF Ordered, Precedes
<1>2. \A f, g \in S : f = g \/ Precedes(f, g) \/ Precedes(g, f)
  BY DEF Ordered, Precedes
<1>3. \A f, g, h \in S : Precedes(f, g) /\ Precedes(g, h) => Precedes(f, h)
  BY DEF Ordered, Precedes
<1> QED
  BY <1>1, <1>2, <1>3

(* The replay order lists every fact once, the earlier ones first.         *)
Lists(s, n, S) ==
  /\ n \in Nat
  /\ s \in [1..n -> S]
  /\ \A f \in S : \E i \in 1..n : s[i] = f
  /\ \A i, j \in 1..n : i < j => Precedes(s[i], s[j])

LEMMA ReplayOrder ==
  ASSUME NEW S, Ordered(S)
  PROVE  Lists(InReplayOrder(S), Cardinality(S), S)
<1> DEFINE n       == Cardinality(S)
           s       == InReplayOrder(S)
           Prior(f) == {y \in S : Precedes(y, f)}
           rank    == [f \in S |-> Cardinality(Prior(f)) + 1]
<1>1. IsFiniteSet(S) /\ n \in Nat
  BY FS_CardinalityType DEF Ordered
<1>2. \A f \in S : IsFiniteSet(Prior(f)) /\ Cardinality(Prior(f)) \in Nat
  <2> SUFFICES ASSUME NEW f \in S
               PROVE  IsFiniteSet(Prior(f)) /\ Cardinality(Prior(f)) \in Nat
    OBVIOUS
  <2>1. Prior(f) \in SUBSET S
    OBVIOUS
  <2> HIDE DEF Prior
  <2> QED BY <1>1, <2>1, FS_Subset, FS_CardinalityType
<1>3. ASSUME NEW f \in S, NEW T \in SUBSET S, Prior(f) \subseteq T, f \in T
      PROVE  Cardinality(Prior(f)) < Cardinality(T)
  <2>1. f \notin Prior(f)
    BY OrderLaws
  <2> HIDE DEF Prior
  <2>2. IsFiniteSet(T) /\ Cardinality(T) \in Nat
    BY <1>1, FS_Subset, FS_CardinalityType
  <2>3. Cardinality(Prior(f)) <= Cardinality(T) /\ Cardinality(Prior(f)) # Cardinality(T)
    BY <1>3, <2>1, <2>2, FS_Subset
  <2> QED BY <1>2, <2>2, <2>3
<1>4. rank \in [S -> 1..n]
  <2>1. \A f \in S : Cardinality(Prior(f)) < n
    <3> SUFFICES ASSUME NEW f \in S PROVE Cardinality(Prior(f)) < n
      OBVIOUS
    <3>1. S \in SUBSET S /\ Prior(f) \subseteq S
      OBVIOUS
    <3> QED BY <1>3, <3>1
  <2> HIDE DEF Prior
  <2> QED BY <1>1, <1>2, <2>1
<1>5. \A f, g \in S : Precedes(f, g) => rank[f] < rank[g]
  <2> SUFFICES ASSUME NEW f \in S, NEW g \in S, Precedes(f, g)
               PROVE  Cardinality(Prior(f)) + 1 < Cardinality(Prior(g)) + 1
    OBVIOUS
  <2>1. Prior(g) \in SUBSET S /\ Prior(f) \subseteq Prior(g) /\ f \in Prior(g)
    BY OrderLaws
  <2>2. Cardinality(Prior(f)) < Cardinality(Prior(g))
    BY <1>3, <2>1
  <2> HIDE DEF Prior
  <2> QED BY <1>2, <2>2
<1>6. \A f \in S : rank[f] = Cardinality(Prior(f)) + 1 /\ rank[f] \in 1..n
  BY <1>4
<1> HIDE DEF rank, s
<1>7. \A f, g \in S : rank[f] = rank[g] => f = g
  <2> SUFFICES ASSUME NEW f \in S, NEW g \in S, rank[f] = rank[g] PROVE f = g
    OBVIOUS
  <2>1. f = g \/ Precedes(f, g) \/ Precedes(g, f)
    BY OrderLaws
  <2>2. rank[f] \in 1..n /\ rank[g] \in 1..n
    BY <1>6
  <2> HIDE DEF n
  <2>3. ~(rank[f] < rank[g]) /\ ~(rank[g] < rank[f])
    BY <1>1, <2>2
  <2> QED BY <1>5, <2>1, <2>3
<1>8. \A i \in 1..n : \E f \in S : rank[f] = i
  <2>1. rank \in Injection(S, 1..n)
    BY <1>4, <1>7, Fun_IsInj
  <2>2. IsFiniteSet(1..n) /\ Cardinality(1..n) = n
    BY <1>1, FS_Interval
  <2>3. rank \in Surjection(S, 1..n)
    BY <1>1, <2>1, <2>2, FS_Injection
  <2> QED BY <2>3 DEF Surjection
<1>9. ASSUME NEW i \in 1..n
      PROVE  s[i] \in S /\ rank[s[i]] = i
  <2>1. PICK f \in S : rank[f] = i
    BY <1>8
  <2>2. \A x \in S : Cardinality(Prior(x)) = i - 1 <=> rank[x] = i
    <3> HIDE DEF Prior
    <3> QED BY <1>1, <1>2, <1>6
  <2>3. s[i] = CHOOSE x \in S : Cardinality(Prior(x)) = i - 1
    BY <1>1, Zenon DEF InReplayOrder, s
  <2> HIDE DEF Prior
  <2> QED BY <2>1, <2>2, <2>3
<1>10. s \in [1..n -> S]
  <2> DEFINE at(i) == CHOOSE x \in S : Cardinality(Prior(x)) = i - 1
  <2>1. s = [i \in 1..n |-> at(i)]
    BY Zenon DEF InReplayOrder, s
  <2> HIDE DEF at
  <2>2. \A i \in 1..n : at(i) \in S
    BY <1>9, <2>1
  <2> QED BY <2>1, <2>2
<1>11. \A f \in S : \E i \in 1..n : s[i] = f
  BY <1>6, <1>7, <1>9
<1>12. \A i, j \in 1..n : i < j => Precedes(s[i], s[j])
  <2> SUFFICES ASSUME NEW i \in 1..n, NEW j \in 1..n, i < j PROVE Precedes(s[i], s[j])
    OBVIOUS
  <2>1. s[i] \in S /\ s[j] \in S /\ rank[s[i]] = i /\ rank[s[j]] = j
    BY <1>9
  <2>2. i \in Int /\ j \in Int
    BY <1>1
  <2>3. s[i] # s[j]
    BY <2>1, <2>2
  <2>4. ASSUME Precedes(s[j], s[i]) PROVE FALSE
    <3>1. rank[s[j]] < rank[s[i]]
      BY <1>5, <2>1, <2>4
    <3> QED BY <2>1, <2>2, <3>1
  <2> QED BY <2>1, <2>3, <2>4, OrderLaws
<1> QED
  BY <1>1, <1>10, <1>11, <1>12 DEF Lists, s

(* What a fact adds to a balance is a number.                              *)
LEMMA SignedIsInt ==
  ASSUME NEW f, f.quantity \in Int, NEW rows
  PROVE  Signed(f, rows) \in Int
BY DEF Signed

(* A sum with one more fact in it.                                         *)
LEMMA SumOfOneMore ==
  ASSUME NEW T, IsFiniteSet(T), \A f \in T : f.quantity \in Int, NEW rows,
         NEW S \in SUBSET T, NEW x \in T \ S
  PROVE  /\ SignedSum(rows, S) \in Int
         /\ SignedSum(rows, S \union {x}) = SignedSum(rows, S) + Signed(x, rows)
<1> DEFINE W == [f \in T |-> Signed(f, rows)]
<1>1. W \in [T -> Int] /\ \A f \in T : W[f] = Signed(f, rows)
  BY SignedIsInt
<1> HIDE DEF W
<1>2. PICK g \in [SUBSET T -> Int] : Sums(g, W, T)
  BY <1>1, SumsExist
<1> DEFINE Z == S \union {x}
<1>3. Z \in SUBSET T /\ x \in Z /\ Z \ {x} = S
  OBVIOUS
<1> HIDE DEF Z
<1>4. SignedSum(rows, S) = g[S]
  BY <1>1, <1>2, SumOfSigned
<1>5. SignedSum(rows, Z) = g[Z]
  BY <1>1, <1>2, <1>3, SumOfSigned
<1>6. TakesAny(g, W, T)
  BY <1>1, <1>2, SumsTakeAny
<1>7. g[Z] = W[x] + g[S]
  BY <1>3, <1>6 DEF TakesAny
<1>8. W[x] \in Int /\ g[S] \in Int
  BY <1>1
<1> QED BY <1>1, <1>4, <1>5, <1>7, <1>8 DEF Z

(* Nothing adds up to 0.                                                   *)
LEMMA SumOfNothing ==
  ASSUME NEW rows
  PROVE  SignedSum(rows, {}) = 0
<1> DEFINE none == {}
           W == [f \in none |-> 0]
<1>1. IsFiniteSet(none) /\ W \in [none -> Int] /\ none \in SUBSET none
      /\ \A f \in none : W[f] = Signed(f, rows)
  BY FS_EmptySet
<1> HIDE DEF none, W
<1>2. PICK g \in [SUBSET none -> Int] : Sums(g, W, none)
  BY <1>1, SumsExist
<1>3. SignedSum(rows, none) = g[none]
  BY <1>1, <1>2, SumOfSigned
<1>4. g[none] = 0
  BY <1>2, SumsOfNothing DEF none
<1> QED BY <1>3, <1>4 DEF none

(* The scan of a sequence is the last of its accumulators.                 *)
Scanned(s, start, ledger, candidates) ==
  FoldLeft(LAMBDA acc, f : ScanStep(acc, f, ledger, candidates), start, s)

Accumulates(h, s, start, ledger, candidates) ==
  h = [z \in SUBSET DOMAIN s |->
         IF z = {} THEN start
         ELSE ScanStep(h[z \ {Max(z)}], s[Max(z)], ledger, candidates)]

(* The library's fold over a sequence takes its last place first.          *)
LEMMA ScannedIsFold ==
  ASSUME NEW s, NEW start, NEW ledger, NEW candidates
  PROVE  Scanned(s, start, ledger, candidates)
         = (CHOOSE h : Accumulates(h, s, start, ledger, candidates))[DOMAIN s]
BY Zenon DEF Scanned, FoldLeft, MapThenFoldSet, Accumulates

LEMMA MaxIn ==
  ASSUME NEW n \in Nat, NEW z \in SUBSET (1..n), z # {}
  PROVE  Max(z) \in z
<1> DEFINE T == {n - i : i \in z}
<1>1. T \subseteq Nat /\ T # {}
  <2>1. \A i \in z : n - i \in Nat
    OBVIOUS
  <2>2. PICK i \in z : TRUE
    OBVIOUS
  <2>3. n - i \in T
    OBVIOUS
  <2> QED BY <2>1, <2>3
<1>2. \A m \in T : n - m \in z
  OBVIOUS
<1> HIDE DEF T
<1>3. PICK m \in T : \A k \in T : <<k, m>> \notin Less
  BY <1>1, LessWellFounded, WFMin
<1>4. \A i \in z : n - m >= i
  <2> SUFFICES ASSUME NEW i \in z PROVE n - m >= i
    OBVIOUS
  <2>1. n - i \in T
    BY DEF T
  <2>2. ~(n - i < m)
    BY <1>1, <1>3, <2>1 DEF Less
  <2> QED BY <1>1, <2>1, <2>2
<1> QED BY <1>2, <1>4 DEF Max

Steps(acc, s, n, start, ledger, candidates) ==
  /\ acc[0] = start
  /\ \A k \in 1..n : acc[k] = ScanStep(acc[k - 1], s[k], ledger, candidates)
  /\ acc[n] = Scanned(s, start, ledger, candidates)

(* One accumulator after each fact, the first being the start.             *)
LEMMA ScannedBySteps ==
  ASSUME NEW n \in Nat, NEW s, DOMAIN s = 1..n, NEW V, NEW start \in V,
         NEW ledger, NEW candidates,
         \A v \in V, i \in 1..n : ScanStep(v, s[i], ledger, candidates) \in V
  PROVE  \E acc \in [0..n -> V] : Steps(acc, s, n, start, ledger, candidates)
<1> DEFINE step == [p \in V \X (1..n) |-> ScanStep(p[1], s[p[2]], ledger, candidates)]
           pick == [z \in SUBSET (1..n) |-> Max(z)]
           D    == 1..n
           P(h) == Accumulates(h, s, start, ledger, candidates)
<1>1. step \in [V \X D -> V]
  OBVIOUS
<1>2. \A v \in V, i \in D : step[<<v, i>>] = ScanStep(v, s[i], ledger, candidates)
  OBVIOUS
<1>3. IsFiniteSet(D)
  BY FS_Interval
<1>4. \A z \in SUBSET D : z # {} => Max(z) \in z
  BY MaxIn
<1>5. \A z \in SUBSET D : pick[z] = Max(z)
  OBVIOUS
<1> HIDE DEF step, pick
<1>6. \E h : P(h)
  <2>1. Picks(pick, D)
    BY <1>4, <1>5 DEF Picks
  <2> HIDE DEF D
  <2>2. PICK g \in [SUBSET D -> V] : Recurs(g, step, start, pick, D)
    BY <1>1, <1>3, <2>1, FoldsExist
  <2>3. ASSUME NEW z \in SUBSET D, z # {}
        PROVE  g[z] = ScanStep(g[z \ {Max(z)}], s[Max(z)], ledger, candidates)
    <3>1. z \ {Max(z)} \in SUBSET D /\ Max(z) \in D
      BY <1>4, <2>3
    <3>2. g[z] = step[<<g[z \ {Max(z)}], Max(z)>>]
      BY <1>5, <2>2, <2>3 DEF Recurs
    <3> QED BY <1>2, <3>1, <3>2
  <2>4. g[{}] = start
    BY <2>2 DEF Recurs
  <2>5. DOMAIN s = D
    BY DEF D
  <2>6. P(g)
    BY <2>2, <2>3, <2>4, <2>5 DEF Accumulates
  <2> QED BY <2>6
<1> DEFINE h == CHOOSE k : P(k)
<1>7. P(h)
  BY <1>6
<1> HIDE DEF h
<1>8. \A z \in SUBSET D :
        h[z] = IF z = {} THEN start
               ELSE ScanStep(h[z \ {Max(z)}], s[Max(z)], ledger, candidates)
  BY <1>7 DEF Accumulates
<1>9. \A k \in 0..n : 1..k \in SUBSET D
  OBVIOUS
<1>10. ASSUME NEW k \in 1..n
       PROVE  h[1..k] = ScanStep(h[1..(k - 1)], s[k], ledger, candidates)
  <2>1. 1..k \in SUBSET D /\ 1..k # {}
    <3>1. k \in 1..k /\ \A i \in 1..k : i \in D
      OBVIOUS
    <3> HIDE DEF D
    <3> QED BY <3>1, Zenon
  <2>2. Max(1..k) = k
    BY DEF Max
  <2>3. (1..k) \ {k} = 1..(k - 1)
    OBVIOUS
  <2> HIDE DEF D
  <2> QED BY <1>8, <2>1, <2>2, <2>3
<1>11. h[1..0] = start
  <2>1. 1..0 = {} /\ 1..0 \in SUBSET D
    OBVIOUS
  <2> HIDE DEF D
  <2> QED BY <1>8, <2>1
<1>12. h[1..n] = Scanned(s, start, ledger, candidates)
  BY ScannedIsFold DEF h
<1> DEFINE acc == [k \in 0..n |-> h[1..k]]
<1>13. \A k \in 0..n : acc[k] \in V
  <2> DEFINE T == {k \in Nat : k <= n => h[1..k] \in V}
  <2>1. 0 \in T
    BY <1>11
  <2>2. ASSUME NEW k \in T, k \in Nat PROVE k + 1 \in T
    <3>1. CASE k + 1 <= n
      <4>1. h[1..k] \in V /\ k + 1 \in 1..n /\ (k + 1) - 1 = k
        BY <3>1
      <4>2. h[1..(k + 1)] = ScanStep(h[1..k], s[k + 1], ledger, candidates)
        BY <1>10, <4>1
      <4> QED BY <4>1, <4>2
    <3> QED BY <2>2, <3>1
  <2>3. Nat \subseteq T
    <3> HIDE DEF T
    <3> QED BY <2>1, <2>2, UpFromZero
  <2> QED BY <2>3
<1>14. Steps(acc, s, n, start, ledger, candidates)
  <2>1. acc[0] = start /\ acc[n] = Scanned(s, start, ledger, candidates)
    BY <1>11, <1>12
  <2>2. \A k \in 1..n : acc[k] = ScanStep(acc[k - 1], s[k], ledger, candidates)
    <3> SUFFICES ASSUME NEW k \in 1..n
                 PROVE  acc[k] = ScanStep(acc[k - 1], s[k], ledger, candidates)
      OBVIOUS
    <3>1. acc[k] = h[1..k] /\ acc[k - 1] = h[1..(k - 1)]
      OBVIOUS
    <3> HIDE DEF acc
    <3> QED BY <1>10, <3>1
  <2> QED BY <2>1, <2>2 DEF Steps
<1>15. acc \in [0..n -> V]
  BY <1>13
<1> HIDE DEF acc
<1> QED BY <1>14, <1>15

(* A ledger the replay can be run on.                                      *)
Replayable(S) ==
  /\ IsFiniteSet(S)
  /\ \A f \in S : f.seq \in Int /\ f.effectiveAt \in Int /\ f.quantity \in Nat

(* The accumulators of the scan.                                           *)
HeldAssets(S)  == {f.asset : f \in S}
Scans(S)   == [verdict : {"OK", "INVALID_BACKDATED", "INSUFFICIENT_QUANTITY"},
               seen : SUBSET HeldAssets(S), balance : [HeldAssets(S) -> Int]]

(* A step of the scan stays within the types.                              *)
LEMMA ScanStepType ==
  ASSUME NEW S, Replayable(S), NEW v \in Scans(S), NEW f \in S, NEW candidates
  PROVE  ScanStep(v, f, S, candidates) \in Scans(S)
<1>1. f.asset \in HeldAssets(S) /\ f.quantity \in Int
  BY DEF Replayable, HeldAssets
<1>2. Signed(f, AssetRows(S, f.asset)) \in Int
  BY <1>1, SignedIsInt
<1> DEFINE d == Signed(f, AssetRows(S, f.asset))
<1> HIDE DEF d
<1>3. d \in Int
  BY <1>2 DEF d
<1> DEFINE A == HeldAssets(S)
<1> HIDE DEF A
<1>4. f.asset \in A /\ v \in [verdict : {"OK", "INVALID_BACKDATED", "INSUFFICIENT_QUANTITY"},
               seen : SUBSET A, balance : [A -> Int]]
  BY <1>1 DEF A, Scans
<1>5. v.balance[f.asset] + d \in Int
  BY <1>3, <1>4
<1>6. ScanStep(v, f, S, candidates) \in
         [verdict : {"OK", "INVALID_BACKDATED", "INSUFFICIENT_QUANTITY"},
          seen : SUBSET A, balance : [A -> Int]]
  BY <1>4, <1>5 DEF ScanStep, d
<1> QED BY <1>6 DEF A, Scans

(* The facts among the first k of the replay order.                        *)
Passed(s, k) == {s[i] : i \in 1..k}

(* Those before the k-th fact are those that precede it.                   *)
LEMMA PassedFacts ==
  ASSUME NEW S, Ordered(S), NEW s, NEW n, Lists(s, n, S), NEW k \in 1..n
  PROVE  /\ s[k] \in S
         /\ Passed(s, k - 1) \subseteq S
         /\ s[k] \notin Passed(s, k - 1)
         /\ Passed(s, k) = Passed(s, k - 1) \union {s[k]}
         /\ Passed(s, k - 1) = {g \in S : Precedes(g, s[k])}
<1>1. /\ n \in Nat /\ s \in [1..n -> S]
      /\ \A f \in S : \E i \in 1..n : s[i] = f
      /\ \A i, j \in 1..n : i < j => Precedes(s[i], s[j])
  BY DEF Lists
<1>2. k \in 1..n /\ k \in Int
  BY <1>1
<1>3. s[k] \in S
  BY <1>1, <1>2
<1>4. \A i \in 1..(k - 1) : i \in 1..n /\ i < k /\ i # k
  BY <1>1, <1>2
<1>5. \A i \in 1..(k - 1) : s[i] \in S /\ Precedes(s[i], s[k])
  BY <1>1, <1>2, <1>4
<1>6. s[k] \notin Passed(s, k - 1)
  BY <1>3, <1>5, OrderLaws DEF Passed
<1>7. Passed(s, k) = Passed(s, k - 1) \union {s[k]}
  <2>1. \A i : i \in 1..k <=> (i \in 1..(k - 1) \/ i = k)
    BY <1>1, <1>2
  <2> QED BY <2>1 DEF Passed
<1>8. ASSUME NEW g \in S, Precedes(g, s[k])
      PROVE  g \in Passed(s, k - 1)
  <2>1. PICK i \in 1..n : s[i] = g
    BY <1>1
  <2>2. i # k
    BY <1>3, <1>8, <2>1, OrderLaws
  <2>3. ~(k < i)
    <3> SUFFICES ASSUME k < i PROVE FALSE
      OBVIOUS
    <3>1. Precedes(s[k], g)
      BY <1>1, <1>2, <2>1
    <3> QED BY <1>3, <1>8, <3>1, OrderLaws
  <2>4. i \in 1..(k - 1)
    BY <1>1, <1>2, <2>2, <2>3
  <2> QED BY <2>1, <2>4 DEF Passed
<1>9. \A g \in Passed(s, k - 1) : g \in S /\ Precedes(g, s[k])
  BY <1>5 DEF Passed
<1> QED
  BY <1>3, <1>6, <1>7, <1>8, <1>9

(* What the scan has worked out once it has passed some facts and stopped  *)
(* at none of them.                                                        *)
Keeps(v, S, done, candidates) ==
  /\ v.verdict = "OK"
  /\ \A x \in HeldAssets(S) : x # NoAsset =>
       /\ v.balance[x] = SignedSum(AssetRows(S, x), AssetRows(done, x))
       /\ x \in v.seen <=> \E c \in candidates : c \in done /\ c.asset = x

(* A fact without a quantity adds nothing.                                 *)
LEMMA NothingSigned ==
  ASSUME NEW f, f.quantity = 0, NEW rows
  PROVE  Signed(f, rows) = 0
<1> DEFINE q == f.quantity
<1>1. q = 0
  OBVIOUS
<1>2. -q = 0
  <2> DEFINE r == -q
  <2>1. r \in Int /\ q + r = 0
    BY <1>1
  <2>2. r = 0
    <3> HIDE DEF q, r
    <3> QED BY <1>1, <2>1
  <2> QED BY <2>2
<1>3. Signed(f, rows) \in {q, -q, 0}
  BY Zenon DEF Signed
<1> HIDE DEF q
<1> QED BY <1>1, <1>2, <1>3

(* The next fact f of a replay that has passed those before it.            *)
Follows(S, done, f) ==
  /\ f \in S
  /\ done = {g \in S : Precedes(g, f)}
  /\ f \notin done

(* The running balance is the balance right after the fact.                *)
LEMMA RunningBalance ==
  ASSUME NEW S, Replayable(S), NEW done, NEW f, Follows(S, done, f),
         NEW candidates, NEW v, Keeps(v, S, done, candidates), f.asset # NoAsset
  PROVE  /\ v.balance[f.asset] \in Int
         /\ Balance(f, AssetRows(S, f.asset))
              = v.balance[f.asset] + Signed(f, AssetRows(S, f.asset))
         /\ SignedSum(AssetRows(S, f.asset), AssetRows(done \union {f}, f.asset))
              = v.balance[f.asset] + Signed(f, AssetRows(S, f.asset))
<1> DEFINE rows == AssetRows(S, f.asset)
           before == AssetRows(done, f.asset)
<1>1. f \in S /\ f.asset \in HeldAssets(S) /\ IsFiniteSet(S)
      /\ \A g \in S : g.quantity \in Int
  BY DEF Follows, HeldAssets, Replayable
<1>2. /\ before \in SUBSET S /\ f \in S \ before
      /\ AssetRows(done \union {f}, f.asset) = before \union {f}
      /\ {g \in rows : g = f \/ Precedes(g, f)} = before \union {f}
  BY DEF Follows, AssetRows
<1>3. Balance(f, rows) = SignedSum(rows, {g \in rows : g = f \/ Precedes(g, f)})
  BY Zenon DEF Balance, SignedSum
<1>4. v.balance[f.asset] = SignedSum(rows, before)
  BY <1>1 DEF Keeps
<1> HIDE DEF rows, before
<1>5. /\ SignedSum(rows, before) \in Int
      /\ SignedSum(rows, before \union {f}) = SignedSum(rows, before) + Signed(f, rows)
  BY <1>1, <1>2, SumOfOneMore
<1> QED BY <1>2, <1>3, <1>4, <1>5 DEF rows

(* At an overdrawn fact the scan stops, with the verdict of its cause.     *)
LEMMA ScanStops ==
  ASSUME NEW S, Replayable(S), NEW done, NEW f, Follows(S, done, f),
         NEW candidates, candidates \subseteq S,
         NEW v \in Scans(S), Keeps(v, S, done, candidates), f \in Overdrawn(S)
  PROVE  ScanStep(v, f, S, candidates).verdict
         = IF LaterExisting(f, candidates)
           THEN "INVALID_BACKDATED" ELSE "INSUFFICIENT_QUANTITY"
<1>1. /\ f.asset # NoAsset /\ f.quantity > 0
      /\ Balance(f, AssetRows(S, f.asset)) < 0
  BY DEF Overdrawn
<1>2. f \in S /\ f.asset \in HeldAssets(S) /\ f.quantity \in Nat
  BY DEF Follows, HeldAssets, Replayable
<1> DEFINE b == v.balance[f.asset] + Signed(f, AssetRows(S, f.asset))
<1>3. b < 0
  BY <1>1, RunningBalance
<1>4. b \in Int
  <2>1. v.balance[f.asset] \in Int
    BY <1>1, RunningBalance
  <2>2. Signed(f, AssetRows(S, f.asset)) \in Int
    BY <1>2, SignedIsInt
  <2> QED BY <2>1, <2>2
<1>5. v.verdict = "OK"
  BY DEF Keeps
<1>6. f \notin candidates =>
        (LaterExisting(f, candidates) <=> f.asset \in v.seen)
  BY <1>1, <1>2 DEF LaterExisting, Keeps, Follows
<1>7. f \in candidates => ~LaterExisting(f, candidates)
  BY DEF LaterExisting
<1> DEFINE seen == IF f \in candidates THEN v.seen \union {f.asset} ELSE v.seen
           why  == IF f \notin candidates /\ f.asset \in seen
                   THEN "INVALID_BACKDATED" ELSE "INSUFFICIENT_QUANTITY"
<1>8. ScanStep(v, f, S, candidates) = [v EXCEPT !.verdict = why]
  <2>1. ~(b >= 0) /\ f.quantity # 0
    BY <1>1, <1>2, <1>3, <1>4
  <2> QED BY <1>1, <1>5, <2>1 DEF ScanStep
<1>9. [v EXCEPT !.verdict = why].verdict = why
  <2> HIDE DEF why
  <2> QED BY DEF Scans
<1> QED BY <1>6, <1>7, <1>8, <1>9

(* At any other fact it goes on.                                           *)
LEMMA ScanGoesOn ==
  ASSUME NEW S, Replayable(S), NEW done, NEW f, Follows(S, done, f),
         NEW candidates,
         NEW v \in Scans(S), Keeps(v, S, done, candidates), f \notin Overdrawn(S)
  PROVE  Keeps(ScanStep(v, f, S, candidates), S, done \union {f}, candidates)
<1>1. f \in S /\ f.asset \in HeldAssets(S) /\ f.quantity \in Nat
  BY DEF Follows, HeldAssets, Replayable
<1>2. v.verdict = "OK"
  BY DEF Keeps
<1>3. \A x : f.asset # x => AssetRows(done \union {f}, x) = AssetRows(done, x)
  BY DEF AssetRows
<1>4. CASE f.asset = NoAsset
  <2>1. ScanStep(v, f, S, candidates) = v
    BY <1>4 DEF ScanStep
  <2>2. ASSUME NEW x \in HeldAssets(S), x # NoAsset
        PROVE  /\ v.balance[x] = SignedSum(AssetRows(S, x), AssetRows(done \union {f}, x))
               /\ x \in v.seen <=> \E c \in candidates : c \in done \union {f} /\ c.asset = x
    <3>1. f.asset # x
      BY <1>4, <2>2
    <3>2. v.balance[x] = SignedSum(AssetRows(S, x), AssetRows(done, x))
      BY <2>2 DEF Keeps
    <3>3. x \in v.seen <=> \E c \in candidates : c \in done /\ c.asset = x
      BY <2>2 DEF Keeps
    <3> QED BY <1>3, <3>1, <3>2, <3>3
  <2> QED BY <1>2, <2>1, <2>2 DEF Keeps
<1>5. CASE f.asset # NoAsset
  <2> DEFINE A == HeldAssets(S)
             seen == IF f \in candidates THEN v.seen \union {f.asset} ELSE v.seen
             b == v.balance[f.asset] + Signed(f, AssetRows(S, f.asset))
             w == ScanStep(v, f, S, candidates)
  <2>1. /\ v.balance[f.asset] \in Int
        /\ Balance(f, AssetRows(S, f.asset)) = b
        /\ SignedSum(AssetRows(S, f.asset), AssetRows(done \union {f}, f.asset)) = b
    BY <1>5, RunningBalance
  <2>2. v.balance \in [A -> Int] /\ v.seen \in SUBSET A
        /\ v = [verdict |-> v.verdict, seen |-> v.seen, balance |-> v.balance]
    BY DEF Scans
  <2>3. /\ w.verdict = "OK" /\ w.seen = seen
        /\ w.balance[f.asset] = b
        /\ \A x \in A : x # f.asset => w.balance[x] = v.balance[x]
    <3>1. CASE f.quantity = 0
      <4>1. Signed(f, AssetRows(S, f.asset)) = 0
        BY <3>1, NothingSigned
      <4>2. b = v.balance[f.asset]
        BY <2>1, <4>1
      <4>3. w = [v EXCEPT !.seen = seen]
        BY <1>2, <1>5, <3>1 DEF ScanStep
      <4> HIDE DEF b, w, seen, A
      <4> QED BY <1>2, <2>2, <4>2, <4>3
    <3>2. CASE f.quantity # 0
      <4>1. b >= 0
        <5>1. f.quantity > 0
          BY <1>1, <3>2
        <5>2. ~(b < 0)
          BY <1>1, <1>5, <2>1, <5>1 DEF Overdrawn
        <5>3. b \in Int
          BY <1>1, <2>1, SignedIsInt
        <5> HIDE DEF b
        <5> QED BY <5>2, <5>3
      <4>2. w = [v EXCEPT !.seen = seen, !.balance[f.asset] = b]
        BY <1>2, <1>5, <3>2, <4>1 DEF ScanStep
      <4>3. f.asset \in A
        BY <1>1
      <4> HIDE DEF b, w, seen, A
      <4> QED BY <1>2, <2>2, <4>2, <4>3
    <3> QED BY <3>1, <3>2
  <2>4. ASSUME NEW x \in A, x # NoAsset
        PROVE  /\ w.balance[x] = SignedSum(AssetRows(S, x), AssetRows(done \union {f}, x))
               /\ x \in w.seen <=> \E c \in candidates : c \in done \union {f} /\ c.asset = x
    <3>1. v.balance[x] = SignedSum(AssetRows(S, x), AssetRows(done, x))
      BY <2>4 DEF Keeps
    <3>2. x \in v.seen <=> \E c \in candidates : c \in done /\ c.asset = x
      BY <2>4 DEF Keeps
    <3>3. x \in seen <=> \E c \in candidates : c \in done \union {f} /\ c.asset = x
      BY <3>2
    <3>4. CASE x = f.asset
      <4> HIDE DEF b, w, seen
      <4> QED BY <2>1, <2>3, <2>4, <3>3, <3>4
    <3>5. CASE x # f.asset
      <4>1. AssetRows(done \union {f}, x) = AssetRows(done, x)
        BY <1>3, <3>5
      <4> HIDE DEF b, w, seen
      <4> QED BY <2>3, <2>4, <3>1, <3>3, <3>5, <4>1
    <3> QED BY <3>4, <3>5
  <2>5. w.verdict = "OK"
    BY <2>3
  <2> HIDE DEF b, w, seen
  <2> QED BY <2>4, <2>5 DEF Keeps, w
<1> QED BY <1>4, <1>5

(* Among overdrawn facts one comes first.                                  *)
LEMMA FirstOverdrawn ==
  ASSUME NEW S, Ordered(S), Overdrawn(S) # {}
  PROVE  \E g \in Overdrawn(S) : \A h \in Overdrawn(S) : h = g \/ Precedes(g, h)
<1> DEFINE s == InReplayOrder(S)
           n == Cardinality(S)
           J == {j \in Nat : j \in 1..n /\ s[j] \in Overdrawn(S)}
<1>1. Lists(s, n, S)
  BY ReplayOrder
<1> HIDE DEF s, n
<1>2. \A g \in Overdrawn(S) : \E j \in J : s[j] = g
  <2> SUFFICES ASSUME NEW g \in Overdrawn(S) PROVE \E j \in J : s[j] = g
    OBVIOUS
  <2>1. PICK j \in 1..n : s[j] = g
    BY <1>1 DEF Lists, Overdrawn
  <2>2. j \in J
    BY <1>1, <2>1 DEF Lists
  <2> QED BY <2>1, <2>2
<1>3. J \subseteq Nat /\ J # {} /\ \A j \in J : j \in 1..n /\ s[j] \in Overdrawn(S)
  BY <1>2
<1> HIDE DEF J
<1>4. PICK j \in J : \A i \in J : <<i, j>> \notin Less
  BY <1>3, LessWellFounded, WFMin
<1>5. \A h \in Overdrawn(S) : h = s[j] \/ Precedes(s[j], h)
  <2> SUFFICES ASSUME NEW h \in Overdrawn(S) PROVE h = s[j] \/ Precedes(s[j], h)
    OBVIOUS
  <2>1. PICK i \in J : s[i] = h
    BY <1>2
  <2>2. i \in Nat /\ j \in Nat
    BY <1>3
  <2>3. ~(i < j)
    BY <1>4, <2>2 DEF Less
  <2>4. i = j \/ j < i
    BY <2>2, <2>3
  <2> QED BY <1>1, <1>3, <2>1, <2>4 DEF Lists
<1> QED BY <1>3, <1>5

(* A ledger whose facts differ in identity and sequence has one replay.    *)
LEMMA ScanVerdict ==
  ASSUME NEW S, Replayable(S), UniqueFacts(S),
         NEW candidates, candidates \subseteq S,
         NEW start, start = [verdict |-> "OK", seen |-> {},
                             balance |-> [a \in HeldAssets(S) |-> 0]]
  PROVE  Scanned(InReplayOrder(S), start, S, candidates).verdict
         = IF Overdrawn(S) = {} THEN "OK"
           ELSE IF LaterExisting(FirstViolation(S), candidates)
           THEN "INVALID_BACKDATED" ELSE "INSUFFICIENT_QUANTITY"
<1> DEFINE s == InReplayOrder(S)
           n == Cardinality(S)
           done(k) == Passed(s, k)
<1>1. Ordered(S)
  BY DEF Replayable, Ordered, UniqueFacts
<1>2. Lists(s, n, S)
  BY <1>1, ReplayOrder
<1> HIDE DEF s, n
<1>3. n \in Nat /\ s \in [1..n -> S] /\ DOMAIN s = 1..n
  BY <1>2 DEF Lists
<1>4. start \in Scans(S)
  BY DEF Scans
<1>5. \A v \in Scans(S), i \in 1..n : ScanStep(v, s[i], S, candidates) \in Scans(S)
  BY <1>3, ScanStepType
<1>6. PICK acc \in [0..n -> Scans(S)] : Steps(acc, s, n, start, S, candidates)
  BY <1>3, <1>4, <1>5, ScannedBySteps
<1>7. /\ acc[0] = start /\ acc[n] = Scanned(s, start, S, candidates)
      /\ \A k \in 1..n : acc[k] = ScanStep(acc[k - 1], s[k], S, candidates)
  BY <1>6 DEF Steps
<1>8. ASSUME NEW k \in 1..n
      PROVE  Follows(S, done(k - 1), s[k]) /\ done(k) = done(k - 1) \union {s[k]}
  BY <1>1, <1>2, PassedFacts DEF Follows
<1>9. Keeps(acc[0], S, done(0), candidates)
  <2>1. done(0) = {}
    BY DEF Passed
  <2>2. \A x \in HeldAssets(S) : AssetRows({}, x) = {} /\ start.balance[x] = 0
    BY DEF AssetRows
  <2>3. start.verdict = "OK" /\ start.seen = {}
    OBVIOUS
  <2> HIDE DEF done
  <2> QED BY <1>7, <2>1, <2>2, <2>3, SumOfNothing DEF Keeps
<1>10. ASSUME NEW m \in 0..n, \A i \in 1..m : s[i] \notin Overdrawn(S)
       PROVE  Keeps(acc[m], S, done(m), candidates)
  <2> DEFINE T == {k \in Nat : k <= m => Keeps(acc[k], S, done(k), candidates)}
  <2> HIDE DEF done
  <2>1. 0 \in T
    BY <1>9
  <2>2. ASSUME NEW k \in T, k \in Nat PROVE k + 1 \in T
    <3>1. CASE k + 1 <= m
      <4>1. k + 1 \in 1..n /\ (k + 1) - 1 = k /\ k \in 0..n /\ k <= m /\ k + 1 \in 1..m
        BY <1>3, <3>1
      <4>2. Keeps(acc[k], S, done(k), candidates) /\ acc[k] \in Scans(S)
        BY <1>6, <4>1
      <4>3. Follows(S, done(k), s[k + 1]) /\ done(k + 1) = done(k) \union {s[k + 1]}
        BY <1>8, <4>1
      <4>4. acc[k + 1] = ScanStep(acc[k], s[k + 1], S, candidates)
        BY <1>7, <4>1
      <4>5. s[k + 1] \notin Overdrawn(S)
        BY <1>10, <4>1
      <4>6. Keeps(acc[k + 1], S, done(k + 1), candidates)
        BY <4>2, <4>3, <4>4, <4>5, ScanGoesOn
      <4> QED BY <4>6
    <3> QED BY <2>2, <3>1, <1>3
  <2>3. Nat \subseteq T
    <3> HIDE DEF T
    <3> QED BY <2>1, <2>2, UpFromZero
  <2>4. m \in Nat /\ m \in T
    BY <1>3, <2>3
  <2> QED BY <2>4
<1>11. CASE Overdrawn(S) = {}
  <2>1. n \in 0..n
    BY <1>3
  <2>2. Keeps(acc[n], S, done(n), candidates)
    BY <1>10, <1>11, <2>1
  <2> QED BY <1>7, <1>11, <2>2 DEF Keeps, s
<1>12. CASE Overdrawn(S) # {}
  <2> DEFINE J == {j \in Nat : j \in 1..n /\ s[j] \in Overdrawn(S)}
  <2>1. J \subseteq Nat /\ J # {}
    <3>1. PICK f \in Overdrawn(S) : TRUE
      BY <1>12
    <3>2. f \in S
      BY DEF Overdrawn
    <3>3. PICK j \in 1..n : s[j] = f
      BY <1>2, <3>2 DEF Lists
    <3>4. j \in J
      BY <1>3, <3>1, <3>3
    <3> QED BY <3>4
  <2>2. PICK j \in J : \A i \in J : <<i, j>> \notin Less
    <3> HIDE DEF J
    <3> QED BY <2>1, LessWellFounded, WFMin
  <2>3. j \in 1..n /\ j \in Nat /\ s[j] \in Overdrawn(S) /\ s[j] \in S
    BY <1>3, <2>2
  <2>4. \A i \in 1..(j - 1) : s[i] \notin Overdrawn(S)
    <3> SUFFICES ASSUME NEW i \in 1..(j - 1), s[i] \in Overdrawn(S) PROVE FALSE
      OBVIOUS
    <3>1. i \in J /\ i < j
      BY <1>3, <2>3
    <3> QED BY <2>1, <2>2, <3>1 DEF Less
  <2>5. FirstViolation(S) = s[j]
    <3>1. \A g \in Overdrawn(S) : g = s[j] \/ Precedes(s[j], g)
      <4> SUFFICES ASSUME NEW g \in Overdrawn(S) PROVE g = s[j] \/ Precedes(s[j], g)
        OBVIOUS
      <4>1. g \in S
        BY DEF Overdrawn
      <4>2. PICK i \in 1..n : s[i] = g
        BY <1>2, <4>1 DEF Lists
      <4>3. i = j \/ j < i
        BY <1>3, <2>3, <2>4, <4>2
      <4> QED BY <1>2, <2>3, <4>2, <4>3 DEF Lists
    <3>2. ASSUME NEW f \in Overdrawn(S),
                 \A g \in Overdrawn(S) : g = f \/ Precedes(f, g)
          PROVE  f = s[j]
      <4>1. f \in S /\ (s[j] = f \/ Precedes(f, s[j])) /\ (f = s[j] \/ Precedes(s[j], f))
        BY <2>3, <3>1, <3>2 DEF Overdrawn
      <4> QED BY <1>1, <2>3, <4>1, OrderLaws
    <3> QED BY <2>3, <3>1, <3>2 DEF FirstViolation
  <2> DEFINE why == IF LaterExisting(s[j], candidates)
                    THEN "INVALID_BACKDATED" ELSE "INSUFFICIENT_QUANTITY"
  <2>6. acc[j].verdict = why
    <3>1. j - 1 \in 0..n
      BY <1>3, <2>3
    <3>2. Keeps(acc[j - 1], S, done(j - 1), candidates) /\ acc[j - 1] \in Scans(S)
      BY <1>6, <1>10, <2>4, <3>1
    <3>3. Follows(S, done(j - 1), s[j])
      BY <1>8, <2>3
    <3>4. acc[j] = ScanStep(acc[j - 1], s[j], S, candidates)
      BY <1>7, <2>3
    <3> HIDE DEF done
    <3> QED BY <2>3, <3>2, <3>3, <3>4, ScanStops
  <2>7. why # "OK"
    OBVIOUS
  <2> HIDE DEF why
  <2> DEFINE T == {k \in Nat : j + k <= n => acc[j + k].verdict = why}
  <2>8. 0 \in T
    BY <2>3, <2>6
  <2>9. ASSUME NEW k \in T, k \in Nat PROVE k + 1 \in T
    <3>1. CASE j + (k + 1) <= n
      <4>1. j + (k + 1) \in 1..n /\ j + (k + 1) - 1 = j + k /\ j + k <= n
        BY <1>3, <2>3, <2>9, <3>1
      <4>2. acc[j + (k + 1)] = ScanStep(acc[j + k], s[j + (k + 1)], S, candidates)
        BY <1>7, <4>1
      <4>3. acc[j + k].verdict = why
        BY <4>1
      <4> QED BY <2>7, <4>2, <4>3 DEF ScanStep
    <3> QED BY <2>9, <3>1
  <2>10. Nat \subseteq T
    <3> HIDE DEF T
    <3> QED BY <2>8, <2>9, UpFromZero
  <2>11. n - j \in Nat /\ j + (n - j) = n
    BY <1>3, <2>3
  <2>12. acc[n].verdict = why
    <3>1. n - j \in T
      BY <2>10, <2>11
    <3>2. j + (n - j) <= n => acc[j + (n - j)].verdict = why
      BY <3>1
    <3> QED BY <1>3, <2>11, <3>2
  <2> QED BY <1>7, <1>12, <2>5, <2>12 DEF why, s
<1> QED BY <1>11, <1>12

(* A fact that no candidate of its asset precedes has the balance it had.  *)
LEMMA BalanceUntouched ==
  ASSUME NEW existing, NEW candidates, Replayable(existing \union candidates),
         UniqueFacts(existing \union candidates), ConsistentReversals(existing),
         NEW f \in existing, f \notin candidates, f.asset # NoAsset,
         ~LaterExisting(f, candidates)
  PROVE  Balance(f, AssetRows(existing \union candidates, f.asset))
         = Balance(f, AssetRows(existing, f.asset))
<1> DEFINE S    == existing \union candidates
           rows == AssetRows(S, f.asset)
           old  == AssetRows(existing, f.asset)
           P    == {g \in old : g = f \/ Precedes(g, f)}
           W    == [g \in P |-> Signed(g, old)]
<1>1. {g \in rows : g = f \/ Precedes(g, f)} = P
  BY DEF LaterExisting, AssetRows
<1>2. \A g \in P : g.quantity \in Int /\ g \in existing /\ g \in old
  BY DEF Replayable, AssetRows
<1>3. IsFiniteSet(P)
  <2>1. P \in SUBSET S /\ IsFiniteSet(S)
    BY DEF Replayable, AssetRows
  <2> HIDE DEF P, S
  <2> QED BY <2>1, FS_Subset
<1>4. ASSUME NEW g \in P
      PROVE  Signed(g, rows) = Signed(g, old)
  <2>1. CASE g.kind = "REVERSAL"
    <3>1. PICK o \in existing : o.id = g.reversalOf /\ o.asset = g.asset
      BY <1>2, <2>1 DEF ConsistentReversals, SameFinancialDimensions
    <3>2. o \in old /\ o \in rows
      BY <1>2, <3>1 DEF AssetRows
    <3>3. \A h \in S : h.id = g.reversalOf => h = o
      BY <3>1 DEF UniqueFacts
    <3>4. rows \subseteq S /\ old \subseteq S
      BY DEF AssetRows
    <3> HIDE DEF rows, old, S, P
    <3>5. Reversed(g, rows) = o /\ Reversed(g, old) = o
      BY <3>1, <3>2, <3>3, <3>4 DEF Reversed
    <3> QED BY <2>1, <3>5 DEF Signed
  <2>2. CASE g.kind # "REVERSAL"
    <3> HIDE DEF rows, old, S, P
    <3> QED BY <2>2 DEF Signed
  <2> QED BY <2>1, <2>2
<1>5. /\ Balance(f, rows) = SignedSum(rows, {g \in rows : g = f \/ Precedes(g, f)})
      /\ Balance(f, old) = SignedSum(old, P)
  BY Zenon DEF Balance, SignedSum
<1>6. W \in [P -> Int] /\ \A g \in P : W[g] = Signed(g, old) /\ W[g] = Signed(g, rows)
  <2>1. \A g \in P : Signed(g, old) \in Int
    <3> HIDE DEF P, old
    <3> QED BY <1>2, SignedIsInt
  <2> HIDE DEF P, old, rows
  <2> QED BY <1>4, <2>1
<1> HIDE DEF P, W, rows, old
<1>7. PICK s \in [SUBSET P -> Int] : Sums(s, W, P)
  BY <1>3, <1>6, SumsExist
<1>8. P \in SUBSET P
  OBVIOUS
<1>9. SignedSum(rows, P) = s[P]
  BY <1>3, <1>6, <1>7, <1>8, SumOfSigned
<1>10. SignedSum(old, P) = s[P]
  BY <1>3, <1>6, <1>7, <1>8, SumOfSigned
<1> QED BY <1>1, <1>5, <1>9, <1>10 DEF rows, old

(* Who is blamed by a verdict.                                             *)
LEMMA VerdictsBlame ==
  ASSUME NEW existing, NEW candidates, Replayable(existing \union candidates)
  PROVE  /\ /\ ReplayLedger(existing, {}) = "OK"
            /\ ReplayLedger(existing, candidates) = "INSUFFICIENT_QUANTITY"
            => FirstViolation(existing \union candidates) \in candidates
         /\ ReplayLedger(existing, candidates) = "INVALID_BACKDATED"
            => FirstViolation(existing \union candidates) \in existing
<1> DEFINE S == existing \union candidates
           f == FirstViolation(S)
<1>1. ReplayLedger(existing, candidates)
      = IF ~WellFormed(S) THEN "INVALID_LEDGER"
        ELSE IF Overdrawn(S) = {} THEN "OK"
        ELSE IF LaterExisting(f, candidates)
             THEN "INVALID_BACKDATED" ELSE "INSUFFICIENT_QUANTITY"
  BY Zenon DEF ReplayLedger
<1>2. ReplayLedger(existing, {}) = "OK" => WellFormed(existing) /\ Overdrawn(existing) = {}
  <2>1. existing \union {} = existing
    OBVIOUS
  <2>2. ReplayLedger(existing, {})
      = IF ~WellFormed(existing) THEN "INVALID_LEDGER"
        ELSE IF Overdrawn(existing) = {} THEN "OK"
        ELSE IF LaterExisting(FirstViolation(existing), {})
             THEN "INVALID_BACKDATED" ELSE "INSUFFICIENT_QUANTITY"
    BY <2>1, Zenon DEF ReplayLedger
  <2> QED BY <2>2
<1>3. ASSUME WellFormed(S), Overdrawn(S) # {} PROVE f \in Overdrawn(S)
  <2>1. Ordered(S)
    BY <1>3 DEF Replayable, Ordered, UniqueFacts, WellFormed
  <2> HIDE DEF S
  <2>2. \E g \in Overdrawn(S) : \A h \in Overdrawn(S) : h = g \/ Precedes(g, h)
    BY <1>3, <2>1, FirstOverdrawn
  <2> QED BY <2>2 DEF FirstViolation
<1>4. ASSUME ReplayLedger(existing, {}) = "OK", WellFormed(S), f \in Overdrawn(S),
             f \notin candidates, ~LaterExisting(f, candidates)
      PROVE  FALSE
  <2>1. f \in existing /\ f.asset # NoAsset /\ f.quantity > 0
        /\ Balance(f, AssetRows(S, f.asset)) < 0
    BY <1>4 DEF Overdrawn
  <2>2. UniqueFacts(S) /\ ConsistentReversals(existing)
    BY <1>2, <1>4 DEF WellFormed
  <2> DEFINE g == f
  <2>3. g = f
    OBVIOUS
  <2> HIDE DEF g
  <2>4. Balance(g, AssetRows(S, g.asset)) = Balance(g, AssetRows(existing, g.asset))
    BY <1>4, <2>1, <2>2, <2>3, BalanceUntouched
  <2>5. g \in Overdrawn(existing)
    BY <2>1, <2>3, <2>4 DEF Overdrawn
  <2> QED BY <1>2, <1>4, <2>5
<1>5. LaterExisting(f, candidates) => f \notin candidates
  BY DEF LaterExisting
<1>6. Overdrawn(S) \subseteq S
  BY DEF Overdrawn
<1> HIDE DEF f
<1>7. ReplayLedger(existing, candidates) \in {"INVALID_BACKDATED", "INSUFFICIENT_QUANTITY"}
      => f \in Overdrawn(S) /\ WellFormed(S)
  BY <1>1, <1>3
<1>8. ReplayLedger(existing, candidates) = "INSUFFICIENT_QUANTITY"
      => ~LaterExisting(f, candidates)
  BY <1>1
<1>9. ReplayLedger(existing, candidates) = "INVALID_BACKDATED"
      => LaterExisting(f, candidates)
  BY <1>1
<1> QED BY <1>4, <1>5, <1>6, <1>7, <1>8, <1>9 DEF f

(* The scan gives the verdict of the rules.                                *)
LEMMA ScanIsReplayed ==
  ASSUME NEW existing, NEW candidates, IsFiniteSet(existing \union candidates),
         \A f \in existing \union candidates :
            f.seq \in Int /\ f.effectiveAt \in Int /\ f.quantity \in Nat
  PROVE  ScanLedger(existing, candidates) = ReplayLedger(existing, candidates)
<1> DEFINE S     == existing \union candidates
           start == [verdict |-> "OK", seen |-> {}, balance |-> [a \in HeldAssets(S) |-> 0]]
<1>1. Replayable(S) /\ candidates \subseteq S
  BY DEF Replayable
<1>2. ScanLedger(existing, candidates)
      = IF ~WellFormed(S) THEN "INVALID_LEDGER"
        ELSE Scanned(InReplayOrder(S), start, S, candidates).verdict
  BY Zenon DEF ScanLedger, Scanned, HeldAssets
<1>3. ReplayLedger(existing, candidates)
      = IF ~WellFormed(S) THEN "INVALID_LEDGER"
        ELSE IF Overdrawn(S) = {} THEN "OK"
        ELSE IF LaterExisting(FirstViolation(S), candidates)
             THEN "INVALID_BACKDATED" ELSE "INSUFFICIENT_QUANTITY"
  BY Zenon DEF ReplayLedger
<1>4. CASE WellFormed(S)
  <2>1. UniqueFacts(S)
    BY <1>4 DEF WellFormed
  <2> DEFINE s0 == start
  <2>2. s0 = [verdict |-> "OK", seen |-> {}, balance |-> [a \in HeldAssets(S) |-> 0]]
    OBVIOUS
  <2> HIDE DEF s0, S
  <2>3. Scanned(InReplayOrder(S), s0, S, candidates).verdict
        = IF Overdrawn(S) = {} THEN "OK"
          ELSE IF LaterExisting(FirstViolation(S), candidates)
          THEN "INVALID_BACKDATED" ELSE "INSUFFICIENT_QUANTITY"
    BY <1>1, <2>1, <2>2, ScanVerdict
  <2> QED BY <1>2, <1>3, <1>4, <2>3 DEF s0
<1>5. CASE ~WellFormed(S)
  <2> HIDE DEF S
  <2> QED BY <1>2, <1>3, <1>5
<1> QED BY <1>4, <1>5

(* On every finite ledger, broken ones included, the scan of the code      *)
(* (domain/replay.go) with its running balances and its early return gives *)
(* the verdict that the rules state about the facts as a set, and blames   *)
(* the candidates only for a fact of their own.                            *)
THEOREM ScanComputesReplay ==
  ASSUME NEW existing, NEW candidates, IsFiniteSet(existing \union candidates),
         \A f \in existing \union candidates :
            f.seq \in Int /\ f.effectiveAt \in Int /\ f.quantity \in Nat
  PROVE  ScanDecides(existing, candidates)
<1>1. Replayable(existing \union candidates)
  BY DEF Replayable
<1>2. ScanLedger(existing, candidates) = ReplayLedger(existing, candidates)
  BY ScanIsReplayed
<1> QED
  BY <1>1, <1>2, VerdictsBlame, Zenon DEF ScanDecides


(* A ledger that ScanComputesReplay is about.                              *)
Finitely(ledger) == IsFiniteSet(ledger) /\ \A f \in ledger :
                      f.seq \in Int /\ f.effectiveAt \in Int /\ f.quantity \in Nat

LEMMA FactFields ==
  ASSUME NEW ledger, IsFiniteSet(ledger), NEW kind, NEW asset, NEW quantity \in Nat,
         NEW at \in Int, NEW of
  PROVE  LET f == Fact(ledger, kind, asset, quantity, at, of)
         IN  /\ f.seq \in Int /\ f.effectiveAt \in Int /\ f.quantity \in Nat
             /\ \A n \in Int : [f EXCEPT !.seq = n].seq \in Int
                               /\ [f EXCEPT !.seq = n].effectiveAt \in Int
                               /\ [f EXCEPT !.seq = n].quantity \in Nat
<1>1. Cardinality(ledger) + 1 \in Int
  BY FS_CardinalityType
<1> QED
  BY <1>1 DEF Fact

LEMMA OfferedFields ==
  ASSUME NEW s \in Samples, NEW ledger, Finitely(ledger), NEW f \in Offered(ledger, s)
  PROVE  f.seq \in Int /\ f.effectiveAt \in Int /\ f.quantity \in Nat
<1>1. s.quantities \subseteq Nat /\ s.instants \subseteq Int /\ 0 \in Nat /\ 1 \in Nat
  BY SampleAssumption
<1>2. IsFiniteSet(ledger) /\ \A g \in ledger :
        g.seq \in Int /\ g.effectiveAt \in Int /\ g.quantity \in Nat /\ g.quantity + 1 \in Nat
  BY DEF Finitely
<1>3. CASE f \in Ordinary(ledger, s)
  BY <1>1, <1>2, <1>3, FactFields DEF Ordinary
<1>4. CASE f \in Reversals(ledger)
  BY <1>2, <1>4, FactFields DEF Reversals
<1>5. CASE f \in Broken(ledger, s)
  <2>1. CASE \E at \in s.instants :
               f = Fact(ledger, "REVERSAL", NoAsset, 0, at, Cardinality(ledger) + 1)
    BY <1>1, <1>2, <2>1, FactFields
  <2>2. CASE \E g \in ledger :
               f = Fact(ledger, "REVERSAL", g.asset, g.quantity + 1, g.effectiveAt, g.id)
    BY <1>2, <2>2, FactFields
  <2>3. CASE \E g \in ledger, at \in s.instants :
               f = [Fact(ledger, "BUY", g.asset, 1, at, NoFact) EXCEPT !.seq = g.seq]
    BY <1>1, <1>2, <2>3, FactFields
  <2> QED
    BY <1>5, <2>1, <2>2, <2>3 DEF Broken
<1> QED
  BY <1>3, <1>4, <1>5 DEF Offered, Stored

LEMMA OneFactMore ==
  ASSUME NEW s \in Samples, NEW ledgers, \A l \in ledgers : Finitely(l),
         NEW m \in WithCandidate(ledgers, s)
  PROVE  Finitely(m) /\ \E l \in ledgers : l \subseteq m
<1>1. CASE m \in ledgers
  BY <1>1
<1>2. ASSUME NEW l \in ledgers, NEW f \in Offered(l, s), m = l \union {f}
      PROVE  Finitely(m) /\ l \subseteq m
  <2>1. Finitely(l) /\ f.seq \in Int /\ f.effectiveAt \in Int /\ f.quantity \in Nat
    BY <1>2, OfferedFields
  <2>2. IsFiniteSet(m)
    BY <1>2, <2>1, FS_AddElement DEF Finitely
  <2> QED
    BY <1>2, <2>1, <2>2 DEF Finitely
<1> QED
  BY <1>1, <1>2 DEF WithCandidate

LEMMA RecordedIsOffered ==
  ASSUME NEW ledgers, NEW s
  PROVE  Recorded(ledgers, s) \subseteq WithCandidate(ledgers, s)
BY DEF Recorded, WithCandidate, Offered

(* The scan of the code gives the verdict of the rules over the ledger of  *)
(* every reachable state, and over the samples whatever they are           *)
(* (domain/replay.go).                                                     *)
THEOREM ScansAreReplays == Spec => []ScanIsReplay
<1>1. ASSUME NEW ledger, Finitely(ledger), NEW existing \in SUBSET ledger
      PROVE  ScanDecides(existing, ledger \ existing)
  <2>1. existing \union (ledger \ existing) = ledger
    OBVIOUS
  <2> QED
    BY <1>1, <2>1, ScanComputesReplay DEF Finitely
<1>2. ASSUME NEW s \in Samples, NEW existing \in Existing(s),
             NEW ledger \in Extended(existing, s)
      PROVE  ScanDecides(existing, ledger \ existing)
  <2>1. \A l \in {{}} : Finitely(l)
    BY FS_EmptySet DEF Finitely
  <2>2. \A l \in Recorded({{}}, s) : Finitely(l)
    BY <2>1, OneFactMore, RecordedIsOffered
  <2>3. Finitely(existing)
    BY <2>2, OneFactMore, RecordedIsOffered DEF Existing
  <2>4. \A l \in WithCandidate({existing}, s) : Finitely(l) /\ existing \subseteq l
    BY <2>3, OneFactMore
  <2>5. Finitely(ledger) /\ existing \subseteq ledger
    <3> DEFINE first == WithCandidate({existing}, s)
    <3>1. ledger \in WithCandidate(first, s)
      BY DEF Extended
    <3> HIDE DEF first
    <3>2. \A l \in first : Finitely(l) /\ existing \subseteq l
      BY <2>4 DEF first
    <3>3. Finitely(ledger) /\ \E l \in first : l \subseteq ledger
      BY <3>1, <3>2, OneFactMore
    <3> QED
      BY <3>2, <3>3
  <2> QED
    BY <1>1, <2>5
<1>3. TypeOK /\ IsFiniteSet(facts) => ScanDecides(facts, {})
  <2> SUFFICES ASSUME TypeOK, IsFiniteSet(facts) PROVE ScanDecides(facts, {})
    OBVIOUS
  <2>1. Finitely(facts)
    BY DEF TypeOK, FactSet, Finitely
  <2>2. facts \ facts = {} /\ facts \in SUBSET facts
    OBVIOUS
  <2> QED
    BY <1>1, <2>1, <2>2
<1>4. SamplesAreDecided
  BY <1>2 DEF SamplesAreDecided
<1>5. LedgerInvariant => ScanIsReplay
  <2>1. LedgerInvariant => TypeOK /\ IsFiniteSet(facts)
    BY LedgerSize DEF LedgerInvariant
  <2> QED
    BY <1>3, <1>4, <2>1 DEF ScanIsReplay
<1> QED
  BY <1>5, LedgerInvariance, PTL

-----------------------------------------------------------------------------
(* A reversal adds what its original took away, and the other way round.    *)
LEMMA SignedCancels ==
  ASSUME NEW o, NEW r, NEW rows, Reversed(r, rows) = o,
         o.quantity \in Int, r.quantity = o.quantity,
         r.kind = "REVERSAL", o.kind # "REVERSAL",
         o.kind \notin TradeKinds => o.quantity = 0
  PROVE  Signed(r, rows) + Signed(o, rows) = 0
<1>1. CASE o.kind = "BUY"
  BY <1>1 DEF Signed
<1>2. CASE o.kind = "SELL"
  BY <1>2 DEF Signed
<1>3. CASE o.kind \notin TradeKinds
  BY <1>3 DEF Signed, TradeKinds
<1> QED
  BY <1>1, <1>2, <1>3 DEF TradeKinds

(* At any instant a corrected fact and its reversal cancel.                *)
LEMMA CorrectedFactsCancel ==
  ASSUME TypeOK, SequenceGapFree, FactsDistinct, CorrectionGroups
  PROVE  CorrectionsCancel
<1> DEFINE live == {f \in facts : f.kind # "REVERSAL" /\ ~HasDirectCorrection(f.id)}
           Until(s, t) == {f \in s : f.effectiveAt <= t}
           Of(s, kind) == {f \in s : f.kind = kind}
<1> SUFFICES ASSUME NEW x \in Assets, NEW t \in {f.effectiveAt : f \in facts}
             PROVE  SignedSum(AssetRows(facts, x), Until(AssetRows(facts, x), t))
                    = QuantitySum(Of(Until(AssetRows(live, x), t), "BUY"))
                      - QuantitySum(Of(Until(AssetRows(live, x), t), "SELL"))
  BY Zenon DEF CorrectionsCancel, SignedSum, QuantitySum
<1> DEFINE rows == AssetRows(facts, x)
           L == Until(rows, t)
           kept == Until(AssetRows(live, x), t)
           R == {f \in L : f.kind = "REVERSAL"}
           W == [f \in L |-> Signed(f, rows)]
           mate == [r \in R |-> Reversed(r, rows)]
<1>1. IsFiniteSet(facts) /\ IsFiniteSet(L) /\ L \subseteq facts
  <2>1. L \in SUBSET facts
    BY DEF AssetRows
  <2> HIDE DEF L
  <2> QED BY <2>1, LedgerSize, FS_Subset
<1>2. \A f \in facts : /\ f.quantity \in Nat /\ f.effectiveAt \in Nat
                       /\ f.kind \notin TradeKinds \union {"REVERSAL"} => f.quantity = 0
  BY DEF TypeOK, FactSet, Normalised
<1>3. \A f, g \in facts : f.id = g.id => f = g
  BY DEF FactsDistinct
<1>4. ASSUME NEW r \in R
      PROVE  /\ mate[r] \in L \ R /\ mate[r].id = r.reversalOf
             /\ r.quantity = mate[r].quantity
             /\ HasDirectCorrection(mate[r].id)
             /\ W[r] + W[mate[r]] = 0
  <2>1. r \in facts /\ r.kind = "REVERSAL" /\ r \in L /\ r.asset = x
    BY DEF AssetRows
  <2>2. PICK c \in corrections : \E o \in facts :
           /\ r.id = c.reversal /\ r.reversalOf = c.original
           /\ o.id = c.original /\ o.kind # "REVERSAL"
           /\ SameFinancialDimensions(r, o) /\ o.effectiveAt = r.effectiveAt
    BY <2>1, ReversalsAreCorrections
  <2>3. PICK o \in facts :
           /\ r.id = c.reversal /\ r.reversalOf = c.original
           /\ o.id = c.original /\ o.kind # "REVERSAL"
           /\ SameFinancialDimensions(r, o) /\ o.effectiveAt = r.effectiveAt
    BY <2>2
  <2>4. o \in L \ R /\ o \in rows /\ r.quantity = o.quantity
    BY <2>1, <2>3 DEF AssetRows, SameFinancialDimensions
  <2>5. Reversed(r, rows) = o
    <3>1. \A g \in rows : g.id = r.reversalOf => g = o
      BY <1>3, <2>3 DEF AssetRows
    <3>2. o.id = r.reversalOf
      BY <2>3
    <3> HIDE DEF rows
    <3> QED BY <2>4, <3>1, <3>2 DEF Reversed
  <2>6. HasDirectCorrection(o.id)
    BY <2>3 DEF HasDirectCorrection
  <2>7. Signed(r, rows) + Signed(o, rows) = 0
    <3>1. o.quantity \in Int /\ (o.kind \notin TradeKinds => o.quantity = 0)
      BY <1>2, <2>3
    <3> HIDE DEF rows
    <3> QED BY <2>1, <2>3, <2>4, <2>5, <3>1, SignedCancels
  <2>8. mate[r] = o
    BY <2>5
  <2>9. W[r] = Signed(r, rows) /\ W[o] = Signed(o, rows)
    BY <2>1, <2>4
  <2> HIDE DEF L, R, W, mate, rows
  <2> QED BY <2>3, <2>4, <2>6, <2>7, <2>8, <2>9
<1>5. \A q, r \in R : mate[q] = mate[r] => q = r
  <2>1. ConsistentReversals(facts)
    BY GroupsAreWellFormed DEF WellFormed
  <2>2. \A f \in R : f \in facts /\ f.kind = "REVERSAL" /\ mate[f].id = f.reversalOf
    BY <1>4 DEF AssetRows
  <2> HIDE DEF R, mate
  <2> QED BY <2>1, <2>2 DEF ConsistentReversals
<1>6. L \ (R \union {mate[r] : r \in R}) = kept
  <2>1. ASSUME NEW f \in L, f.kind # "REVERSAL", HasDirectCorrection(f.id)
        PROVE  \E r \in R : f = mate[r]
    <3>1. PICK c \in corrections : c.original = f.id
      BY <2>1 DEF HasDirectCorrection
    <3>2. PICK o, r, p \in facts :
             /\ o.id = c.original /\ r.id = c.reversal /\ p.id = c.replacement
             /\ Group(o, r, p)
      BY DEF CorrectionGroups
    <3>3. o = f
      BY <1>1, <1>3, <3>1, <3>2
    <3>4. r \in R
      BY <3>2, <3>3 DEF Group, SameFinancialDimensions, AssetRows
    <3>5. mate[r].id = f.id /\ mate[r] \in facts
      BY <1>1, <1>4, <3>2, <3>3, <3>4 DEF Group
    <3> QED BY <1>1, <1>3, <3>4, <3>5
  <2>3. \A f \in L : f \in kept <=> (f.kind # "REVERSAL" /\ ~HasDirectCorrection(f.id))
    BY DEF AssetRows
  <2>4. kept \subseteq L /\ \A f \in L : f \in R <=> f.kind = "REVERSAL"
    BY DEF AssetRows
  <2> HIDE DEF L, R, mate, kept
  <2>5. \A r \in R : mate[r] \in L /\ HasDirectCorrection(mate[r].id)
    BY <1>4
  <2> QED BY <2>1, <2>3, <2>4, <2>5
<1>7. /\ kept \subseteq L
      /\ \A f \in kept : f.quantity \in Int /\ f.kind # "REVERSAL"
  BY <1>2 DEF AssetRows
<1>8. W \in [L -> Int] /\ \A f \in L : W[f] = Signed(f, rows)
  <2>1. \A f \in L : f.quantity \in Int
    BY <1>1, <1>2
  <2> HIDE DEF L, rows
  <2>2. \A f \in L : Signed(f, rows) \in Int
    BY <2>1, SignedIsInt
  <2> QED BY <2>2
<1>9. R \in SUBSET L /\ mate \in [R -> L \ R]
  BY <1>4
<1>10. SignedSum(rows, L) = QuantitySum(Of(kept, "BUY")) - QuantitySum(Of(kept, "SELL"))
  <2> HIDE DEF L, R, W, mate, rows, kept
  <2>1. PICK g \in [SUBSET L -> Int] : Sums(g, W, L)
    BY <1>1, <1>8, SumsExist
  <2>2. SignedSum(rows, L) = g[L]
    <3>1. L \in SUBSET L
      OBVIOUS
    <3> QED BY <1>1, <1>8, <2>1, <3>1, SumOfSigned
  <2>3. g[L] = g[kept]
    <3>1. \A r \in R : W[r] + W[mate[r]] = 0
      BY <1>4
    <3>2. Paired(mate, R, W, L)
      BY <1>5, <1>9, <3>1 DEF Paired
    <3>3. Unpaired(mate, R, L) = kept
      BY <1>6 DEF Unpaired
    <3> QED BY <1>1, <1>8, <2>1, <3>2, <3>3, PairsCancel
  <2> DEFINE Wk == [f \in kept |-> W[f]]
             Vk == [f \in kept |-> f.quantity]
  <2>4. IsFiniteSet(kept)
    BY <1>1, <1>7, FS_Subset
  <2>5. Wk \in [kept -> Int] /\ Vk \in [kept -> Int]
    BY <1>7, <1>8
  <2>6. \A f \in kept : Wk[f] = W[f] /\ Wk[f] = Signed(f, rows) /\ Vk[f] = f.quantity
    BY <1>7, <1>8
  <2> HIDE DEF Wk, Vk
  <2>7. PICK h \in [SUBSET kept -> Int] : Sums(h, Wk, kept)
    BY <2>4, <2>5, SumsExist
  <2>8. PICK q \in [SUBSET kept -> Int] : Sums(q, Vk, kept)
    BY <2>4, <2>5, SumsExist
  <2>9. h[kept] = g[kept]
    BY <1>1, <1>7, <1>8, <2>1, <2>6, <2>7, SumsAgree
  <2>10. h[kept] = q[Of(kept, "BUY")] - q[Of(kept, "SELL")]
    <3>1. Plain(kept, Wk, Vk, rows)
      BY <1>7, <2>6 DEF Plain
    <3>2. Tallied(h, Wk, q, Vk, kept, rows)
      BY <2>4, <2>5, <2>7, <2>8, <3>1 DEF Tallied
    <3> HIDE DEF Of
    <3>3. h[kept] = Net(q, kept)
      BY <3>2, TradesCount
    <3>4. Net(q, kept) = q[Of(kept, "BUY")] - q[Of(kept, "SELL")]
      BY DEF Net, Of
    <3> QED BY <3>3, <3>4
  <2>11. /\ QuantitySum(Of(kept, "BUY")) = q[Of(kept, "BUY")]
         /\ QuantitySum(Of(kept, "SELL")) = q[Of(kept, "SELL")]
    <3>1. Of(kept, "BUY") \in SUBSET kept /\ Of(kept, "SELL") \in SUBSET kept
      OBVIOUS
    <3>2. \A f \in Of(kept, "BUY") \union Of(kept, "SELL") : Vk[f] = f.quantity
      BY <2>6
    <3> HIDE DEF Of
    <3>3. QuantitySum(Of(kept, "BUY")) = q[Of(kept, "BUY")]
      BY <2>4, <2>5, <2>8, <3>1, <3>2, SumOfQuantities
    <3>4. QuantitySum(Of(kept, "SELL")) = q[Of(kept, "SELL")]
      BY <2>4, <2>5, <2>8, <3>1, <3>2, SumOfQuantities
    <3> QED BY <3>3, <3>4
  <2> HIDE DEF Of
  <2> QED BY <2>2, <2>3, <2>9, <2>10, <2>11
<1> QED
  BY <1>10

(* Whatever is corrected, the balance of every asset at every instant is   *)
(* what the facts nobody corrected bought less what they sold.             *)
THEOREM CorrectionsLeaveNoTrace == Spec => []CorrectionsCancel
<1>1. LedgerInvariant => CorrectionsCancel
  BY CorrectedFactsCancel DEF LedgerInvariant
<1> QED
  BY <1>1, LedgerInvariance, PTL
=============================================================================
