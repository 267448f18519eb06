-------------------------- MODULE TransactionLedger --------------------------
(***************************************************************************)
(* The financial commands of one portfolio:                                *)
(* src/backend/internal/transaction/application/service.go (execute) over  *)
(* the PostgreSQL statements of src/backend/queries/transaction.           *)
(*                                                                         *)
(* An attempt is one request handled by the API: a first submission, a     *)
(* client's retry of it after a lost response, or an unrelated command.    *)
(* It runs one READ COMMITTED database transaction.  Each action below is  *)
(* one stretch of that transaction between two points at which it can      *)
(* wait for another transaction or see what another has committed:         *)
(*                                                                         *)
(*   Start      SELECT ... FOR SHARE on the portfolio row, validation      *)
(*   LockKey    pg_advisory_xact_lock on (portfolio, scope, key)           *)
(*   Lookup     the idempotency row, then archival and the asset           *)
(*   Allocate   UPSERT of the sequence row, locked until the end           *)
(*   Write      read the ledger, validate, insert everything               *)
(*   Commit     the writes become visible, the locks are released          *)
(*                                                                         *)
(* An uncommitted write is private to its attempt (pending).  All state is *)
(* partitioned by portfolio, so one portfolio is modelled.                 *)
(***************************************************************************)
EXTENDS LedgerReplay

CONSTANTS
  Attempts,        \* the requests the API handles
  Commands,        \* what a request may ask for (see CommandShape)
  Assets,          \* assets a command may name
  EligibleAssets,  \* those the catalog resolves
  UnknownFact,     \* an identity no fact of this portfolio has
  NoAttempt,       \* the holder of a free lock
  StartClock,      \* the clock when the first request arrives
  MaxClock,        \* bound on the clock
  Retention        \* lifetime of an idempotency row (8760h in the code)

Scopes == {"transaction.create.v1", "transaction.correct.v1"}

CreatableKinds == Kinds \ {"REVERSAL"}
TradeKinds     == {"BUY", "SELL"}

(* A command after normalisation: trades have an asset and a positive      *)
(* quantity, dividends an asset, cash facts neither.                       *)
CommandShape(c) ==
  /\ c.owner \in BOOLEAN
  /\ c.scope \in Scopes
  /\ c.kind \in CreatableKinds
  /\ c.quantity \in Nat
  /\ c.effectiveAt \in Nat
  /\ c.asset \in Assets \union {NoAsset}
  /\ c.kind \in TradeKinds => c.asset # NoAsset /\ c.quantity > 0
  /\ c.kind = "DIVIDEND" => c.asset # NoAsset
  /\ c.kind \notin TradeKinds => c.quantity = 0
  /\ c.kind \in {"DEPOSIT", "WITHDRAWAL", "FEE"} => c.asset = NoAsset

ASSUME CommandsAssumption == \A c \in Commands : CommandShape(c)
ASSUME AssetsAssumption ==
  NoAsset \notin Assets /\ EligibleAssets \subseteq Assets
ASSUME AttemptsAssumption == NoAttempt \notin Attempts
ASSUME ClockAssumption ==
  /\ StartClock \in Nat /\ MaxClock \in Nat /\ Retention \in Nat \ {0}

(* A fact's identity: the attempt that inserted it and 1, or 2 for the     *)
(* replacement of a correction.  The code draws a fresh UUID.              *)
FactIds == Attempts \X {1, 2}
ASSUME FactIdsAssumption ==
  NoFact \notin FactIds /\ UnknownFact \notin FactIds /\ NoFact # UnknownFact

Writer(f) == f.id[1]

Errors == {"PORTFOLIO_NOT_FOUND", "TRANSACTION_NOT_FOUND", "INVALID_EFFECTIVE_AT",
           "IDEMPOTENCY_CONFLICT", "PORTFOLIO_ARCHIVED", "ASSET_NOT_FOUND",
           "NOT_CORRECTABLE", "ALREADY_CORRECTED", "INSUFFICIENT_QUANTITY",
           "INVALID_BACKDATED"}

-----------------------------------------------------------------------------
VARIABLES
  (* committed rows *)
  facts,         \* transactions
  corrections,   \* transaction_corrections
  idempotency,   \* transaction_idempotency
  nextSequence,  \* transaction_portfolio_sequences.next_sequence
  archived,      \* portfolios.status = ARCHIVED
  outbox,        \* the portfolio's stream of platform_outbox_events
  audits,        \* platform_audit_events
  (* locks *)
  shares,        \* attempts holding the portfolio row FOR SHARE
  keyHolder,     \* (scope, key) -> holder of its advisory lock
  seqHolder,     \* holder of the sequence row
  (* attempts *)
  pc,            \* the next stretch of each attempt
  request,       \* its command, with the correction target
  sawArchived,   \* the portfolio status its FOR SHARE read returned
  sequence,      \* the first sequence it allocated
  pending,       \* its uncommitted writes
  answer,        \* the primary fact its result names
  outcome,       \* how it ended
  clock

database == <<facts, corrections, idempotency, nextSequence, archived, outbox, audits>>
locks    == <<shares, keyHolder, seqHolder>>
vars     == <<facts, corrections, idempotency, nextSequence, archived, outbox,
              audits, shares, keyHolder, seqHolder, pc, request, sawArchived,
              sequence, pending, answer, outcome, clock>>

NoWrites == [facts |-> {}, corrections |-> {}, rows |-> {}, expired |-> {},
             audits |-> {}, events |-> <<>>]

LockId(r) == <<r.scope, r.key>>
Keys      == {c.key : c \in Commands}
LockIds   == Scopes \X Keys

(* The target of a correction as the request carries it.                   *)
Targets(c) ==
  IF c.scope = "transaction.correct.v1"
  THEN {f.id : f \in facts} \union {NoFact, UnknownFact}
  ELSE {NoFact}

NoRequest == [scope |-> "none"]

Request(c, target) ==
  [owner |-> c.owner, scope |-> c.scope, key |-> c.key, target |-> target,
   kind |-> c.kind, asset |-> c.asset, quantity |-> c.quantity,
   effectiveAt |-> c.effectiveAt]

IsCorrection(r) == r.scope = "transaction.correct.v1"

(* Mutant of Fingerprint: the quantity is left out of the digest.          *)
FingerprintWithoutQuantity(r) == <<r.scope, r.target, r.kind, r.asset, r.effectiveAt>>

(* The semantic fingerprint of a normalised command: its scope, target and *)
(* financial content, without the key or the principal.                    *)
Fingerprint(r) ==
  <<r.scope, r.target, r.kind, r.asset, r.quantity, r.effectiveAt>>

Init ==
  /\ facts = {} /\ corrections = {} /\ idempotency = {}
  /\ nextSequence = 1
  /\ archived = FALSE
  /\ outbox = <<>> /\ audits = {}
  /\ shares = {}
  /\ keyHolder = [l \in LockIds |-> NoAttempt]
  /\ seqHolder = NoAttempt
  /\ pc = [a \in Attempts |-> "idle"]
  /\ request = [a \in Attempts |-> NoRequest]
  /\ sawArchived = [a \in Attempts |-> FALSE]
  /\ sequence = [a \in Attempts |-> 0]
  /\ pending = [a \in Attempts |-> NoWrites]
  /\ answer = [a \in Attempts |-> NoFact]
  /\ outcome = [a \in Attempts |-> "none"]
  /\ clock = StartClock

-----------------------------------------------------------------------------
(* Mutant of ReleaseLocks: the key's lock is a session lock that outlives  *)
(* its transaction.                                                        *)
KeepKeyLocks(a) ==
  /\ shares' = shares \ {a}
  /\ seqHolder' = IF seqHolder = a THEN NoAttempt ELSE seqHolder
  /\ UNCHANGED keyHolder

(* The end of an attempt's database transaction.                           *)
ReleaseLocks(a) ==
  /\ shares' = shares \ {a}
  /\ keyHolder' = [l \in LockIds |-> IF keyHolder[l] = a THEN NoAttempt ELSE keyHolder[l]]
  /\ seqHolder' = IF seqHolder = a THEN NoAttempt ELSE seqHolder

Rollback(a, result) ==
  /\ ReleaseLocks(a)
  /\ pending' = [pending EXCEPT ![a] = NoWrites]
  /\ sequence' = [sequence EXCEPT ![a] = 0]
  /\ answer' = [answer EXCEPT ![a] = NoFact]
  /\ outcome' = [outcome EXCEPT ![a] = result]
  /\ UNCHANGED <<database, clock>>

(* A rejected command is rolled back and then audited outside the          *)
(* transaction; any other error is rolled back and leaves no evidence.     *)
Reject(a, error) ==
  /\ Rollback(a, error)
  /\ pc' = [pc EXCEPT ![a] = "audit_rejection"]

Fail(a) ==
  /\ Rollback(a, "aborted")
  /\ pc' = [pc EXCEPT ![a] = "done"]

-----------------------------------------------------------------------------
(* The checks before the idempotency key is locked, in the code's order.   *)
StartError(r) ==
  IF ~r.owner THEN "PORTFOLIO_NOT_FOUND"
  ELSE IF IsCorrection(r) /\ r.target = NoFact THEN "TRANSACTION_NOT_FOUND"
  ELSE IF r.effectiveAt > clock THEN "INVALID_EFFECTIVE_AT"
  ELSE "none"

(* The portfolio row is share-locked by the read that proves ownership and *)
(* returns its status.                                                     *)
Start(a) ==
  /\ pc[a] = "idle"
  /\ \E c \in Commands : \E target \in Targets(c) :
       LET r == Request(c, target)
       IN  /\ request' = [request EXCEPT ![a] = r]
           /\ \/ /\ StartError(r) # "none"
                 /\ Reject(a, StartError(r))
                 /\ UNCHANGED sawArchived
              \/ /\ StartError(r) = "none"
                 /\ shares' = shares \union {a}
                 /\ sawArchived' = [sawArchived EXCEPT ![a] = archived]
                 /\ pc' = [pc EXCEPT ![a] = "lock_key"]
                 /\ UNCHANGED <<database, keyHolder, seqHolder, sequence,
                                pending, answer, outcome, clock>>

(* Mutant of KeyFree: the key is not locked before it is looked up.        *)
KeyNotLocked(lock) == TRUE

KeyFree(lock) == keyHolder[lock] = NoAttempt

LockKey(a) ==
  /\ pc[a] = "lock_key"
  /\ KeyFree(LockId(request[a]))
  /\ keyHolder' = [keyHolder EXCEPT ![LockId(request[a])] = a]
  /\ pc' = [pc EXCEPT ![a] = "lookup"]
  /\ UNCHANGED <<database, shares, seqHolder, request, sawArchived, sequence,
                 pending, answer, outcome, clock>>

-----------------------------------------------------------------------------
KeyRows(r) == {row \in idempotency : row.scope = r.scope /\ row.key = r.key}

(* expires_at > as_of                                                      *)
LiveRows(r) == {row \in KeyRows(r) : row.completedAt + Retention > clock}

LookupError(a) ==
  LET r == request[a]
  IN  IF \E row \in LiveRows(r) : row.digest # Fingerprint(r) THEN "IDEMPOTENCY_CONFLICT"
      ELSE IF LiveRows(r) # {} THEN "none"
      ELSE IF sawArchived[a] THEN "PORTFOLIO_ARCHIVED"
      ELSE IF r.asset \notin EligibleAssets \union {NoAsset} THEN "ASSET_NOT_FOUND"
      ELSE "none"

(* Mutant of AnswerFromRow: a replayed command announces itself again.     *)
AnswerAndAnnounce(a, row) ==
  /\ answer' = [answer EXCEPT ![a] = row.primary]
  /\ pending' = [pending EXCEPT ![a] = [NoWrites EXCEPT
       !.audits = {[by |-> a, action |-> "transaction_idempotent_replay"]},
       !.events = <<[by |-> a, type |-> "transaction.recorded.v1"]>>]]
  /\ pc' = [pc EXCEPT ![a] = "commit"]
  /\ UNCHANGED <<database, locks, sequence, outcome, clock>>

(* A completed command with the same key answers this one; its replay is   *)
(* audited and nothing else is written.                                    *)
AnswerFromRow(a, row) ==
  /\ answer' = [answer EXCEPT ![a] = row.primary]
  /\ pending' = [pending EXCEPT ![a] = [NoWrites EXCEPT !.audits =
                   {[by |-> a, action |-> "transaction_idempotent_replay"]}]]
  /\ pc' = [pc EXCEPT ![a] = "commit"]
  /\ UNCHANGED <<database, locks, sequence, outcome, clock>>

(* An expired row of the key is deleted before the command runs anew.      *)
AcceptNewKey(a) ==
  /\ pending' = [pending EXCEPT ![a] = [NoWrites EXCEPT !.expired = KeyRows(request[a])]]
  /\ pc' = [pc EXCEPT ![a] = "allocate"]
  /\ UNCHANGED <<database, locks, sequence, answer, outcome, clock>>

Lookup(a) ==
  /\ pc[a] = "lookup"
  /\ \/ /\ LookupError(a) # "none"
        /\ Reject(a, LookupError(a))
     \/ /\ LookupError(a) = "none"
        /\ \E row \in LiveRows(request[a]) : AnswerFromRow(a, row)
     \/ /\ LookupError(a) = "none"
        /\ LiveRows(request[a]) = {}
        /\ AcceptNewKey(a)
  /\ UNCHANGED <<request, sawArchived>>

(* Mutant of SequenceFree: the sequence is read without locking its row.   *)
SequenceNotLocked == TRUE

SequenceFree == seqHolder = NoAttempt

(* The first sequence the UPSERT returns: next_sequence before it.         *)
AllocatedSequence == nextSequence

(* The UPSERT waits for the holder of the row, then reads what it left.    *)
Allocate(a) ==
  /\ pc[a] = "allocate"
  /\ SequenceFree
  /\ seqHolder' = a
  /\ sequence' = [sequence EXCEPT ![a] = AllocatedSequence]
  /\ pc' = [pc EXCEPT ![a] = "write"]
  /\ UNCHANGED <<database, shares, keyHolder, request, sawArchived, pending,
                 answer, outcome, clock>>

-----------------------------------------------------------------------------
(* The facts a command inserts.                                            *)
CommandFact(a, n, correctionOf) ==
  LET r == request[a]
  IN  [id |-> <<a, n>>, seq |-> sequence[a] + n - 1, kind |-> r.kind,
       asset |-> r.asset, quantity |-> r.quantity, effectiveAt |-> r.effectiveAt,
       reversalOf |-> NoFact, correctionOf |-> correctionOf, createdAt |-> clock]

Reversal(a, original) ==
  [id |-> <<a, 1>>, seq |-> sequence[a], kind |-> "REVERSAL",
   asset |-> original.asset, quantity |-> original.quantity,
   effectiveAt |-> original.effectiveAt, reversalOf |-> original.id,
   correctionOf |-> NoFact, createdAt |-> clock]

Target(r) == CHOOSE f \in facts : f.id = r.target

Candidates(a) ==
  IF IsCorrection(request[a])
  THEN {Reversal(a, Target(request[a])), CommandFact(a, 2, request[a].target)}
  ELSE {CommandFact(a, 1, NoFact)}

(* Mutant of HasDirectCorrection: the outgoing correction is not looked up. *)
NeverCorrected(id) == FALSE

HasDirectCorrection(id) == \E c \in corrections : c.original = id

TargetError(r) ==
  IF \A f \in facts : f.id # r.target THEN "TRANSACTION_NOT_FOUND"
  ELSE IF Target(r).kind = "REVERSAL" THEN "NOT_CORRECTABLE"
  ELSE IF HasDirectCorrection(r.target) THEN "ALREADY_CORRECTED"
  ELSE "OK"

(* Mutant of ReplayRows: only facts up to the candidate's effective time   *)
(* are read.                                                               *)
RowsUntilCandidate(a, candidates) ==
  {f \in facts :
     \/ /\ f.asset # NoAsset
        /\ \E c \in candidates : c.asset = f.asset /\ f.effectiveAt <= c.effectiveAt
     \/ IsCorrection(request[a]) /\ f.id = request[a].target}

(* The committed facts the candidates are replayed with: those of every    *)
(* asset a candidate names, and the original of a correction.              *)
ReplayRows(a, candidates) ==
  {f \in facts :
     \/ f.asset # NoAsset /\ \E c \in candidates : c.asset = f.asset
     \/ IsCorrection(request[a]) /\ f.id = request[a].target}

WriteError(a) ==
  IF IsCorrection(request[a]) /\ TargetError(request[a]) # "OK"
  THEN TargetError(request[a])
  ELSE ReplayLedger(ReplayRows(a, Candidates(a)), Candidates(a))

SuccessActions(r) ==
  IF IsCorrection(r)
  THEN {"transaction_correction_initiated", "transaction_reversal_created",
        "transaction_replacement_created", "transaction_correction_completed"}
  ELSE {"transaction_create_success"}

(* The fact the result names: the created fact, or the replacement.        *)
PrimaryFact(a) == IF IsCorrection(request[a]) THEN <<a, 2>> ELSE <<a, 1>>

AllWrites(a) ==
  LET r == request[a]
  IN  [facts |-> Candidates(a),
       corrections |-> IF IsCorrection(r)
                       THEN {[id |-> a, original |-> r.target,
                              reversal |-> <<a, 1>>, replacement |-> <<a, 2>>]}
                       ELSE {},
       rows |-> {[scope |-> r.scope, key |-> r.key, digest |-> Fingerprint(r),
                  primary |-> PrimaryFact(a), completedAt |-> clock]},
       expired |-> pending[a].expired,
       audits |-> {[by |-> a, action |-> x] : x \in SuccessActions(r)},
       events |-> <<[by |-> a, type |-> IF IsCorrection(r)
                                        THEN "transaction.corrected.v1"
                                        ELSE "transaction.recorded.v1"]>>]

(* isRejection: every named error except an inconsistent ledger.           *)
RejectOrFail(a, error) ==
  IF error \in Errors THEN Reject(a, error) ELSE Fail(a)

Write(a) ==
  /\ pc[a] = "write"
  /\ \/ /\ WriteError(a) # "OK"
        /\ RejectOrFail(a, WriteError(a))
     \/ /\ WriteError(a) = "OK"
        /\ pending' = [pending EXCEPT ![a] = AllWrites(a)]
        /\ answer' = [answer EXCEPT ![a] = PrimaryFact(a)]
        /\ pc' = [pc EXCEPT ![a] = "commit"]
        /\ UNCHANGED <<database, locks, sequence, outcome, clock>>
  /\ UNCHANGED <<request, sawArchived>>

Commit(a) ==
  LET w == pending[a]
  IN  /\ pc[a] = "commit"
      /\ facts' = facts \union w.facts
      /\ corrections' = corrections \union w.corrections
      /\ idempotency' = (idempotency \ w.expired) \union w.rows
      /\ nextSequence' = nextSequence + Cardinality(w.facts)
      /\ outbox' = outbox \o w.events
      /\ audits' = audits \union w.audits
      /\ ReleaseLocks(a)
      /\ pending' = [pending EXCEPT ![a] = NoWrites]
      /\ sequence' = [sequence EXCEPT ![a] = 0]
      /\ outcome' = [outcome EXCEPT ![a] = IF w.facts = {} THEN "replay" ELSE "success"]
      /\ pc' = [pc EXCEPT ![a] = "done"]
      /\ UNCHANGED <<archived, request, sawArchived, answer, clock>>

-----------------------------------------------------------------------------
RejectionAction(r, error) ==
  IF error = "PORTFOLIO_NOT_FOUND" THEN "transaction_ownership_rejection"
  ELSE IF error = "IDEMPOTENCY_CONFLICT" THEN "transaction_idempotency_conflict"
  ELSE IF IsCorrection(r) THEN "transaction_correction_rejected"
  ELSE "transaction_create_failure"

AuditRejection(a) ==
  /\ pc[a] = "audit_rejection"
  /\ audits' = audits \union
       {[by |-> a, action |-> RejectionAction(request[a], outcome[a])]}
  /\ pc' = [pc EXCEPT ![a] = "done"]
  /\ UNCHANGED <<facts, corrections, idempotency, nextSequence, archived, outbox,
                 locks, request, sawArchived, sequence, pending, answer,
                 outcome, clock>>

(* A lost connection, a cancelled context, a failed statement or a crash   *)
(* of the API process ends the transaction at any point before it commits; *)
(* of a rejected command it only loses the audit of the rejection.         *)
Abort(a) ==
  /\ pc[a] \notin {"idle", "done"}
  /\ Fail(a)
  /\ UNCHANGED <<request, sawArchived>>

(* Mutant of RowUnlocked: commands read the portfolio without locking it.  *)
RowNotLocked == TRUE

RowUnlocked == shares = {}

(* The owner archives the portfolio: one UPDATE, which waits for the       *)
(* holders of the row's share lock.                                        *)
ArchivePortfolio ==
  /\ ~archived
  /\ RowUnlocked
  /\ archived' = TRUE
  /\ UNCHANGED <<facts, corrections, idempotency, nextSequence, outbox, audits,
                 locks, pc, request, sawArchived, sequence, pending, answer,
                 outcome, clock>>

Tick ==
  /\ clock < MaxClock
  /\ clock' = clock + 1
  /\ UNCHANGED <<database, locks, pc, request, sawArchived, sequence, pending,
                 answer, outcome>>

Step(a) ==
  \/ LockKey(a) \/ Lookup(a) \/ Allocate(a) \/ Write(a) \/ Commit(a)
  \/ AuditRejection(a)

Next ==
  \/ \E a \in Attempts : Start(a) \/ Step(a) \/ Abort(a)
  \/ ArchivePortfolio
  \/ Tick

Spec == Init /\ [][Next]_vars

(* A transaction that can go on eventually does; nothing makes a client    *)
(* submit, the owner archive or a connection fail.                         *)
FairSpec == Spec /\ \A a \in Attempts : WF_vars(Step(a))

-----------------------------------------------------------------------------
AnyFactId == FactIds \union {NoFact, UnknownFact}
Outcomes  == Errors \union {"none", "aborted", "replay", "success"}
Phases    == {"idle", "lock_key", "lookup", "allocate", "write", "commit",
              "audit_rejection", "done"}

(* Only trades, and the reversals of trades, move a quantity.              *)
Normalised(f) == f.kind \notin TradeKinds \union {"REVERSAL"} => f.quantity = 0

FactSet ==
  {f \in [id : FactIds, seq : Nat \ {0}, kind : Kinds, asset : Assets \union {NoAsset},
          quantity : Nat, effectiveAt : Nat, reversalOf : AnyFactId,
          correctionOf : AnyFactId, createdAt : Nat] : Normalised(f)}

CorrectionSet ==
  [id : Attempts, original : FactIds, reversal : FactIds, replacement : FactIds]

DigestSet ==
  Scopes \X AnyFactId \X CreatableKinds \X (Assets \union {NoAsset}) \X Nat \X Nat

RowSet ==
  [scope : Scopes, key : Keys, digest : DigestSet, primary : FactIds, completedAt : Nat]

AuditActions ==
  {"transaction_create_success", "transaction_correction_initiated",
   "transaction_reversal_created", "transaction_replacement_created",
   "transaction_correction_completed", "transaction_idempotent_replay",
   "transaction_ownership_rejection", "transaction_idempotency_conflict",
   "transaction_correction_rejected", "transaction_create_failure"}

EventTypes == {"transaction.recorded.v1", "transaction.corrected.v1"}

AuditSet == [by : Attempts, action : AuditActions]
EventSet == [by : Attempts, type : EventTypes]

WriteSet ==
  [facts : SUBSET FactSet, corrections : SUBSET CorrectionSet, rows : SUBSET RowSet,
   expired : SUBSET RowSet, audits : SUBSET AuditSet, events : Seq(EventSet)]

RequestSet ==
  {r \in [owner : BOOLEAN, scope : Scopes, key : Keys, target : AnyFactId,
          kind : CreatableKinds, asset : Assets \union {NoAsset}, quantity : Nat,
          effectiveAt : Nat] : Normalised(r)}

(* The shape of the state.  Sequences start at 1, identities are those of  *)
(* attempts, a lock has at most one holder.                                *)
TypeOK ==
  /\ facts \subseteq FactSet
  /\ corrections \subseteq CorrectionSet
  /\ idempotency \subseteq RowSet
  /\ nextSequence \in Nat \ {0}
  /\ archived \in BOOLEAN
  /\ outbox \in Seq(EventSet)
  /\ audits \subseteq AuditSet
  /\ shares \subseteq Attempts
  /\ keyHolder \in [LockIds -> Attempts \union {NoAttempt}]
  /\ seqHolder \in Attempts \union {NoAttempt}
  /\ pc \in [Attempts -> Phases]
  /\ request \in [Attempts -> RequestSet \union {NoRequest}]
  /\ sawArchived \in [Attempts -> BOOLEAN]
  /\ sequence \in [Attempts -> Nat]
  /\ pending \in [Attempts -> WriteSet]
  /\ answer \in [Attempts -> AnyFactId]
  /\ outcome \in [Attempts -> Outcomes]
  /\ clock \in Nat

(* No interleaving of buys, sells, backdated facts and corrections leaves  *)
(* an asset sold short at any instant: after every fact, in replay order,  *)
(* the balance of its asset in the whole committed ledger is non-negative. *)
(* Each attempt validated only the rows it read (validateReplay).          *)
NoNegativePosition == Overdrawn(facts) = {}

(* Committed facts number the portfolio 1, 2, 3, ... without a gap and     *)
(* without a repetition, whatever was rolled back in between: the sequence *)
(* row is restored by a rollback and locked until the commit.              *)
SequenceGapFree ==
  /\ \A f, g \in facts : f.seq = g.seq => f = g
  /\ {f.seq : f \in facts} = 1 .. nextSequence - 1

(* A key takes effect at most once in its lifetime: two attempts with the  *)
(* same scope and key that both wrote facts did so a full retention apart. *)
AtMostOncePerKey ==
  \A f, g \in facts :
    /\ Writer(f) # Writer(g)
    /\ LockId(request[Writer(f)]) = LockId(request[Writer(g)])
    => \/ f.createdAt >= g.createdAt + Retention
       \/ g.createdAt >= f.createdAt + Retention

(* An attempt answered from an idempotency row asked for exactly what the  *)
(* attempt that wrote the row asked for, and names the fact that one       *)
(* committed: a key reused for another command never gets its answer.      *)
ReplayAnswersOriginal ==
  \A a \in Attempts : outcome[a] = "replay" =>
    \E b \in Attempts : /\ outcome[b] = "success"
                        /\ request[b] = request[a]
                        /\ answer[b] = answer[a]
                        /\ \E f \in facts : f.id = answer[a]

(* A reversal r that mirrors the ordinary fact o, and the fact p that      *)
(* replaces o right after it.                                              *)
Group(o, r, p) ==
  /\ o.kind # "REVERSAL" /\ r.kind = "REVERSAL" /\ p.kind # "REVERSAL"
  /\ r.reversalOf = o.id /\ p.correctionOf = o.id
  /\ SameFinancialDimensions(o, r) /\ o.effectiveAt = r.effectiveAt
  /\ o.seq < r.seq /\ p.seq = r.seq + 1

(* A correction is a complete group: an ordinary original, one reversal    *)
(* that mirrors it and one replacement right after the reversal.  No fact  *)
(* is corrected twice, no reversal is corrected, and no reversal or        *)
(* replacement exists outside a group.                                     *)
CorrectionGroups ==
  /\ \A c \in corrections : \E o, r, p \in facts :
       /\ o.id = c.original /\ r.id = c.reversal /\ p.id = c.replacement
       /\ Group(o, r, p)
  /\ \A c, d \in corrections : c.original = d.original => c = d
  /\ \A f \in facts :
       f.kind = "REVERSAL" \/ f.correctionOf # NoFact =>
         \E c \in corrections : f.id \in {c.reversal, c.replacement}

(* A corrected fact leaves no trace in any position: at every instant the  *)
(* replayed quantity of an asset is the bought minus the sold quantity of  *)
(* the facts nobody corrected.                                             *)
CorrectionsCancel ==
  LET live == {f \in facts : /\ f.kind # "REVERSAL"
                             /\ ~HasDirectCorrection(f.id)}
      Until(s, t) == {f \in s : f.effectiveAt <= t}
      Total(s, kind) == MapThenSumSet(LAMBDA f : f.quantity, {f \in s : f.kind = kind})
  IN  \A x \in Assets : \A t \in {f.effectiveAt : f \in facts} :
        MapThenSumSet(LAMBDA f : Signed(f, AssetRows(facts, x)),
                      Until(AssetRows(facts, x), t))
          = LET rows == Until(AssetRows(live, x), t)
            IN  Total(rows, "BUY") - Total(rows, "SELL")

(* What an attempt left in the tables.                                     *)
FactsOf(a)  == {f \in facts : Writer(f) = a}
EventsOf(a) == {i \in DOMAIN outbox : outbox[i].by = a}
AuditsOf(a) == {x \in audits : x.by = a}

(* The evidence of an attempt is that of its facts: facts, exactly one     *)
(* event and the success audits if it succeeded; no fact, no event and no  *)
(* success audit if it was answered from a row, rejected or cut off.       *)
EvidenceMatchesFacts ==
  \A a \in Attempts :
    LET said == {x.action : x \in AuditsOf(a)}
    IN  IF outcome[a] = "success"
        THEN /\ FactsOf(a) # {}
             /\ Cardinality(EventsOf(a)) = 1
             /\ said = SuccessActions(request[a])
        ELSE /\ FactsOf(a) = {} /\ EventsOf(a) = {}
             /\ outcome[a] = "replay" => said = {"transaction_idempotent_replay"}
             /\ outcome[a] \notin {"replay"} \union Errors => said = {}
             /\ outcome[a] \in Errors =>
                  said \subseteq {RejectionAction(request[a], outcome[a])}

(* Nothing is recorded in an archived portfolio: not even by a command     *)
(* that had read the portfolio as active before it was archived.           *)
NothingAfterArchive ==
  [][archived => UNCHANGED <<facts, corrections, nextSequence, outbox>>]_vars

(* Every request that starts ends: it is answered, rejected or cut off.    *)
(* No order of key, sequence and portfolio locks leaves requests waiting   *)
(* for each other.                                                         *)
RequestsFinish == \A a \in Attempts : (pc[a] # "idle") ~> (pc[a] = "done")
-----------------------------------------------------------------------------
(* What the outbox announces: the facts of each event's attempt.           *)
Announced == [i \in DOMAIN outbox |-> FactsOf(outbox[i].by)]

Serial == INSTANCE SerialLedger WITH announced <- Announced

(* The concurrent commands are equivalent to commands run one at a time in *)
(* the order of their commits, each seeing all facts of all earlier ones,  *)
(* although a transaction reads the ledger at READ COMMITTED and validates *)
(* only the assets it touches.                                             *)
Serializable == Serial!Spec
=============================================================================
