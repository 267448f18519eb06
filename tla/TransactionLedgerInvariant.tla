--------------------- MODULE TransactionLedgerInvariant ---------------------
(***************************************************************************)
(* Why the properties of TransactionLedger hold: what every attempt holds  *)
(* and knows in each phase.  LedgerInvariant is inductive; it is checked   *)
(* by TLC here and proved in TransactionLedgerProofs.                      *)
(***************************************************************************)
EXTENDS TransactionLedger

InTransaction(a) == pc[a] \in {"lock_key", "lookup", "allocate", "write", "commit"}
HasKey(a)        == pc[a] \in {"lookup", "allocate", "write", "commit"}
Recording(a)     == pc[a] = "commit" /\ pending[a].facts # {}
HasSequence(a)   == pc[a] = "write" \/ Recording(a)
Accepted(a)      == pc[a] = "allocate" \/ HasSequence(a)

(* Each phase owns the locks the earlier ones took.                        *)
LocksHeld ==
  \A a \in Attempts :
    /\ pc[a] # "idle" => request[a] \in RequestSet
    /\ InTransaction(a) => request[a].owner /\ a \in shares
    /\ HasKey(a) => keyHolder[LockId(request[a])] = a
    /\ HasSequence(a) => seqHolder = a

(* No lock outlives the phases that need it.                               *)
LocksReleased ==
  /\ \A a \in shares : InTransaction(a)
  /\ \A a \in Attempts : \A l \in LockIds :
       keyHolder[l] = a => HasKey(a) /\ LockId(request[a]) = l
  /\ \A a \in Attempts : seqHolder = a => HasSequence(a)

(* What is pending: nothing, the replay of a row, or facts with one event. *)
PendingWrites ==
  \A a \in Attempts :
    /\ pc[a] # "commit" => pending[a].facts = {}
    /\ pending[a].facts = {} =>
         pending[a].corrections = {} /\ pending[a].rows = {} /\ pending[a].events = <<>>
    /\ pc[a] = "commit" /\ pending[a].facts = {} => pending[a].expired = {}
    /\ \A f \in pending[a].facts : Writer(f) = a
    /\ outcome[a] \in {"success", "replay"} => pc[a] = "done"

(* Archival waits for the share locks, so an attempt that goes on read an  *)
(* active portfolio that is still active.                                  *)
ArchivalSeen ==
  \A a \in Attempts :
    /\ a \in shares /\ archived => sawArchived[a]
    /\ Accepted(a) => ~sawArchived[a]

(* Pending facts take the next sequences.                                  *)
PendingSequences ==
  \A a \in Attempts :
    /\ pc[a] = "write" => sequence[a] = nextSequence
    /\ pending[a].facts # {} =>
         \E f, g \in pending[a].facts :
           /\ pending[a].facts = {f, g}
           /\ f.seq = nextSequence
           /\ f # g => g.seq = nextSequence + 1

(* Pending facts were validated against the ledger they will be added to.  *)
PendingValid ==
  \A a \in Attempts : pc[a] = "commit" => Overdrawn(facts \union pending[a].facts) = {}

(* The facts of a key are covered by its row, and an attempt that goes on  *)
(* found the key's row expired.                                            *)
RowsCoverFacts ==
  /\ \A f \in facts :
       /\ pc[Writer(f)] = "done"
       /\ \E row \in KeyRows(request[Writer(f)]) : f.createdAt <= row.completedAt
  /\ \A a \in Attempts :
       /\ pc[a] \in {"allocate", "write"} =>
            /\ pending[a].expired = KeyRows(request[a])
            /\ \A row \in KeyRows(request[a]) : row.completedAt + Retention <= clock
       /\ Recording(a) =>
            /\ pending[a].expired = KeyRows(request[a])
            /\ \A f \in pending[a].facts :
                 /\ \A row \in KeyRows(request[a]) :
                      row.completedAt + Retention <= f.createdAt
                 /\ \A row \in pending[a].rows : row.completedAt = f.createdAt
            /\ \E row \in pending[a].rows : /\ pending[a].rows = {row}
                                             /\ LockId(row) = LockId(request[a])

(* A row is the trace of the attempt that wrote it, and an answer taken    *)
(* from a row is the one that attempt gave.                                *)
AnsweredBy(a, b) ==
  /\ outcome[b] = "success"
  /\ request[b] = request[a]
  /\ answer[b] = answer[a]
  /\ \E f \in facts : f.id = answer[a]

RowsAreAnswers ==
  /\ \A row \in idempotency : \E b \in Attempts :
       /\ outcome[b] = "success" /\ request[b].owner
       /\ LockId(row) = LockId(request[b])
       /\ row.digest = Fingerprint(request[b])
       /\ row.primary = answer[b]
       /\ \E f \in facts : f.id = answer[b]
  /\ \A a \in Attempts :
       /\ pc[a] = "commit" /\ pending[a].facts = {} => \E b \in Attempts : AnsweredBy(a, b)
       /\ Recording(a) =>
            /\ \E f \in pending[a].facts : f.id = answer[a]
            /\ \A row \in pending[a].rows :
                 row.digest = Fingerprint(request[a]) /\ row.primary = answer[a]

(* An attempt leaves no evidence before it ends, and what it is about to   *)
(* commit is the evidence of what it will have done.                       *)
PendingEvidence ==
  \A a \in Attempts :
    /\ pc[a] # "done" => FactsOf(a) = {} /\ EventsOf(a) = {} /\ AuditsOf(a) = {}
    /\ pc[a] \notin {"audit_rejection", "done"} => outcome[a] = "none"
    /\ pc[a] = "audit_rejection" => outcome[a] \in Errors
    /\ pc[a] = "commit" /\ pending[a].facts = {} =>
         pending[a].audits = {[by |-> a, action |-> "transaction_idempotent_replay"]}
    /\ Recording(a) =>
         /\ pending[a].audits = {[by |-> a, action |-> x] : x \in SuccessActions(request[a])}
         /\ \E e \in EventSet : pending[a].events = <<e>> /\ e.by = a

(* Facts are told apart by their identity, and only a reversal reverses.   *)
FactsDistinct ==
  /\ \A f, g \in facts : f.id = g.id => f = g
  /\ \A f \in facts : f.kind # "REVERSAL" => f.reversalOf = NoFact

(* What is about to be committed is one ordinary fact, or the group of a   *)
(* fact that nobody has corrected.                                         *)
PendingRecord(a) ==
  \E f \in pending[a].facts :
    /\ pending[a].facts = {f}
    /\ f.kind # "REVERSAL" /\ f.reversalOf = NoFact /\ f.correctionOf = NoFact
    /\ pending[a].corrections = {}

PendingGroup(a) ==
  \E o \in facts : \E r, p \in pending[a].facts : \E c \in pending[a].corrections :
    /\ pending[a].facts = {r, p} /\ pending[a].corrections = {c}
    /\ c.original = o.id /\ c.reversal = r.id /\ c.replacement = p.id
    /\ r.id # p.id /\ r.seq = nextSequence /\ p.reversalOf = NoFact
    /\ Group(o, r, p)
    /\ ~HasDirectCorrection(o.id)

PendingGroups ==
  \A a \in Attempts : Recording(a) => PendingRecord(a) \/ PendingGroup(a)

(* An attempt waits for the holder of the lock it needs next.              *)
WaitsFor(a, b) ==
  \/ pc[a] = "lock_key" /\ keyHolder[LockId(request[a])] = b
  \/ pc[a] = "allocate" /\ seqHolder = b

(* No attempts wait for each other in a circle: among any of them, one     *)
(* waits for none of the others.                                           *)
NoWaitCycle ==
  \A waiting \in (SUBSET Attempts) \ {{}} :
    \E a \in waiting : \A b \in waiting : ~WaitsFor(a, b)

(* The conjunction that every step preserves.                              *)
LedgerInvariant ==
  /\ TypeOK
  /\ LocksHeld
  /\ LocksReleased
  /\ PendingWrites
  /\ ArchivalSeen
  /\ PendingSequences
  /\ SequenceGapFree
  /\ PendingValid
  /\ NoNegativePosition
  /\ RowsCoverFacts
  /\ AtMostOncePerKey
  /\ RowsAreAnswers
  /\ ReplayAnswersOriginal
  /\ PendingEvidence
  /\ EvidenceMatchesFacts
  /\ FactsDistinct
  /\ PendingGroups
  /\ CorrectionGroups
=============================================================================
