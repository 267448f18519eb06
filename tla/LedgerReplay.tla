---------------------------- MODULE LedgerReplay ----------------------------
(***************************************************************************)
(* The pure validation of a transaction ledger:                            *)
(* src/backend/internal/transaction/domain/replay.go.                      *)
(*                                                                         *)
(* A ledger is a set of immutable facts.  A fact is a record               *)
(*   id          its identity (a UUID in the code)                         *)
(*   seq         its portfolio sequence                                    *)
(*   kind        one of Kinds                                              *)
(*   asset       an asset, or NoAsset for a cash fact                      *)
(*   quantity    a natural number; 0 stands for an absent quantity         *)
(*   effectiveAt the instant the fact takes effect                         *)
(*   reversalOf  the fact a REVERSAL cancels, NoFact otherwise             *)
(* and may have further fields the replay does not read.  Unit price, fee, *)
(* amount, currency and the optional texts are left out: the replay copies *)
(* and compares them with the quantity and gives them no meaning.          *)
(*                                                                         *)
(* ReplayLedger states the verdict as a predicate of the set of facts;     *)
(* ScanLedger computes it as the code does, one fact after the other in    *)
(* replay order.  Module LedgerReplayCheck compares the two.               *)
(***************************************************************************)
EXTENDS Integers, FiniteSets, SequencesExt

CONSTANTS NoAsset,   \* the asset of a cash fact
          NoFact     \* the identity that names no fact

Kinds == {"BUY", "SELL", "DIVIDEND", "DEPOSIT", "WITHDRAWAL", "FEE", "REVERSAL"}

-----------------------------------------------------------------------------
(* The replay order: effective time, then portfolio sequence.  The code    *)
(* breaks a further tie by identity, which two facts of one portfolio      *)
(* never reach because an equal sequence is rejected first.                *)
Precedes(f, g) ==
  \/ f.effectiveAt < g.effectiveAt
  \/ f.effectiveAt = g.effectiveAt /\ f.seq < g.seq

(* The facts one after the other, each at the place the number of those    *)
(* before it gives.                                                        *)
InReplayOrder(ledger) ==
  [i \in 1..Cardinality(ledger) |->
     CHOOSE f \in ledger : Cardinality({g \in ledger : Precedes(g, f)}) = i - 1]

AssetRows(ledger, asset) == {f \in ledger : f.asset = asset}

(* The fact a reversal names.  Every ledger it is applied to has passed    *)
(* WellFormed, so there is exactly one.                                    *)
Reversed(f, rows) == CHOOSE g \in rows : g.id = f.reversalOf

(* Mutant of Signed: a reversal subtracts whatever it cancels.             *)
SignedReversalSubtracts(f, rows) ==
  CASE f.kind = "BUY"                 -> f.quantity
    [] f.kind \in {"SELL", "REVERSAL"} -> -f.quantity
    [] OTHER                          -> 0

(* What a fact adds to the balance of its asset.                           *)
Signed(f, rows) ==
  CASE f.kind = "BUY"      -> f.quantity
    [] f.kind = "SELL"     -> -f.quantity
    [] f.kind = "REVERSAL" -> IF Reversed(f, rows).kind = "BUY"
                              THEN -f.quantity ELSE f.quantity
    [] OTHER               -> 0

(* The balance of f's asset right after f, rows being the asset's facts.   *)
Balance(f, rows) ==
  MapThenSumSet(LAMBDA g : Signed(g, rows),
                {g \in rows : g = f \/ Precedes(g, f)})

(* The facts at which the balance of their asset is below zero.            *)
Overdrawn(ledger) ==
  {f \in ledger : /\ f.asset # NoAsset
                  /\ f.quantity > 0
                  /\ Balance(f, AssetRows(ledger, f.asset)) < 0}

-----------------------------------------------------------------------------
UniqueFacts(ledger) ==
  \A f, g \in ledger : f # g => f.id # g.id /\ f.seq # g.seq

SameFinancialDimensions(f, g) == f.asset = g.asset /\ f.quantity = g.quantity

(* A reversal cancels one earlier-known ordinary fact, at its effective    *)
(* time and with its dimensions, and no two cancel the same one.           *)
ConsistentReversals(ledger) ==
  \A f \in ledger : f.kind = "REVERSAL" =>
    /\ \E g \in ledger : /\ g.id = f.reversalOf
                         /\ g.kind # "REVERSAL"
                         /\ SameFinancialDimensions(f, g)
                         /\ g.effectiveAt = f.effectiveAt
    /\ \A h \in ledger : h.kind = "REVERSAL" /\ h.reversalOf = f.reversalOf => h = f

WellFormed(ledger) == UniqueFacts(ledger) /\ ConsistentReversals(ledger)

(* The first overdrawn fact in replay order.                               *)
FirstViolation(ledger) ==
  CHOOSE f \in Overdrawn(ledger) :
    \A g \in Overdrawn(ledger) : g = f \/ Precedes(f, g)

(* An overdrawn fact that was already in the ledger and comes after a      *)
(* candidate of its asset: the candidate was backdated under it.           *)
LaterExisting(f, candidates) ==
  /\ f \notin candidates
  /\ \E c \in candidates : c.asset = f.asset /\ Precedes(c, f)

ReplayLedger(existing, candidates) ==
  LET ledger == existing \union candidates
  IN  IF ~WellFormed(ledger) THEN "INVALID_LEDGER"
      ELSE IF Overdrawn(ledger) = {} THEN "OK"
      ELSE IF LaterExisting(FirstViolation(ledger), candidates)
           THEN "INVALID_BACKDATED"
           ELSE "INSUFFICIENT_QUANTITY"

-----------------------------------------------------------------------------
(* Mutant of ScanStep: a candidate is noted only after its balance is      *)
(* accepted, and an existing fact after any later one is blamed on itself. *)
ScanStepForgetsCandidates(acc, f, ledger, candidates) ==
  LET balance == acc.balance[f.asset] + Signed(f, AssetRows(ledger, f.asset))
  IN  IF acc.verdict # "OK" \/ f.asset = NoAsset \/ f.quantity = 0 THEN acc
      ELSE IF balance >= 0 THEN [acc EXCEPT !.balance[f.asset] = balance]
           ELSE [acc EXCEPT !.verdict = "INSUFFICIENT_QUANTITY"]

(* The scan of the code: the facts in replay order, the running balance of *)
(* each asset, and the assets a candidate of which has been passed.  It    *)
(* returns at the first negative balance.                                  *)
ScanStep(acc, f, ledger, candidates) ==
  LET rows    == AssetRows(ledger, f.asset)
      seen    == IF f \in candidates THEN acc.seen \union {f.asset} ELSE acc.seen
      balance == acc.balance[f.asset] + Signed(f, rows)
  IN  IF acc.verdict # "OK" \/ f.asset = NoAsset THEN acc
      ELSE IF f.quantity = 0 THEN [acc EXCEPT !.seen = seen]
      ELSE IF balance >= 0
           THEN [acc EXCEPT !.seen = seen, !.balance[f.asset] = balance]
           ELSE [acc EXCEPT !.verdict =
                  IF f \notin candidates /\ f.asset \in seen
                  THEN "INVALID_BACKDATED" ELSE "INSUFFICIENT_QUANTITY"]

ScanLedger(existing, candidates) ==
  LET ledger == existing \union candidates
      start  == [verdict |-> "OK", seen |-> {},
                 balance |-> [a \in {f.asset : f \in ledger} |-> 0]]
  IN  IF ~WellFormed(ledger) THEN "INVALID_LEDGER"
      ELSE FoldLeft(LAMBDA acc, f : ScanStep(acc, f, ledger, candidates),
                    start, InReplayOrder(ledger)).verdict

(* What the scan has to decide: the verdict of the facts, and whose fault  *)
(* it is.  Candidates added to a valid ledger are told that a quantity is  *)
(* insufficient only when the first fact without cover is one of them, and *)
(* that they are backdated only when it was there before.                  *)
ScanDecides(existing, candidates) ==
  LET verdict == ScanLedger(existing, candidates)
      first   == FirstViolation(existing \union candidates)
  IN  /\ verdict = ReplayLedger(existing, candidates)
      /\ verdict = "INSUFFICIENT_QUANTITY" /\ ReplayLedger(existing, {}) = "OK"
         => first \in candidates
      /\ verdict = "INVALID_BACKDATED" => first \in existing
=============================================================================
