------------------------- MODULE MCTransactionLedger -------------------------
(***************************************************************************)
(* Instances of TransactionLedger.  Each run asks one question, with the   *)
(* commands that can answer it; attempts are interchangeable, so the       *)
(* safety runs that name no attempt are reduced by their permutations.     *)
(***************************************************************************)
EXTENDS TransactionLedgerInvariant

CONSTANTS x, y, delisted   \* assets; the catalog does not resolve delisted

AttemptSymmetry == Permutations(Attempts)

Create(key, kind, asset, quantity, effectiveAt) ==
  [owner |-> TRUE, scope |-> "transaction.create.v1", key |-> key, kind |-> kind,
   asset |-> asset, quantity |-> quantity, effectiveAt |-> effectiveAt]

CorrectTo(key, kind, asset, quantity, effectiveAt) ==
  [Create(key, kind, asset, quantity, effectiveAt)
     EXCEPT !.scope = "transaction.correct.v1"]

(* One key used for two commands, a correction under a second key, and     *)
(* every command the checks reject.                                        *)
KeyCommands ==
  {Create("k1", "BUY", x, 1, 1), Create("k1", "BUY", x, 2, 1),
   CorrectTo("k2", "BUY", x, 1, 1), Create("k1", "BUY", x, 1, 9),
   Create("k3", "BUY", delisted, 1, 1),
   [Create("k1", "BUY", x, 1, 1) EXCEPT !.owner = FALSE]}

(* A buy, a sell, a dividend and a deposit, and corrections that change    *)
(* the quantity, the asset, the effective time or the kind.                *)
CorrectionCommands ==
  {Create("k1", "BUY", x, 2, 1), Create("k2", "SELL", x, 1, 2),
   Create("k3", "DEPOSIT", NoAsset, 0, 1),
   CorrectTo("k1", "BUY", y, 2, 1), CorrectTo("k2", "SELL", x, 2, 1),
   CorrectTo("k3", "FEE", NoAsset, 0, 1)}

=============================================================================
