------------------------- MODULE MCLedgerCorrections -------------------------
(***************************************************************************)
(* The corrections run, and the replay it rests on over all small ledgers: *)
(* two assets, and one asset in two quantities.                            *)
(***************************************************************************)
EXTENDS MCTransactionLedger, LedgerReplayCheck

SmallLedgers ==
  {[assets |-> {x, y}, quantities |-> {1}, instants |-> {1, 2}],
   [assets |-> {x}, quantities |-> {1, 2}, instants |-> {1, 2}]}
=============================================================================
