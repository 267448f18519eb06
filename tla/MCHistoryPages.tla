--------------------------- MODULE MCHistoryPages ---------------------------
(***************************************************************************)
(* Small instances of HistoryPages for TLC.                                *)
(***************************************************************************)
EXTENDS HistoryPages

MCFilters ==
    {[kind |-> AnyKind, from |-> 1, to |-> 2, reversals |-> TRUE],
     [kind |-> AnyKind, from |-> 1, to |-> 2, reversals |-> FALSE],
     [kind |-> "DEPOSIT", from |-> 1, to |-> 1, reversals |-> TRUE],
     [kind |-> AnyKind, from |-> 2, to |-> 1, reversals |-> TRUE]}

=============================================================================
