---------------------------- MODULE SerialLedger ----------------------------
(***************************************************************************)
(* What the transaction API promises of one portfolio, without requests,   *)
(* locks, keys or uncommitted writes: commands take effect one at a time,  *)
(* each validated against the whole ledger it is added to, until the       *)
(* portfolio is archived.  TransactionLedger implements it.                *)
(***************************************************************************)
EXTENDS LedgerReplay

VARIABLES facts,      \* the recorded facts
          archived,   \* whether the portfolio takes no more commands
          announced   \* for each command, in order, the facts it recorded

vars == <<facts, archived, announced>>

Init == facts = {} /\ archived = FALSE /\ announced = <<>>

NextSeq == Cardinality(facts) + 1

Corrected(id) == \E f \in facts : f.reversalOf = id

(* The ledger grows by the given facts, and one event announces them.      *)
Extend(new) ==
  /\ ~archived
  /\ ReplayLedger(facts, new) = "OK"
  /\ facts' = facts \union new
  /\ announced' = Append(announced, new)
  /\ UNCHANGED archived

(* One ordinary fact.                                                      *)
Record ==
  \E f \in facts' :
    /\ f.seq = NextSeq
    /\ f.kind # "REVERSAL" /\ f.reversalOf = NoFact /\ f.correctionOf = NoFact
    /\ Extend({f})

(* The reversal of an ordinary fact nobody has corrected yet, and the fact *)
(* that replaces it.  The replay demands that the reversal mirrors it.     *)
Correct ==
  \E original \in facts : \E reversal, replacement \in facts' :
    /\ original.kind # "REVERSAL" /\ ~Corrected(original.id)
    /\ reversal.kind = "REVERSAL" /\ reversal.reversalOf = original.id
    /\ reversal.seq = NextSeq
    /\ replacement.kind # "REVERSAL" /\ replacement.correctionOf = original.id
    /\ replacement.seq = NextSeq + 1
    /\ Extend({reversal, replacement})

Archive == archived' = TRUE /\ UNCHANGED <<facts, announced>>

Next == Record \/ Correct \/ Archive

Spec == Init /\ [][Next]_vars
=============================================================================
