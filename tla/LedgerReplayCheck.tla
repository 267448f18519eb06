-------------------------- MODULE LedgerReplayCheck --------------------------
(***************************************************************************)
(* ReplayLedger (domain/replay.go) over the ledger that was reached and    *)
(* over samples of small ledgers: existing facts and the candidates that   *)
(* one command adds to them.  Some candidates repeat a sequence, and some  *)
(* reversals name a missing fact or differ from the one they name, as in   *)
(* the tests of the domain package.                                        *)
(***************************************************************************)
EXTENDS TransactionLedger

CONSTANT Samples   \* the assets, quantities and instants of small ledgers

ASSUME SampleAssumption ==
  Samples \subseteq [assets : SUBSET Assets, quantities : SUBSET Nat, instants : SUBSET Nat]

Fact(ledger, kind, asset, quantity, at, reversalOf) ==
  LET n == Cardinality(ledger) + 1
  IN  [id |-> n, seq |-> n, kind |-> kind, asset |-> asset,
       quantity |-> quantity, effectiveAt |-> at, reversalOf |-> reversalOf]

Ordinary(ledger, s) ==
  {Fact(ledger, kind, asset, quantity, at, NoFact) :
     kind \in {"BUY", "SELL"}, asset \in s.assets, quantity \in s.quantities, at \in s.instants}
  \union {Fact(ledger, "DIVIDEND", asset, 0, at, NoFact) : asset \in s.assets, at \in s.instants}
  \union {Fact(ledger, "DEPOSIT", NoAsset, 0, at, NoFact) : at \in s.instants}

Reversals(ledger) ==
  {Fact(ledger, "REVERSAL", g.asset, g.quantity, g.effectiveAt, g.id) : g \in ledger}

Broken(ledger, s) ==
  {Fact(ledger, "REVERSAL", NoAsset, 0, at, Cardinality(ledger) + 1) : at \in s.instants}
  \union {Fact(ledger, "REVERSAL", g.asset, g.quantity + 1, g.effectiveAt, g.id) : g \in ledger}
  \union {[Fact(ledger, "BUY", g.asset, 1, at, NoFact) EXCEPT !.seq = g.seq] :
            g \in ledger, at \in s.instants}

Stored(ledger, s)  == Ordinary(ledger, s) \union Reversals(ledger)
Offered(ledger, s) == Stored(ledger, s) \union Broken(ledger, s)

(* The ledgers with a fact more that is stored, or that a command offers.  *)
Recorded(ledgers, s) ==
  ledgers \union UNION {{l \union {f} : f \in Stored(l, s)} : l \in ledgers}
WithCandidate(ledgers, s) ==
  ledgers \union UNION {{l \union {f} : f \in Offered(l, s)} : l \in ledgers}

(* Up to two facts, and up to two candidates on top of them.               *)
Existing(s)         == Recorded(Recorded({{}}, s), s)
Extended(ledger, s) == WithCandidate(WithCandidate({ledger}, s), s)

-----------------------------------------------------------------------------
SamplesAreDecided ==
  \A s \in Samples : \A existing \in Existing(s) : \A ledger \in Extended(existing, s) :
    ScanDecides(existing, ledger \ existing)

(* The scan, with its running balances and its early return, decides       *)
(* exactly what the set of facts says: which ledgers are valid, which      *)
(* error an invalid one gets and whose fault it is, over the ledger that   *)
(* was reached and over all samples (domain/replay.go).                    *)
ScanIsReplay == ScanDecides(facts, {}) /\ SamplesAreDecided
=============================================================================
