---------------------------- MODULE MCPortfolios ----------------------------
(***************************************************************************)
(* Small instances of Portfolios for TLC: names that differ in case only.  *)
(***************************************************************************)
EXTENDS Portfolios, TLC

MCName == {"a", "A", "b"}

MCFolded == [n \in MCName |-> IF n = "b" THEN "b" ELSE "a"]

Symmetry == Permutations(Request) \cup Permutations(Portfolio) \cup Permutations(Owner)

=============================================================================
