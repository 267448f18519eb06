--------------------------- MODULE MCRateLimiter ---------------------------
(***************************************************************************)
(* Small instances of RateLimiter for TLC.                                 *)
(***************************************************************************)
EXTENDS RateLimiter, TLC

MCLimit == [k \in Key |-> 2]

MCWindow == [k \in Key |-> 3]

\* Requests are interchangeable, and so are keys of one policy.
Symmetry == Permutations(Attempt) \cup Permutations(Key)

=============================================================================
