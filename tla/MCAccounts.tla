----------------------------- MODULE MCAccounts -----------------------------
(***************************************************************************)
(* Small instances of Accounts for TLC: one network, any emails.           *)
(***************************************************************************)
EXTENDS Accounts, TLC

CONSTANTS LoginNetwork, RegistrationNetwork

MCKey == Email \cup {LoginNetwork, RegistrationNetwork}

MCEmailKey == [e \in Email |-> e]

MCLoginKey == [n \in Network |-> LoginNetwork]

MCRegistrationKey == [n \in Network |-> RegistrationNetwork]

MCLimit == [k \in Key |-> 2]

MCWindow == [k \in Key |-> 1]

Symmetry == Permutations(Attempt)

=============================================================================
