--------------------------- MODULE SingleUseTokens ---------------------------
(***************************************************************************)
(* What refresh tokens promise.  A login issues the first token of a       *)
(* family; a live token is exchanged, once, for the next one; a revocation *)
(* ends tokens of one family for good, and expiry ends unused ones.        *)
(***************************************************************************)
EXTENDS Integers

CONSTANTS
    Family,
    Token,
    NoFamily     \* the family of a token that is not issued

VARIABLES
    status,     \* token -> "unissued", "live", "spent" or "dead"
    lineage     \* token -> its family once it is issued

vars == <<status, lineage>>

Live(f) == {t \in Token : lineage[t] = f /\ status[t] = "live"}

Init ==
    /\ status = [t \in Token |-> "unissued"]
    /\ lineage = [t \in Token |-> NoFamily]

\* A family begins with one token.
Issue(f, t) ==
    /\ status[t] = "unissued"
    /\ \A u \in Token : lineage[u] # f
    /\ status' = [status EXCEPT ![t] = "live"]
    /\ lineage' = [lineage EXCEPT ![t] = f]

\* The old token ends and the new one begins at the same instant.
Exchange(t, u) ==
    /\ status[t] = "live"
    /\ status[u] = "unissued"
    /\ status' = [status EXCEPT ![t] = "spent", ![u] = "live"]
    /\ lineage' = [lineage EXCEPT ![u] = lineage[t]]

Ended(ended) == [t \in Token |-> IF t \in ended THEN "dead" ELSE status[t]]

\* Nothing of the family that the revocation knew stays usable.
Revoke(f) ==
    \E ended \in SUBSET {t \in Token : lineage[t] = f} :
        status' = Ended(ended) /\ UNCHANGED lineage

Expire ==
    \E ended \in SUBSET {t \in Token : status[t] = "live"} :
        status' = Ended(ended) /\ UNCHANGED lineage

Next ==
    \/ \E f \in Family, t \in Token : Issue(f, t)
    \/ \E t, u \in Token : Exchange(t, u)
    \/ \E f \in Family : Revoke(f)
    \/ Expire

Spec == Init /\ [][Next]_vars

\* A token has a family once it is issued.
TypeOK ==
    /\ status \in [Token -> {"unissued", "live", "spent", "dead"}]
    /\ lineage \in [Token -> Family \cup {NoFamily}]
    /\ \A t \in Token : status[t] # "unissued" => lineage[t] # NoFamily

\* A family never has two usable tokens, whatever is exchanged and revoked.
OneLiveToken == \A f \in Family : \A t, u \in Live(f) : t = u

\* What was exchanged or ended is never usable again.
SpentIsFinal ==
    [][\A t \in Token : status[t] \in {"spent", "dead"} => status'[t] \in {"spent", "dead"}]_vars

=============================================================================
