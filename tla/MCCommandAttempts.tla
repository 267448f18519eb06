-------------------------- MODULE MCCommandAttempts --------------------------
(* Two spellings of one command and one of another. *)
EXTENDS CommandAttempts

MCSpelling == {"10", "10.0", "11"}
MCCommand == {"ten", "eleven"}
MCMeaning == [text \in MCSpelling |-> IF text = "11" THEN "eleven" ELSE "ten"]

=============================================================================
