-------------------------- MODULE MCOutboxDelivery --------------------------
(***************************************************************************)
(* Small instances of OutboxDelivery for TLC.                              *)
(***************************************************************************)
EXTENDS OutboxDelivery

CONSTANTS w1, w2

OneStream == 1..1

\* The clock of w2 is ahead of real time and of the clock of w1.
SkewedClocks == [w \in Workers |-> IF w = w2 THEN 1 ELSE 0]

EqualClocks == [w \in Workers |-> 0]

=============================================================================
