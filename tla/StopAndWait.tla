----------------------------- MODULE StopAndWait -----------------------------
(***************************************************************************)
(* What the outbox promises the receiver of one aggregate stream, without  *)
(* claims, leases, tokens, clocks or workers: a stop-and-wait channel.     *)
(* The next event takes effect only after the previous one is confirmed,   *)
(* every event takes effect at most once, and a stream that is abandoned   *)
(* at an event never delivers a later one.                                 *)
(***************************************************************************)
EXTENDS Naturals, Sequences

CONSTANTS Streams, MaxPosition

VARIABLES
    recorded,   \* how many events of the stream are recorded
    applied,    \* positions whose effect the receiver has, in order
    confirmed,  \* how many events the sender knows to be delivered
    abandoned   \* the streams given up at the event after the last confirmed

vars == <<recorded, applied, confirmed, abandoned>>

Init == /\ recorded = [s \in Streams |-> 0]
        /\ applied = [s \in Streams |-> <<>>]
        /\ confirmed = [s \in Streams |-> 0]
        /\ abandoned = {}

Record(s) == /\ recorded[s] < MaxPosition
             /\ recorded' = [recorded EXCEPT ![s] = @ + 1]
             /\ UNCHANGED <<applied, confirmed, abandoned>>

Deliver(s) == /\ Len(applied[s]) = confirmed[s]
              /\ confirmed[s] < recorded[s]
              /\ applied' = [applied EXCEPT ![s] = Append(@, confirmed[s] + 1)]
              /\ UNCHANGED <<recorded, confirmed, abandoned>>

Confirm(s) == /\ s \notin abandoned
              /\ confirmed[s] < Len(applied[s])
              /\ confirmed' = [confirmed EXCEPT ![s] = @ + 1]
              /\ UNCHANGED <<recorded, applied, abandoned>>

Abandon(s) == /\ confirmed[s] < recorded[s]
              /\ abandoned' = abandoned \union {s}
              /\ UNCHANGED <<recorded, applied, confirmed>>

Next == \E s \in Streams : Record(s) \/ Deliver(s) \/ Confirm(s) \/ Abandon(s)

Spec == Init /\ [][Next]_vars

=============================================================================
