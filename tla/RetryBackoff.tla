---------------------------- MODULE RetryBackoff ----------------------------
(***************************************************************************)
(* The exponential cap on a retry delay: retryCap of the delivery worker,  *)
(* a loop over machine integers.  TopDuration is the largest time.Duration *)
(* (2^63 - 1 in the program); a sum above it wraps to the negative side.   *)
(***************************************************************************)
EXTENDS Integers

CONSTANT TopDuration

ASSUME DurationAssumption == TopDuration \in Nat \ {0}

Wrapped(n) == LET m == n % (2 * (TopDuration + 1))
              IN  IF m > TopDuration THEN m - 2 * (TopDuration + 1) ELSE m

\* A plausible bug: the check against half the maximum is left out.
DoubledPast(cap, max) == IF cap >= max THEN cap ELSE Wrapped(cap * 2)

\* One turn of the loop: it stops at the maximum and returns the maximum
\* instead of doubling past it.
NextCap(cap, max) ==
    IF cap >= max THEN cap
    ELSE IF cap > max \div 2 THEN max ELSE Wrapped(cap * 2)

RetryCap(base, max, attempt) ==
    LET cap[n \in 1..attempt] == IF n = 1 THEN base ELSE NextCap(cap[n - 1], max)
    IN  cap[attempt]

Lesser(a, b) == IF a < b THEN a ELSE b

\* What the loop has to compute: base * 2^(attempt - 1), but at most the
\* maximum, as numbers of any size.
Doubled(base, attempt) ==
    LET double[n \in 1..attempt] == IF n = 1 THEN base ELSE 2 * double[n - 1]
    IN  double[attempt]

Capped(base, max, attempt) == Lesser(Doubled(base, attempt), max)

\* Every configuration that DeliveryConfig.Validate lets through on this word,
\* for attempts far beyond those that the configuration allows.
WordIsCapped ==
    \A max \in 1..TopDuration : \A base \in 1..max : \A attempt \in 1..TopDuration :
        RetryCap(base, max, attempt) = Capped(base, max, attempt)

=============================================================================
