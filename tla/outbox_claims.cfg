CONSTANTS
    w1 = w1
    w2 = w2
    Workers = {w1, w2}
    Streams <- OneStream
    MaxPosition = 1
    LeaseDuration = 2
    RetryBaseDelay = 1
    RetryMaxDelay = 2
    TopDuration = 15
    MaxDeliveryInvocations = 2
    MaxAttemptCount = 4
    BatchSize = 1
    Skew <- SkewedClocks
    ProducerSkew = 1
    MaxDisruptions = 4
SPECIFICATION Spec
CHECK_DEADLOCK FALSE
INVARIANT ClaimsBounded
INVARIANT OneLiveDelivery
INVARIANT PublishStampAccepted
INVARIANT CapIsFormula
