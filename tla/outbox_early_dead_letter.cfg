CONSTANTS
    w1 = w1
    w2 = w2
    Workers = {w1}
    Streams <- OneStream
    MaxPosition = 1
    LeaseDuration = 2
    RetryBaseDelay = 1
    RetryMaxDelay = 1
    TopDuration = 7
    MaxDeliveryInvocations = 2
    MaxAttemptCount = 3
    BatchSize = 1
    Skew <- EqualClocks
    ProducerSkew = 1
    MaxDisruptions = 2
SPECIFICATION Spec
CHECK_DEADLOCK FALSE
INVARIANT FailuresBeforeLastAreRescheduled
