CONSTANTS
    w1 = w1
    w2 = w2
    Workers = {w1, w2}
    Streams <- OneStream
    MaxPosition = 2
    LeaseDuration = 2
    RetryBaseDelay = 1
    RetryMaxDelay = 1
    TopDuration = 7
    MaxDeliveryInvocations = 2
    MaxAttemptCount = 9
    BatchSize = 1
    Skew <- EqualClocks
    ProducerSkew = 1
    MaxDisruptions = 1
SPECIFICATION FairSpec
CHECK_DEADLOCK FALSE
PROPERTY StopAndWaitChannel
PROPERTY EventuallySettled
