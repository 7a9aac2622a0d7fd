SPECIFICATION Spec
CONSTANTS
    Interval = 20
    KeepAlive = 20
    Latency = 2
    RoundTrip = 2
    MaxLeft = 2
INVARIANTS
    KeepAliveHonoured
    SilenceNoticed
    TimeoutMeansSilence
