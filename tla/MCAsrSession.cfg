CONSTANTS
    FrameSizes <- UpToTwoHops
    VadSpans <- SpanSet
    Silences <- SomeSilences
    Trigger = 1
    OnlinePause = 1
    SamplesPerMs = 1
    MaxSamples = 3
    MaxCuts = 2
SPECIFICATION FairSpec
INVARIANTS
    TypeOK
    OnlineBusyExact
    SegmentConservation
    ResultsInOrder
    OwnAnswerLast
    NoAudioLost
    EndMarkedOnce
PROPERTIES
    ImplementsDelivery
    SessionCloses
    SegmentsResolve
CHECK_DEADLOCK FALSE
