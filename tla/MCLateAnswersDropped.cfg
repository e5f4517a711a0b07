CONSTANTS
    FrameSizes <- UpToTwoHops
    VadSpans <- SpanSet
    Silences <- SomeSilences
    Trigger = 1
    OnlinePause = 1
    SamplesPerMs = 1
    MaxSamples = 5
    MaxCuts = 1
SPECIFICATION Spec
INVARIANTS
    LateAnswersDropped
CHECK_DEADLOCK FALSE
