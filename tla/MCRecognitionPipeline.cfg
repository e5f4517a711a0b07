SPECIFICATION PipelineSpec
CONSTANTS
    Hop = 2
    MinSpeech = 4
    Pause = 8
    MaxSpeech = 13
    Pad = 1
    FeedSizes = {3, 15}
    MaxFrames = 14
    Trigger = 5
    OnlinePause = 4
    SamplesPerMs = 1
CHECK_DEADLOCK FALSE
INVARIANTS
    PipelineTypeOK
    SegmentIsWhole
    NoCutOverdue
    ReportsAreSound
    LongBurstsAreHeard
    ReportsAllowed
    SpanIsRecognised
    RecognisedOnce
PROPERTIES
    TailAllowed
    CutBehindPause
