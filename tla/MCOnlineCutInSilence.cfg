SPECIFICATION PipelineSpec
CONSTANTS
    Hop = 2
    MinSpeech = 4
    Pause = 8
    MaxSpeech = 25
    Pad = 1
    FeedSizes = {4}
    MaxFrames = 12
    Trigger = 5
    OnlinePause = 4
    SamplesPerMs = 1
CHECK_DEADLOCK FALSE
PROPERTIES
    OnlineCutInSilence
