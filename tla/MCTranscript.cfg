SPECIFICATION FairSpec
CONSTANTS
    s1 = s1
    s2 = s2
    o1 = o1
    Offline = {s1, s2}
    Online = {o1}
    Letters <- TwoLetters
    Default <- ServiceList
    Users <- ClientLists
    Speech <- Said
    Workers = 1
CHECK_DEADLOCK FALSE
INVARIANTS
    NoPromptLeak
    SpeechKept
PROPERTIES
    EveryCallReturns
