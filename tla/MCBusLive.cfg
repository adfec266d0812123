SPECIFICATION FairSpec
CONSTANTS
    low = low
    seed = seed
    wave = wave
    codes = codes
    a = a
    b = b
    c = c
    d = d
    e = e
    Word <- MCWord
    Loads <- MCFewLoads
    Low = low
    Seed = seed
    Wave = wave
    Codes = codes
    Capacity = 2
    FifoDepth = 1
    PreloadWords = 1
    Batch = 1
    ReloadFirst = TRUE
PROPERTIES
    StopReturns
    WordsKeepComing
    GapReported
