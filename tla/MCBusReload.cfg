SPECIFICATION Spec
CONSTANTS
    low = low
    seed = seed
    wave = wave
    codes = codes
    a = a
    b = b
    c = c
    d = d
    e = e
    Word <- MCWord
    Loads <- MCLoads
    Low = low
    Seed = seed
    Wave = wave
    Codes = codes
    Capacity = 3
    FifoDepth = 2
    PreloadWords = 2
    Batch = 2
    ReloadFirst = TRUE
PROPERTY
    ReloadOnlyWhenChained
