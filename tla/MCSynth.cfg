SPECIFICATION Spec
CONSTANTS
    Units = 4
    MaxInt = 3
    Second = 240000
    MaxU32 = 1100
    Kilo = 10
    Mega = 1000
    Capacity = 12
    Sysclk = 120
    BusWidth = 3
    DefaultWidth = 2
    PreloadSamples = 4
    MaxTokens = 11
    Requests <- MCRequests
INVARIANTS
    TypeOK
    PaddingSuffices
    PadAddsNoEdge
    ShapeAsReported
    GraySteps
    SweepDwell
    PlaysWhatWasAccepted
    NumbersAsWritten
    FrequenciesAsWritten
