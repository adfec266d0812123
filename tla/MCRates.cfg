SPECIFICATION Spec
CONSTANTS
    Units = 4
    MaxInt = 3
    Second = 100000
    MaxU32 = 120
    CyclesPerQuarterX1000 = 1500
    FixedCyclesPerBit = 2
    Clocks <- MCClocks
    Asked <- MCAsked
    MaxRepeat = 3
INVARIANTS
    TypeOK
    NearestDivisor
    RangeExact
    ReportHonest
    SlowRatesReached
    I2cOnTime
    I2cRangeExact
    WidthsRoundTrip
