SPECIFICATION Spec
CONSTANTS
    Units = 4
    MaxInt = 3
    Second = 20000
    MaxU32 = 1000000
    CyclesPerQuarterX1000 = 12036
    FixedCyclesPerBit = 231
    Clocks <- FiftyMegaClocks
    Asked <- LongPulses
    MaxRepeat = 3
INVARIANT TicksClosest
