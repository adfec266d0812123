SPECIFICATION Spec
CONSTANTS
    Units = 4
    MaxInt = 3
    Second = 300000000
    MaxU32 = 1000000
    CyclesPerQuarterX1000 = 12036
    FixedCyclesPerBit = 231
    Clocks <- KiloClocks
    Asked <- KiloAsked
    MaxRepeat = 3
INVARIANT NeverOvershoots
