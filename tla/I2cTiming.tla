-------------------------------- MODULE I2cTiming --------------------------------
(***************************************************************************)
(* The timing model of the bit-banged I2C clock                            *)
(* (src/crates/tester-core/src/i2c_timing.rs): how many CPU cycles a bit   *)
(* takes for a given delay count, and the count planned for a bus rate.    *)
(***************************************************************************)
EXTENDS Timing

CONSTANTS
    CyclesPerQuarterX1000,  \* 12036
    FixedCyclesPerBit       \* 231

ASSUME I2cTimingAssumption ==
    /\ CyclesPerQuarterX1000 \in Nat /\ CyclesPerQuarterX1000 >= 1000
    /\ FixedCyclesPerBit \in Nat

BitCycles(quarter) == (CyclesPerQuarterX1000 * quarter) \div 1000 + FixedCyclesPerBit

WantCycles(sysclk, hz) == sysclk \div hz

(* Mutant of Quarter: rounded down, so the bit is shorter than wanted. *)
QuarterDown(want) == ((want - FixedCyclesPerBit) * 1000) \div CyclesPerQuarterX1000

Quarter(want) == DivCeil((want - FixedCyclesPerBit) * 1000, CyclesPerQuarterX1000)

(* Mutant of Plan: the fastest bit is refused. *)
PlanStrict(sysclk, hz) ==
    IF hz = 0 THEN Err("Zero")
    ELSE IF WantCycles(sysclk, hz) <= BitCycles(1) THEN Err("TooFast")
    ELSE LET q == Quarter(WantCycles(sysclk, hz))
         IN  Ok([quarter |-> q, achieved |-> (sysclk * 1000) \div BitCycles(q)])

Plan(sysclk, hz) ==
    IF hz = 0 THEN Err("Zero")
    ELSE IF WantCycles(sysclk, hz) < BitCycles(1) THEN Err("TooFast")
    ELSE LET q == Quarter(WantCycles(sysclk, hz))
         IN  Ok([quarter |-> q, achieved |-> (sysclk * 1000) \div BitCycles(q)])

MaxBusRate(sysclk) == sysclk \div BitCycles(1)

=============================================================================
