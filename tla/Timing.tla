--------------------------------- MODULE Timing ---------------------------------
(***************************************************************************)
(* The clock arithmetic of src/crates/tester-core/src/timing.rs: the PIO   *)
(* divider and the length of a system clock tick.  All of it is unsigned   *)
(* 64-bit arithmetic that never comes near its width; what a definition    *)
(* truncates, rounds or saturates is kept.  A rate is in hertz, a divisor  *)
(* in the steps the hardware encodes.                                      *)
(***************************************************************************)
EXTENDS Integers

CONSTANTS
    Units,   \* fractional steps of a divider of one (256)
    MaxInt,  \* the largest integer part (65535)
    Second,  \* picoseconds in a second
    MaxU32   \* u32::MAX

ASSUME TimingAssumption ==
    /\ Units \in Nat \ {0} /\ MaxInt \in Nat /\ MaxInt >= 2
    /\ Second \in Nat \ {0} /\ MaxU32 \in Nat \ {0}

MaxX256 == MaxInt * Units + Units - 1

Ok(v) == [ok |-> TRUE, value |-> v]
Err(e) == [ok |-> FALSE, error |-> e]

DivCeil(a, b) == (a + b - 1) \div b

(* Divisor::from_x256 and Divisor::x256. *)
FromX256(x) == [int |-> (x \div Units) % (MaxInt + 1), frac |-> x % Units]
X256(d) == d.int * Units + d.frac

(* Mutant of Rounded: truncated, which biases every rate upwards. *)
RoundedDown(sysclk, rate) == (sysclk * Units) \div rate

Rounded(sysclk, rate) == (sysclk * Units + rate \div 2) \div rate

(* Mutant of DivisorForRate: the range is checked before rounding. *)
DivisorForRateChecked(sysclk, rate) ==
    IF rate = 0 THEN Err("Zero")
    ELSE IF rate > sysclk THEN Err("TooFast")
    ELSE IF Rounded(sysclk, rate) > MaxX256 THEN Err("TooSlow")
    ELSE Ok(FromX256(Rounded(sysclk, rate)))

DivisorForRate(sysclk, rate) ==
    IF rate = 0 THEN Err("Zero")
    ELSE IF Rounded(sysclk, rate) < Units THEN Err("TooFast")
    ELSE IF Rounded(sysclk, rate) > MaxX256 THEN Err("TooSlow")
    ELSE Ok(FromX256(Rounded(sysclk, rate)))

(* Milli-hertz. *)
RateOf(sysclk, d) == (sysclk * Units * 1000) \div X256(d)

(* 512 * sysclk / 511. *)
MaxAcceptedRate(sysclk) == (sysclk * 2 * Units) \div (2 * Units - 1)

MinRate(sysclk) == DivCeil(sysclk * Units, MaxX256)

TickPs(sysclk) == Second \div sysclk

(* Mutant of AtLeastOne: a short pulse is rounded away. *)
RoundedAway(n) == n

AtLeastOne(n) == IF n < 1 THEN 1 ELSE n
Saturate(n) == IF n > MaxU32 THEN MaxU32 ELSE n

(* Mutant of TicksForNs: not rounded to the nearest tick. *)
TicksForNsDown(sysclk, ns) == Saturate(AtLeastOne((ns * 1000) \div TickPs(sysclk)))

TicksForNs(sysclk, ns) ==
    Saturate(AtLeastOne((ns * 1000 + TickPs(sysclk) \div 2) \div TickPs(sysclk)))

NsOfTicksPs(sysclk, ticks) == ticks * TickPs(sysclk)

=============================================================================
