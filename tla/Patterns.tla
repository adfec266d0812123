--------------------------------- MODULE Patterns ---------------------------------
(***************************************************************************)
(* Synthesis of sample patterns (src/crates/tester-core/src/pattern.rs).   *)
(* A sample is the set of the channels it drives high, a pattern a         *)
(* sequence of samples.                                                    *)
(***************************************************************************)
EXTENDS Timing, Powers, Sequences, FiniteSets

CONSTANTS
    Capacity  \* samples the buffer holds

ASSUME PatternsAssumption == Capacity \in Nat \ {0} /\ Capacity % 2 = 0

Bit(n, i) == (n \div Power(2, i)) % 2
Bits(n, width) == {i \in 0 .. width - 1 : Bit(n, i) = 1}
MaskOfWidth(width) == 0 .. width - 1

(* A pattern that was not built, and what had been written of it by then. *)
Unbuilt(e, written) == [ok |-> FALSE, error |-> e, written |-> written]

(* Writer: each logical sample becomes `repeat` entries, or, where there   *)
(* is no room for all of one, the pattern is refused.  Mutant of Entry:    *)
(* the pattern is repeated, not its samples.                               *)
EntryOfTurn(i, n, repeat) == ((i - 1) % n) + 1

Entry(i, n, repeat) == ((i - 1) \div repeat) + 1

Written(samples, repeat, n) ==
    [i \in 1 .. n * repeat |-> samples[Entry(i, Len(samples), repeat)]]

Write(samples, repeat) ==
    IF Len(samples) * repeat > Capacity
    THEN Unbuilt("TooLong", Written(samples, repeat, Capacity \div repeat))
    ELSE Ok(Written(samples, repeat, Len(samples)))

Copies(sample, n) == [i \in 1 .. n |-> sample]

Pulse(mask, high, period) ==
    IF high = 0 \/ period <= high THEN Unbuilt("BadArgument", <<>>)
    ELSE Write(Copies(mask, high) \o Copies({}, period - high), 1)

(* The idle samples around a burst.  Mutant of Framed: none after it. *)
FramedBefore(samples) == <<{}>> \o samples

Framed(samples) == <<{}>> \o samples \o <<{}>>

Glitch(mask, ticks) ==
    IF ticks = 0 THEN Unbuilt("BadArgument", <<>>) ELSE Write(Framed(Copies(mask, ticks)), 1)

Skew(maskA, maskB, ticks) ==
    IF ticks = 0 THEN Unbuilt("BadArgument", <<>>)
    ELSE Write(Framed(Copies(maskA, ticks) \o Copies(maskA \cup maskB, ticks)), 1)

(* Mutant of GrayCode: shifted the wrong way. *)
ShiftedUp(n, width) == {i \in 0 .. width - 1 : Bit(n, i) # (IF i = 0 THEN 0 ELSE Bit(n, i - 1))}

GrayCode(n, width) == {i \in 0 .. width - 1 : Bit(n, i) # Bit(n, i + 1)}

(* The logical samples of a sweep over the low `width` channels. *)
WalkingOnes(width) == [i \in 1 .. width |-> {i - 1}]
WalkingZeros(width) == [i \in 1 .. width |-> MaskOfWidth(width) \ {i - 1}]
Gray(width) == [n \in 1 .. Power(2, width) |-> GrayCode(n - 1, width)]
Ramp(width) == [n \in 1 .. Power(2, width) |-> Bits(n - 1, width)]

=============================================================================
