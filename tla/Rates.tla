---------------------------------- MODULE Rates ----------------------------------
(***************************************************************************)
(* What the commands (src/src/commands.rs) do with the numbers they are    *)
(* asked for, and what their replies say of time: every command that takes *)
(* a rate or a duration is an action, and its reply is the state.          *)
(***************************************************************************)
EXTENDS I2cTiming

CONSTANTS
    Clocks,    \* system clocks the firmware may be built for
    Asked,     \* the numbers a host asks for
    MaxRepeat  \* PATTERN_CAPACITY / 2

ASSUME RatesAssumption ==
    /\ Asked \subseteq Nat /\ MaxRepeat \in Nat \ {0}
    /\ Clocks \subseteq Nat \ {0}
    /\ \A s \in Clocks : Second >= 2000 * s  \* at most 500 MHz

VARIABLES
    sysclk,  \* SYSCLK_HZ, fixed by the build
    reply    \* the last reply

vars == <<sysclk, reply>>

RateOps == {"play", "toggle", "uart", "spi", "sweep"}
NoReply == [op |-> "none"]

Init == sysclk \in Clocks /\ reply = NoReply

(* A state machine that spends so many cycles on a sample, a wave, a code   *)
(* or a bit: the rate it needs, with the multiplication checked.           *)
Machine(hz, cycles) ==
    IF hz * cycles > MaxU32 THEN Err("TooHigh") ELSE DivisorForRate(sysclk, hz * cycles)

Refuse(op, hz, cycles, error) ==
    [op |-> op, asked |-> hz, cycles |-> cycles, ok |-> FALSE, error |-> error]

(* Mutant of Report: the rate asked for is reported. *)
ReportAsked(d, hz, cycles) == hz * 1000

Report(d, hz, cycles) == RateOf(sysclk, d) \div cycles

RateReply(op, hz, cycles) ==
    LET m == Machine(hz, cycles)
    IN  IF m.ok
        THEN [op |-> op, asked |-> hz, cycles |-> cycles, ok |-> TRUE,
              divisor |-> m.value, actual |-> Report(m.value, hz, cycles)]
        ELSE Refuse(op, hz, cycles, m.error)

CmdPlay == \E hz \in Asked : reply' = RateReply("play", hz, 1) /\ UNCHANGED sysclk
CmdToggle == \E hz \in Asked : reply' = RateReply("toggle", hz, 2) /\ UNCHANGED sysclk
CmdUart == \E hz \in Asked : reply' = RateReply("uart", hz, 8) /\ UNCHANGED sysclk
CmdSpi == \E hz \in Asked : reply' = RateReply("spi", hz, 4) /\ UNCHANGED sysclk

(* plan_rate: below the divider's floor each sample is repeated.  Mutant   *)
(* of Repeat: rounded down.                                                *)
RepeatDown(hz) == IF hz = 0 \/ hz >= MinRate(sysclk) THEN 1 ELSE MinRate(sysclk) \div hz

Repeat(hz) == IF hz = 0 \/ hz >= MinRate(sysclk) THEN 1 ELSE DivCeil(MinRate(sysclk), hz)

CmdSweep ==
    \E hz \in Asked :
        /\ reply' = IF Repeat(hz) > MaxRepeat
                    THEN Refuse("sweep", hz, 1, "TooSlow")
                    ELSE RateReply("sweep", hz, Repeat(hz))
        /\ UNCHANGED sysclk

CmdI2c ==
    \E hz \in Asked :
        LET p == Plan(sysclk, hz)
        IN  /\ reply' = IF p.ok
                        THEN [op |-> "i2c", asked |-> hz, ok |-> TRUE,
                              quarter |-> p.value.quarter, actual |-> p.value.achieved]
                        ELSE [op |-> "i2c", asked |-> hz, ok |-> FALSE, error |-> p.error]
            /\ UNCHANGED sysclk

(* glitch and skew take ticks, pulse nanoseconds; all report picoseconds.  *)
(* The refusals of a pattern too long for the buffer are left out.         *)
WidthReply(op, n, ticks) ==
    [op |-> op, asked |-> n, ticks |-> ticks, ps |-> NsOfTicksPs(sysclk, ticks)]

CmdGlitch ==
    \E n \in Asked : n \in 1 .. MaxU32 /\ reply' = WidthReply("glitch", n, n) /\ UNCHANGED sysclk
CmdPulse ==
    \E ns \in Asked : reply' = WidthReply("pulse", ns, TicksForNs(sysclk, ns)) /\ UNCHANGED sysclk

Next ==
    \/ CmdPlay \/ CmdToggle \/ CmdUart \/ CmdSpi \/ CmdSweep
    \/ CmdI2c \/ CmdGlitch \/ CmdPulse

Spec == Init /\ [][Next]_vars

-----------------------------------------------------------------------------
(* Registers that mean what they say: an integer part of zero would divide *)
(* by 65536 (timing.rs:14-18), and no width is empty.                      *)
TypeOK ==
    /\ sysclk \in Clocks
    /\ reply.op \in RateOps \cup {"none", "i2c", "glitch", "pulse"}
    /\ reply.op \in RateOps /\ reply.ok =>
          reply.divisor \in [int : 1 .. MaxInt, frac : 0 .. Units - 1] /\ reply.actual \in Nat
    /\ reply.op = "i2c" /\ reply.ok => reply.quarter \in Nat \ {0} /\ reply.actual \in Nat
    /\ reply.op \in {"glitch", "pulse"} => reply.ticks \in 1 .. MaxU32 /\ reply.ps \in Nat

AbsDiff(a, b) == IF a <= b THEN b - a ELSE a - b

Rated == reply.op \in RateOps
Rate == reply.asked * reply.cycles

(* No setting of the divider comes closer to the period of the rate asked  *)
(* for than the one chosen, so a sweep of rates has no bias                *)
(* (timing.rs:132-136).                                                    *)
Distance(x) == AbsDiff(x * Rate, sysclk * Units)
NearestDivisor ==
    Rated /\ reply.ok => \A x \in Units .. MaxX256 : Distance(X256(reply.divisor)) <= Distance(x)

(* Above the slowest rate the divider reaches, rates are accepted up to    *)
(* max_accepted_rate_hz and not beyond: the two bounds agree with the      *)
(* rounding (timing.rs:108-124).                                           *)
RangeExact ==
    Rated /\ Rate \in MinRate(sysclk) .. MaxU32 => (reply.ok <=> Rate <= MaxAcceptedRate(sysclk))

(* The rate reported is the one emitted, to the milli-hertz: that of the   *)
(* registers written, through two truncating divisions (timing.rs:9-11).   *)
ReportHonest ==
    Rated /\ reply.ok =>
        LET emitted == sysclk * Units * 1000  \* over cycles * X256(divisor)
            over == reply.cycles * X256(reply.divisor)
        IN  reply.actual * over <= emitted /\ emitted < (reply.actual + 1) * over

(* A sweep slower than the divider's floor is refused only when there are  *)
(* too few samples to repeat, never by the divider (pattern.rs:47-83).     *)
SlowRatesReached ==
    reply.op = "sweep" /\ reply.asked \in 1 .. sysclk /\ 2 * sysclk <= MaxU32 =>
        (reply.ok <=> reply.asked * MaxRepeat >= MinRate(sysclk))

(* The I2C clock overshoots by less than one CPU cycle per bit, and the    *)
(* count is the least of which that is true: the bus is no slower than the *)
(* granularity of the delay makes it (i2c_timing.rs:81-96).                *)
OnTime(quarter) == sysclk < (BitCycles(quarter) + 1) * reply.asked
I2cOnTime ==
    reply.op = "i2c" /\ reply.ok =>
        OnTime(reply.quarter) /\ \A q \in 1 .. reply.quarter - 1 : ~OnTime(q)

(* I2C rates are accepted up to max_rate_hz and not beyond                 *)
(* (i2c_timing.rs:110-113).                                                *)
I2cRangeExact ==
    reply.op = "i2c" /\ reply.asked > 0 => (reply.ok <=> reply.asked <= MaxBusRate(sysclk))

(* A width as a reply states it, cut to whole nanoseconds and asked for    *)
(* again, gives the same number of ticks (timing.rs:167-181).              *)
WidthsRoundTrip ==
    reply.op \in {"glitch", "pulse"} => TicksForNs(sysclk, reply.ps \div 1000) = reply.ticks

(* The ticks of a pulse are those closest to the duration asked for, for   *)
(* durations of more than a tick (timing.rs:167).                          *)
TicksClosest ==
    reply.op = "pulse" /\ reply.ticks > 1 =>
        2 * AbsDiff(reply.ticks * Second, reply.asked * 1000 * sysclk) <= Second

(* The I2C bus is never driven faster than asked (i2c_timing.rs:81-83).    *)
NeverOvershoots == reply.op = "i2c" /\ reply.ok => reply.actual <= reply.asked * 1000

=============================================================================
