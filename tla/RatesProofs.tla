------------------------------- MODULE RatesProofs -------------------------------
(***************************************************************************)
(* Theorems about the replies of Rates, for every clock, divider format,   *)
(* I2C model and number asked for.                                         *)
(*                                                                         *)
(* A reply depends on the clock and the number asked for alone, so there   *)
(* is no invariant to find: each property follows from the arithmetic of   *)
(* the command that made the reply.  The lemmas are that arithmetic; they  *)
(* rest on what \div means for a divisor that is not a literal.            *)
(***************************************************************************)
EXTENDS Rates, TLAPS

-----------------------------------------------------------------------------
(* Division.                                                               *)

(* The quotient and what is left over. *)
LEMMA DivBounds ==
    ASSUME NEW a \in Nat, NEW b \in Nat \ {0}
    PROVE  (a \div b) \in Nat /\ (a \div b) * b <= a /\ a < (a \div b) * b + b
    OBVIOUS

(* A quotient is the largest number whose product does not exceed. *)
LEMMA DivAtLeast ==
    ASSUME NEW a \in Nat, NEW b \in Nat \ {0}, NEW q \in Nat
    PROVE  q <= a \div b <=> q * b <= a
<1> DEFINE d == a \div b
<1>1. d \in Nat /\ d * b <= a /\ a < d * b + b
    BY DivBounds
<1> HIDE DEF d
<1>2. ASSUME q <= d PROVE q * b <= a
    <2>1. q * b <= d * b
        BY <1>1, <1>2
    <2> QED
        BY <1>1, <2>1
<1>3. ASSUME q > d PROVE q * b > a
    <2>1. q * b >= (d + 1) * b
        BY <1>1, <1>3
    <2>2. (d + 1) * b = d * b + b
        BY <1>1
    <2> QED
        BY <1>1, <2>1, <2>2
<1> QED
    BY <1>1, <1>2, <1>3 DEF d

(* A quotient rounded up is the least number whose product reaches. *)
LEMMA CeilAtMost ==
    ASSUME NEW a \in Nat, NEW b \in Nat \ {0}, NEW q \in Nat
    PROVE  DivCeil(a, b) \in Nat /\ (DivCeil(a, b) <= q <=> a <= q * b)
<1>1. a + b - 1 \in Nat /\ q + 1 \in Nat
    OBVIOUS
<1>2. DivCeil(a, b) \in Nat
    BY <1>1, DivBounds DEF DivCeil
<1>3. q + 1 <= DivCeil(a, b) <=> (q + 1) * b <= a + b - 1
    BY <1>1, DivAtLeast DEF DivCeil
<1>4. (q + 1) * b = q * b + b
    OBVIOUS
<1>5. q * b \in Nat
    OBVIOUS
<1> QED
    BY <1>2, <1>3, <1>4, <1>5

-----------------------------------------------------------------------------
(* The divider.                                                            *)

(* The largest setting is a number, and at least two whole cycles. *)
LEMMA Settings == MaxX256 \in Nat \ {0} /\ Units \in Nat \ {0} /\ 2 * Units <= MaxX256
<1>1. MaxInt * Units >= 2 * Units
    BY TimingAssumption
<1>2. MaxInt * Units \in Nat
    BY TimingAssumption
<1> QED
    BY <1>1, <1>2, TimingAssumption DEF MaxX256

(* A setting survives being split into registers, and they encode it. *)
LEMMA Registers ==
    ASSUME NEW x \in Units .. MaxX256
    PROVE  /\ X256(FromX256(x)) = x
           /\ FromX256(x) \in [int : 1 .. MaxInt, frac : 0 .. Units - 1]
<1> DEFINE i == x \div Units
<1>1. x \in Nat /\ Units \in Nat \ {0} /\ MaxInt \in Nat
    BY Settings, TimingAssumption
<1>2. i \in Nat /\ i * Units <= x /\ x < i * Units + Units
    BY <1>1, DivBounds
<1>3. 1 <= i
    <2>1. 1 * Units = Units
        BY <1>1
    <2> QED
        BY <1>1, <2>1, DivAtLeast
<1>4. ~(MaxInt + 1 <= i)
    <2>1. MaxInt + 1 \in Nat /\ (MaxInt + 1) * Units = MaxInt * Units + Units
        BY <1>1
    <2>2. MaxInt * Units \in Nat
        BY <1>1
    <2> QED
        BY <1>1, <2>1, <2>2, DivAtLeast DEF MaxX256
<1>5. x % Units = x - i * Units
    BY <1>1
<1> HIDE DEF i
<1>6. i % (MaxInt + 1) = i
    BY <1>1, <1>2, <1>4
<1>7. FromX256(x) = [int |-> i, frac |-> x - i * Units]
    BY <1>5, <1>6 DEF FromX256, i
<1>8. i * Units \in Nat
    BY <1>1, <1>2
<1> QED
    BY <1>1, <1>2, <1>3, <1>4, <1>7, <1>8 DEF X256

(* Rounding, and the two comparisons made with its result. *)
LEMMA Rounding ==
    ASSUME NEW s \in Nat \ {0}, NEW r \in Nat \ {0}
    PROVE  /\ Rounded(s, r) \in Nat
           /\ Rounded(s, r) * r <= s * Units + r \div 2
           /\ s * Units + r \div 2 < Rounded(s, r) * r + r
           /\ \A q \in Nat : q <= Rounded(s, r) <=> q * r <= s * Units + r \div 2
<1>1. s * Units + r \div 2 \in Nat
    BY Settings
<1> QED
    BY <1>1, DivBounds, DivAtLeast DEF Rounded

(* From the slowest rate up, the setting fits the registers. *)
LEMMA NotTooSlow ==
    ASSUME NEW s \in Nat \ {0}, NEW r \in Nat, r >= MinRate(s)
    PROVE  r > 0 /\ Rounded(s, r) <= MaxX256
<1>1. s * Units \in Nat \ {0}
    BY Settings
<1>2. s * Units <= r * MaxX256
    BY <1>1, CeilAtMost, Settings DEF MinRate
<1>3. r > 0
    BY <1>1, <1>2, Settings
<1>4. (MaxX256 + 1) * r = r * MaxX256 + r
    BY Settings
<1>5. ~((MaxX256 + 1) * r <= s * Units + r \div 2)
    <2>1. r * MaxX256 \in Nat
        BY Settings
    <2> QED
        BY <1>1, <1>2, <1>3, <1>4, <2>1
<1>6. r \in Nat \ {0} /\ MaxX256 + 1 \in Nat
    BY <1>3, Settings
<1>7. Rounded(s, r) \in Nat /\ ~(MaxX256 + 1 <= Rounded(s, r))
    BY <1>5, <1>6, Rounding
<1> QED
    BY <1>3, <1>7, Settings

(* Up to max_accepted_rate_hz, and no further, the setting is a whole      *)
(* cycle or more: where the doubled bound is hit, parity decides.          *)
LEMMA NotTooFast ==
    ASSUME NEW s \in Nat \ {0}, NEW r \in Nat \ {0}
    PROVE  Units <= Rounded(s, r) <=> r <= MaxAcceptedRate(s)
<1> DEFINE N == s * Units
           P == Units * r
<1>1. N \in Nat /\ P \in Nat
    BY Settings
<1>2. Units <= Rounded(s, r) <=> P <= N + r \div 2
    BY Rounding, Settings
<1>3. r <= MaxAcceptedRate(s) <=> 2 * P - r <= 2 * N
    <2>1. s * 2 * Units = 2 * N
        BY Settings
    <2>2. 2 * Units - 1 \in Nat \ {0} /\ 2 * N \in Nat
        BY Settings, <1>1
    <2>3. r * (2 * Units - 1) = 2 * P - r
        BY Settings
    <2> HIDE DEF N, P
    <2> QED
        BY <2>1, <2>2, <2>3, DivAtLeast DEF MaxAcceptedRate
<1> HIDE DEF N, P
<1> QED
    BY <1>1, <1>2, <1>3

(* Every rate between the slowest one and the clock is accepted. *)
LEMMA AcceptedUpToClock ==
    ASSUME NEW s \in Nat \ {0}, NEW r \in Nat, r >= MinRate(s), r <= s
    PROVE  DivisorForRate(s, r).ok
<1>1. r > 0 /\ Rounded(s, r) <= MaxX256
    BY NotTooSlow
<1>2. Units * r <= s * Units
    BY Settings
<1>3. Units * r <= s * Units + r \div 2
    <2>1. Units * r \in Nat /\ s * Units \in Nat
        BY Settings
    <2> QED
        BY <1>1, <1>2, <2>1
<1>4. r \in Nat \ {0} /\ Units \in Nat
    BY <1>1, Settings
<1>5. Rounded(s, r) \in Nat /\ Units <= Rounded(s, r)
    BY <1>3, <1>4, Rounding
<1> QED
    BY <1>1, <1>4, <1>5, Settings DEF DivisorForRate, Ok

(* What an accepted rate gets: the setting it rounds to. *)
LEMMA AcceptedSetting ==
    ASSUME NEW s \in Nat \ {0}, NEW r \in Nat, DivisorForRate(s, r).ok
    PROVE  /\ r > 0 /\ Rounded(s, r) \in Units .. MaxX256
           /\ DivisorForRate(s, r).value = FromX256(Rounded(s, r))
<1>1. r \in Nat \ {0}
    BY DEF DivisorForRate, Err
<1>2. Rounded(s, r) \in Nat
    BY <1>1, Rounding
<1> QED
    BY <1>1, <1>2, Settings DEF DivisorForRate, Err, Ok

(* The setting a rate rounds to is no further off than any other. *)
LEMMA RoundingNearest ==
    ASSUME NEW s \in Nat \ {0}, NEW r \in Nat \ {0}, NEW y \in Nat
    PROVE  AbsDiff(Rounded(s, r) * r, s * Units) <= AbsDiff(y * r, s * Units)
<1> DEFINE x == Rounded(s, r)
           N == s * Units
<1>1. x \in Nat /\ N \in Nat /\ x * r \in Nat /\ y * r \in Nat
    BY Rounding, Settings
<1>2. x * r <= N + r \div 2 /\ N + r \div 2 < x * r + r
    BY Rounding
<1>3. y < x => y * r + r <= x * r
    <2>1. ASSUME y + 1 <= x PROVE (y + 1) * r <= x * r
        BY <1>1, <2>1
    <2>2. (y + 1) * r = y * r + r
        OBVIOUS
    <2> QED
        BY <1>1, <2>1, <2>2
<1>4. x < y => x * r + r <= y * r
    <2>1. ASSUME x + 1 <= y PROVE (x + 1) * r <= y * r
        BY <1>1, <2>1
    <2>2. (x + 1) * r = x * r + r
        BY <1>1
    <2> QED
        BY <1>1, <2>1, <2>2
<1>5. x = y => x * r = y * r
    OBVIOUS
<1> HIDE DEF x, N
<1>6. x < y \/ y < x \/ x = y
    BY <1>1
<1>7. AbsDiff(x * r, N) <= AbsDiff(y * r, N)
    BY <1>1, <1>2, <1>3, <1>4, <1>5, <1>6 DEF AbsDiff
<1> QED
    BY <1>7 DEF x, N

-----------------------------------------------------------------------------
(* The I2C bit.                                                            *)

(* A bit lasts at least c cycles beyond the fixed ones when its calls do. *)
LEMMA BitLength ==
    ASSUME NEW q \in Nat
    PROVE  /\ CyclesPerQuarterX1000 * q \in Nat
           /\ BitCycles(q) \in Nat /\ BitCycles(q) >= FixedCyclesPerBit
           /\ \A c \in Nat : FixedCyclesPerBit + c <= BitCycles(q) <=>
                                 c * 1000 <= CyclesPerQuarterX1000 * q
<1>1. CyclesPerQuarterX1000 * q \in Nat
    BY I2cTimingAssumption
<1>2. (CyclesPerQuarterX1000 * q) \div 1000 \in Nat
    BY <1>1
<1>3. \A c \in Nat : c <= (CyclesPerQuarterX1000 * q) \div 1000 <=> c * 1000 <= CyclesPerQuarterX1000 * q
    BY <1>1, DivAtLeast
<1> QED
    BY <1>1, <1>2, <1>3, I2cTimingAssumption DEF BitCycles

(* The bit of least delay takes a cycle beyond the fixed ones. *)
LEMMA ShortestBit == BitCycles(1) \in Nat /\ BitCycles(1) >= FixedCyclesPerBit + 1
    BY BitLength, I2cTimingAssumption

(* The quarter planned for a bit is the least that makes it long enough. *)
LEMMA QuarterLeast ==
    ASSUME NEW w \in Nat, w >= BitCycles(1)
    PROVE  /\ Quarter(w) \in Nat \ {0}
           /\ BitCycles(Quarter(w)) >= w
           /\ \A k \in 1 .. Quarter(w) - 1 : BitCycles(k) < w
<1> DEFINE c == w - FixedCyclesPerBit
           q == Quarter(w)
<1>1. c \in Nat \ {0} /\ FixedCyclesPerBit + c = w
    BY ShortestBit, I2cTimingAssumption
<1>2. q \in Nat /\ \A k \in Nat : q <= k <=> c * 1000 <= k * CyclesPerQuarterX1000
    <2>1. c * 1000 \in Nat /\ CyclesPerQuarterX1000 \in Nat \ {0}
        BY <1>1, I2cTimingAssumption
    <2> HIDE DEF c
    <2>2. q = DivCeil(c * 1000, CyclesPerQuarterX1000)
        BY DEF Quarter, c
    <2> QED
        BY <2>1, <2>2, CeilAtMost
<1> HIDE DEF c, q
<1>3. q # 0
    <2>1. 0 * CyclesPerQuarterX1000 = 0
        BY I2cTimingAssumption
    <2> QED
        BY <1>1, <1>2, <2>1
<1>4. \A k \in Nat : k * CyclesPerQuarterX1000 = CyclesPerQuarterX1000 * k
    BY I2cTimingAssumption
<1>5. BitCycles(q) >= w
    BY <1>1, <1>2, <1>4, BitLength
<1>6. ASSUME NEW k \in 1 .. q - 1 PROVE BitCycles(k) < w
    <2>1. k \in Nat /\ ~(q <= k)
        BY <1>2
    <2>2. ~(c * 1000 <= CyclesPerQuarterX1000 * k)
        BY <1>2, <1>4, <2>1
    <2> QED
        BY <1>1, <2>1, <2>2, BitLength
<1> QED
    BY <1>2, <1>3, <1>5, <1>6 DEF q

-----------------------------------------------------------------------------
(* Widths.                                                                 *)

(* A tick is at least two nanoseconds at the clocks considered. *)
LEMMA TickLength ==
    ASSUME NEW s \in Clocks
    PROVE  s \in Nat \ {0} /\ TickPs(s) \in Nat /\ TickPs(s) >= 2000
<1>1. s \in Nat \ {0} /\ Second \in Nat /\ 2000 * s <= Second
    BY RatesAssumption, TimingAssumption
<1>2. Second \div s \in Nat
    BY <1>1, DivBounds
<1>3. 2000 <= Second \div s
    BY <1>1, DivAtLeast
<1> QED
    BY <1>1, <1>2, <1>3 DEF TickPs

(* Ticks are never zero and never wrap. *)
LEMMA TicksInRange ==
    ASSUME NEW s \in Clocks, NEW ns \in Nat
    PROVE  TicksForNs(s, ns) \in 1 .. MaxU32
<1>1. TickPs(s) \in Nat \ {0}
    BY TickLength
<1>2. ns * 1000 + TickPs(s) \div 2 \in Nat
    BY <1>1
<1>3. (ns * 1000 + TickPs(s) \div 2) \div TickPs(s) \in Nat
    BY <1>1, <1>2, DivBounds
<1> QED
    BY <1>3, TimingAssumption DEF TicksForNs, Saturate, AtLeastOne

(* Cutting a width to whole nanoseconds loses less than half a tick. *)
LEMMA TicksRoundTrip ==
    ASSUME NEW s \in Clocks, NEW t \in 1 .. MaxU32
    PROVE  TicksForNs(s, NsOfTicksPs(s, t) \div 1000) = t
<1> DEFINE T == TickPs(s)
           ps == t * T
           n == (ps \div 1000) * 1000 + T \div 2
<1>1. T \in Nat \ {0} /\ T >= 2000 /\ t \in Nat \ {0} /\ t <= MaxU32
    BY TickLength, TimingAssumption
<1>2. ps \in Nat
    BY <1>1
<1>3. n \in Nat /\ t * T <= n /\ n < t * T + T
    <2> HIDE DEF T
    <2>1. (ps \div 1000) * 1000 <= ps /\ ps < (ps \div 1000) * 1000 + 1000
        BY <1>2
    <2> QED
        BY <1>1, <1>2, <2>1
<1>4. n \div T = t
    <2> HIDE DEF T, n
    <2>1. n \div T \in Nat /\ t <= n \div T
        BY <1>1, <1>3, DivBounds, DivAtLeast
    <2>2. ~(t + 1 <= n \div T)
        <3>1. (t + 1) * T = t * T + T /\ t + 1 \in Nat
            BY <1>1
        <3> QED
            BY <1>1, <1>3, <3>1, DivAtLeast
    <2> QED
        BY <1>1, <2>1, <2>2
<1>5. TicksForNs(s, NsOfTicksPs(s, t) \div 1000) = Saturate(AtLeastOne(n \div T))
    BY DEF TicksForNs, NsOfTicksPs
<1> HIDE DEF n, T
<1> QED
    BY <1>1, <1>4, <1>5, TimingAssumption DEF Saturate, AtLeastOne

-----------------------------------------------------------------------------
(* Replies.                                                                *)

(* A reply to a command that takes a rate: the accepted setting, and the   *)
(* rate computed back from its registers; or a refusal.                    *)
LEMMA RateReplies ==
    ASSUME sysclk \in Clocks, NEW op \in RateOps, NEW hz \in Nat, NEW cycles \in Nat \ {0}
    PROVE  LET a == RateReply(op, hz, cycles)
               x == Rounded(sysclk, hz * cycles)
           IN  /\ a.op = op /\ a.asked = hz /\ a.cycles = cycles
               /\ hz * cycles \in Nat
               /\ a.ok \in BOOLEAN
               /\ a.ok <=> hz * cycles <= MaxU32 /\ DivisorForRate(sysclk, hz * cycles).ok
               /\ a.ok => /\ hz * cycles > 0 /\ x \in Units .. MaxX256
                          /\ a.divisor = FromX256(x)
                          /\ a.actual = ((sysclk * Units * 1000) \div x) \div cycles
<1> DEFINE m == Machine(hz, cycles)
           r == hz * cycles
<1>1. r \in Nat /\ sysclk \in Nat \ {0} /\ MaxU32 \in Nat
    BY RatesAssumption, TimingAssumption
<1>2. m.ok \in BOOLEAN /\ (m.ok <=> r <= MaxU32 /\ DivisorForRate(sysclk, r).ok)
    BY <1>1 DEF Machine, DivisorForRate, Ok, Err
<1>3. m.ok => m.value = DivisorForRate(sysclk, r).value
    BY <1>1 DEF Machine, Err
<1>4. ASSUME m.ok
      PROVE  /\ r > 0 /\ Rounded(sysclk, r) \in Units .. MaxX256
             /\ m.value = FromX256(Rounded(sysclk, r))
    BY <1>1, <1>2, <1>3, <1>4, AcceptedSetting
<1>5. ASSUME m.ok
      PROVE  Report(m.value, hz, cycles) = ((sysclk * Units * 1000) \div Rounded(sysclk, r)) \div cycles
    BY <1>4, <1>5, Registers DEF Report, RateOf
<1> HIDE DEF m, r
<1>6. RateReply(op, hz, cycles) =
          IF m.ok
          THEN [op |-> op, asked |-> hz, cycles |-> cycles, ok |-> TRUE,
                divisor |-> m.value, actual |-> Report(m.value, hz, cycles)]
          ELSE [op |-> op, asked |-> hz, cycles |-> cycles, ok |-> FALSE, error |-> m.error]
    BY DEF RateReply, Refuse, m
<1>7. CASE m.ok
    <2>1. RateReply(op, hz, cycles) =
              [op |-> op, asked |-> hz, cycles |-> cycles, ok |-> TRUE,
               divisor |-> m.value, actual |-> Report(m.value, hz, cycles)]
        BY <1>6, <1>7
    <2> QED
        BY <1>1, <1>2, <1>4, <1>5, <1>7, <2>1 DEF r
<1>8. CASE ~m.ok
    <2>1. RateReply(op, hz, cycles) =
              [op |-> op, asked |-> hz, cycles |-> cycles, ok |-> FALSE, error |-> m.error]
        BY <1>6, <1>8
    <2> QED
        BY <1>1, <1>2, <1>8, <2>1 DEF r
<1> QED
    BY <1>7, <1>8

(* Repeating samples brings a slow rate within the divider's reach, and    *)
(* not beyond the clock.                                                   *)
LEMMA Repeats ==
    ASSUME sysclk \in Clocks, NEW hz \in Nat
    PROVE  /\ Repeat(hz) \in Nat \ {0}
           /\ hz > 0 => (Repeat(hz) <= MaxRepeat <=> hz * MaxRepeat >= MinRate(sysclk))
           /\ hz \in 1 .. sysclk => hz * Repeat(hz) \in MinRate(sysclk) .. sysclk
           /\ Repeat(hz) # 1 => hz < MinRate(sysclk)
<1> DEFINE m == MinRate(sysclk)
           N == sysclk * Units
<1>1. N \in Nat \ {0} /\ sysclk \in Nat \ {0} /\ MaxRepeat \in Nat \ {0} /\ MaxX256 \in Nat \ {0}
    BY Settings, RatesAssumption
<1>2. m \in Nat /\ \A q \in Nat : m <= q <=> N <= q * MaxX256
    <2> HIDE DEF N
    <2>1. m = DivCeil(N, MaxX256)
        BY DEF MinRate, N
    <2> QED
        BY <1>1, <2>1, CeilAtMost
<1>3. 1 <= m
    <2>1. 0 * MaxX256 = 0
        BY <1>1
    <2> QED
        BY <1>1, <1>2, <2>1
<1>4. 2 * (m - 1) < sysclk
    <2>1. m - 1 \in Nat /\ ~(m <= m - 1)
        BY <1>2, <1>3
    <2>2. (m - 1) * MaxX256 < N
        BY <1>1, <1>2, <2>1
    <2>3. (m - 1) * (2 * Units) <= (m - 1) * MaxX256
        BY <2>1, Settings
    <2>4. (m - 1) * (2 * Units) = (2 * (m - 1)) * Units
        BY <2>1, Settings
    <2>5. (2 * (m - 1)) * Units < sysclk * Units
        BY <1>1, <2>1, <2>2, <2>3, <2>4, Settings
    <2>6. ASSUME sysclk <= 2 * (m - 1) PROVE sysclk * Units <= (2 * (m - 1)) * Units
        BY <1>1, <2>1, <2>6, Settings
    <2> QED
        BY <1>1, <2>1, <2>5, <2>6, Settings
<1> HIDE DEF N, m
<1>5. CASE hz = 0 \/ hz >= m
    <2>1. Repeat(hz) = 1
        BY <1>5 DEF Repeat, m
    <2>2. hz <= hz * MaxRepeat /\ hz * 1 = hz
        BY <1>1
    <2> QED
        BY <1>1, <1>2, <1>5, <2>1, <2>2 DEF m
<1>6. CASE hz # 0 /\ hz < m
    <2> DEFINE k == DivCeil(m, hz)
    <2>1. Repeat(hz) = k
        BY <1>2, <1>6 DEF Repeat, m
    <2>2. hz \in Nat \ {0} /\ k \in Nat /\ \A q \in Nat : k <= q <=> m <= q * hz
        BY <1>2, <1>6, CeilAtMost
    <2> HIDE DEF k
    <2>3. k # 0
        <3>1. 0 * hz = 0
            OBVIOUS
        <3> QED
            BY <1>2, <1>3, <2>2, <3>1
    <2>4. m <= k * hz
        BY <2>2
    <2>5. (k - 1) * hz < m
        <3>1. k - 1 \in Nat /\ ~(k <= k - 1)
            BY <2>2, <2>3
        <3> QED
            BY <1>2, <2>2, <3>1
    <2>6. k * hz = (k - 1) * hz + hz /\ (k - 1) * hz \in Int
        BY <2>2
    <2>7. k * hz <= sysclk
        BY <1>1, <1>2, <1>4, <1>6, <2>2, <2>5, <2>6
    <2>8. k * hz = hz * k /\ MaxRepeat * hz = hz * MaxRepeat
        BY <1>1, <2>2
    <2> QED
        BY <1>1, <1>2, <1>6, <2>1, <2>2, <2>3, <2>4, <2>7, <2>8 DEF m
<1> QED
    BY <1>2, <1>5, <1>6

(* What a command may answer. *)
LEMMA CommandReplies ==
    ASSUME sysclk \in Clocks, Next
    PROVE  /\ sysclk' = sysclk
           /\ \/ \E op \in RateOps, hz \in Nat, cycles \in Nat \ {0} :
                    /\ reply' = RateReply(op, hz, cycles)
                    /\ op = "sweep" => cycles = Repeat(hz) /\ cycles <= MaxRepeat
              \/ \E hz \in Nat :
                    Repeat(hz) > MaxRepeat /\ reply' = Refuse("sweep", hz, 1, "TooSlow")
              \/ CmdI2c
              \/ \E op \in {"glitch", "pulse"}, n \in Nat, t \in 1 .. MaxU32 :
                    reply' = WidthReply(op, n, t)
<1>1. Asked \subseteq Nat /\ MaxRepeat \in Nat
    BY RatesAssumption
<1>2. CASE CmdPlay
    BY <1>1, <1>2 DEF CmdPlay, RateOps
<1>3. CASE CmdToggle
    BY <1>1, <1>3 DEF CmdToggle, RateOps
<1>4. CASE CmdUart
    BY <1>1, <1>4 DEF CmdUart, RateOps
<1>5. CASE CmdSpi
    BY <1>1, <1>5 DEF CmdSpi, RateOps
<1>6. CASE CmdSweep
    <2>1. PICK hz \in Asked :
              /\ reply' = IF Repeat(hz) > MaxRepeat THEN Refuse("sweep", hz, 1, "TooSlow")
                          ELSE RateReply("sweep", hz, Repeat(hz))
              /\ UNCHANGED sysclk
        BY <1>6 DEF CmdSweep
    <2>2. hz \in Nat /\ Repeat(hz) \in Nat \ {0}
        BY <1>1, Repeats
    <2>3. CASE Repeat(hz) > MaxRepeat
        BY <2>1, <2>2, <2>3
    <2>4. CASE ~(Repeat(hz) > MaxRepeat)
        <3>1. Repeat(hz) <= MaxRepeat /\ "sweep" \in RateOps
            BY <1>1, <2>2, <2>4 DEF RateOps
        <3> QED
            BY <2>1, <2>2, <2>4, <3>1
    <2> QED
        BY <2>3, <2>4
<1>7. CASE CmdI2c
    BY <1>7 DEF CmdI2c
<1>8. CASE CmdGlitch
    BY <1>1, <1>8 DEF CmdGlitch
<1>9. CASE CmdPulse
    BY <1>1, <1>9, TicksInRange DEF CmdPulse
<1> QED
    BY <1>2, <1>3, <1>4, <1>5, <1>6, <1>7, <1>8, <1>9 DEF Next

-----------------------------------------------------------------------------
(* Every reply meets every property.                                       *)

Right ==
    /\ TypeOK /\ NearestDivisor /\ RangeExact /\ ReportHonest
    /\ SlowRatesReached /\ I2cOnTime /\ I2cRangeExact /\ WidthsRoundTrip

(* A reply to a command that takes a rate is right. *)
LEMMA RateReplyRight ==
    ASSUME sysclk \in Clocks, sysclk' = sysclk,
           NEW op \in RateOps, NEW hz \in Nat, NEW cycles \in Nat \ {0},
           reply' = RateReply(op, hz, cycles),
           op = "sweep" => cycles = Repeat(hz) /\ cycles <= MaxRepeat
    PROVE  Right'
<1> DEFINE r == hz * cycles
           x == Rounded(sysclk, r)
           E == sysclk * Units * 1000
<1>1. /\ reply'.op = op /\ reply'.asked = hz /\ reply'.cycles = cycles
      /\ reply'.ok <=> r <= MaxU32 /\ DivisorForRate(sysclk, r).ok
      /\ reply'.ok => /\ r > 0 /\ x \in Units .. MaxX256
                     /\ reply'.divisor = FromX256(x)
                     /\ reply'.actual = (E \div x) \div cycles
    BY RateReplies
<1>2. r \in Nat /\ sysclk \in Nat \ {0} /\ MaxU32 \in Nat \ {0} /\ E \in Nat /\ MaxRepeat \in Nat
    BY RatesAssumption, TimingAssumption
<1>3. op \notin {"none", "i2c", "glitch", "pulse"}
    BY DEF RateOps
<1>4. reply'.ok => X256(reply'.divisor) = x
    BY <1>1, Registers
<1>5. reply'.ok => x \in Nat \ {0} /\ E \div x \in Nat /\ (E \div x) \div cycles \in Nat
    <2> HIDE DEF E, x, r
    <2>1. reply'.ok => x \in Nat \ {0}
        BY <1>1, Settings
    <2> QED
        BY <1>2, <2>1, DivBounds
<1> HIDE DEF E, x, r
<1>6. TypeOK'
    BY <1>1, <1>3, <1>5, Registers DEF TypeOK
<1>7. NearestDivisor'
    <2>1. SUFFICES ASSUME reply'.ok, NEW y \in Units .. MaxX256
                   PROVE  AbsDiff(x * r, sysclk * Units) <= AbsDiff(y * r, sysclk * Units)
        BY <1>1, <1>4 DEF NearestDivisor, Rated, Distance, Rate, r
    <2>2. r \in Nat \ {0} /\ y \in Nat
        BY <1>1, <1>2, <2>1, Settings
    <2> QED
        BY <1>2, <2>2, RoundingNearest DEF x
<1>8. RangeExact'
    <2>1. SUFFICES ASSUME r \in MinRate(sysclk) .. MaxU32
                   PROVE  reply'.ok <=> r <= MaxAcceptedRate(sysclk)
        BY <1>1 DEF RangeExact, Rated, Rate, r
    <2>2. MinRate(sysclk) \in Nat
        BY <1>2, CeilAtMost, Settings DEF MinRate
    <2>3. r > 0 /\ x <= MaxX256
        BY <1>2, <2>1, <2>2, NotTooSlow DEF x
    <2>4. Units <= x <=> r <= MaxAcceptedRate(sysclk)
        BY <1>2, <2>3, NotTooFast DEF x
    <2>5. x \in Nat
        BY <1>2, <2>3, Rounding DEF x
    <2>6. DivisorForRate(sysclk, r).ok <=> Units <= x
        BY <1>2, <2>3, <2>5, Settings DEF DivisorForRate, Ok, Err, x
    <2> QED
        BY <1>1, <1>2, <2>1, <2>4, <2>6
<1>9. ReportHonest'
    <2>1. SUFFICES ASSUME reply'.ok
                   PROVE  /\ reply'.actual * (cycles * x) <= E
                          /\ E < (reply'.actual + 1) * (cycles * x)
        BY <1>1, <1>4 DEF ReportHonest, Rated, E
    <2> DEFINE p == E \div x
               a == p \div cycles
    <2>2. reply'.actual = a /\ p \in Nat /\ a \in Nat /\ x \in Nat \ {0}
        BY <1>1, <1>5, <2>1
    <2>3. p * x <= E /\ E < p * x + x
        BY <1>2, <2>2, DivBounds
    <2>4. a * cycles <= p /\ p < a * cycles + cycles
        BY <2>2, DivBounds
    <2> HIDE DEF p, a
    <2>5. (a * cycles) * x <= p * x
        BY <2>2, <2>4
    <2>6. (p + 1) * x <= (a * cycles + cycles) * x
        BY <2>2, <2>4
    <2>7. /\ a * (cycles * x) = (a * cycles) * x
          /\ (a + 1) * (cycles * x) = (a * cycles + cycles) * x
          /\ (p + 1) * x = p * x + x
        BY <2>2
    <2>8. p * x \in Nat /\ (a * cycles) * x \in Nat /\ (a * cycles + cycles) * x \in Nat
        BY <2>2
    <2> QED
        BY <1>2, <2>2, <2>3, <2>5, <2>6, <2>7, <2>8
<1>10. SlowRatesReached'
    <2>1. SUFFICES ASSUME op = "sweep", hz \in 1 .. sysclk, 2 * sysclk <= MaxU32
                   PROVE  reply'.ok <=> hz * MaxRepeat >= MinRate(sysclk)
        BY <1>1 DEF SlowRatesReached
    <2>2. cycles = Repeat(hz) /\ hz * MaxRepeat >= MinRate(sysclk)
        BY <2>1, Repeats
    <2>3. r \in MinRate(sysclk) .. sysclk
        BY <2>1, <2>2, Repeats DEF r
    <2>4. DivisorForRate(sysclk, r).ok
        BY <1>2, <2>3, AcceptedUpToClock
    <2> QED
        BY <1>1, <1>2, <2>1, <2>2, <2>3, <2>4
<1>11. I2cOnTime' /\ I2cRangeExact' /\ WidthsRoundTrip'
    BY <1>1, <1>3 DEF I2cOnTime, OnTime, I2cRangeExact, WidthsRoundTrip
<1> QED
    BY <1>6, <1>7, <1>8, <1>9, <1>10, <1>11 DEF Right

(* A sweep is refused outright when its samples are too few to repeat. *)
LEMMA RefusalRight ==
    ASSUME sysclk \in Clocks, sysclk' = sysclk, NEW hz \in Nat, Repeat(hz) > MaxRepeat,
           reply' = Refuse("sweep", hz, 1, "TooSlow")
    PROVE  Right'
<1>1. MaxRepeat \in Nat \ {0} /\ Repeat(hz) \in Nat \ {0} /\ Repeat(hz) # 1 /\ hz < MinRate(sysclk)
    <2>1. MaxRepeat \in Nat \ {0} /\ Repeat(hz) \in Nat \ {0}
        BY RatesAssumption, Repeats
    <2> QED
        BY <2>1, Repeats
<1>2. /\ reply'.op = "sweep" /\ reply'.asked = hz /\ reply'.cycles = 1 /\ reply'.ok = FALSE
    BY DEF Refuse
<1>3. hz > 0 => ~(hz * MaxRepeat >= MinRate(sysclk))
    BY <1>1, Repeats
<1>4. MinRate(sysclk) \in Nat
    <2>1. sysclk * Units \in Nat
        BY Settings, RatesAssumption
    <2> QED
        BY <2>1, CeilAtMost, Settings DEF MinRate
<1>5. RangeExact'
    <2>1. (reply.asked * reply.cycles)' = hz
        BY <1>2
    <2> QED
        BY <1>1, <1>4, <2>1 DEF RangeExact, Rate
<1>6. SlowRatesReached'
    BY <1>2, <1>3 DEF SlowRatesReached
<1>7. TypeOK' /\ NearestDivisor' /\ ReportHonest'
    BY <1>2 DEF TypeOK, NearestDivisor, ReportHonest, RateOps
<1>8. I2cOnTime' /\ I2cRangeExact' /\ WidthsRoundTrip'
    BY <1>2 DEF I2cOnTime, I2cRangeExact, WidthsRoundTrip
<1> QED
    BY <1>5, <1>6, <1>7, <1>8 DEF Right

(* So is the reply to an I2C rate, *)
LEMMA I2cReplyRight ==
    ASSUME sysclk \in Clocks, CmdI2c
    PROVE  Right'
<1>1. PICK hz \in Asked :
          /\ reply' = IF Plan(sysclk, hz).ok
                      THEN [op |-> "i2c", asked |-> hz, ok |-> TRUE,
                            quarter |-> Plan(sysclk, hz).value.quarter,
                            actual |-> Plan(sysclk, hz).value.achieved]
                      ELSE [op |-> "i2c", asked |-> hz, ok |-> FALSE, error |-> Plan(sysclk, hz).error]
          /\ sysclk' = sysclk
    BY DEF CmdI2c
<1> DEFINE w == WantCycles(sysclk, hz)
<1>2. hz \in Nat /\ sysclk \in Nat \ {0} /\ sysclk' = sysclk
    BY <1>1, RatesAssumption
<1>3. reply'.op = "i2c" /\ reply'.asked = hz
    BY <1>1
<1>4. Plan(sysclk, hz).ok <=> hz # 0 /\ w >= BitCycles(1)
    <2>1. hz # 0 => w \in Nat
        BY <1>2, DivBounds DEF WantCycles
    <2> HIDE DEF w
    <2> QED
        BY <1>2, <2>1, ShortestBit DEF Plan, Ok, Err, w
<1>5. reply'.ok <=> Plan(sysclk, hz).ok
    BY <1>1
<1>6. ASSUME Plan(sysclk, hz).ok
      PROVE  /\ reply'.quarter = Quarter(w)
             /\ reply'.actual = (sysclk * 1000) \div BitCycles(Quarter(w))
    <2>1. Plan(sysclk, hz) =
              Ok([quarter |-> Quarter(w), achieved |-> (sysclk * 1000) \div BitCycles(Quarter(w))])
        BY <1>6 DEF Plan, Err
    <2>2. Plan(sysclk, hz).value.quarter = Quarter(w)
        BY <2>1 DEF Ok
    <2>3. Plan(sysclk, hz).value.achieved = (sysclk * 1000) \div BitCycles(Quarter(w))
        BY <2>1 DEF Ok
    <2> QED
        BY <1>1, <1>6, <2>2, <2>3
<1>7. ASSUME hz # 0
      PROVE  w \in Nat /\ w * hz <= sysclk /\ sysclk < w * hz + hz
    BY <1>2, <1>7, DivBounds DEF WantCycles
<1>8. hz # 0 => (w >= BitCycles(1) <=> hz <= MaxBusRate(sysclk))
    <2>1. SUFFICES ASSUME hz # 0 PROVE BitCycles(1) <= w <=> hz <= MaxBusRate(sysclk)
        BY <1>7, ShortestBit
    <2>2. BitCycles(1) \in Nat \ {0}
        BY ShortestBit, I2cTimingAssumption
    <2>3. BitCycles(1) <= w <=> BitCycles(1) * hz <= sysclk
        BY <1>2, <2>1, <2>2, DivAtLeast DEF WantCycles
    <2>4. hz <= MaxBusRate(sysclk) <=> hz * BitCycles(1) <= sysclk
        BY <1>2, <2>2, DivAtLeast DEF MaxBusRate
    <2>5. hz * BitCycles(1) = BitCycles(1) * hz
        BY <1>2, <2>2
    <2> QED
        BY <2>3, <2>4, <2>5
<1> HIDE DEF w
<1>9. I2cRangeExact'
    BY <1>2, <1>3, <1>4, <1>5, <1>8 DEF I2cRangeExact
<1>10. ASSUME reply'.ok
       PROVE  /\ hz \in Nat \ {0} /\ w \in Nat /\ w >= BitCycles(1)
              /\ reply'.quarter \in Nat \ {0} /\ BitCycles(reply'.quarter) \in Nat
              /\ BitCycles(reply'.quarter) >= w
              /\ \A q \in 1 .. reply'.quarter - 1 : BitCycles(q) < w
    <2>1. hz \in Nat \ {0} /\ w \in Nat /\ w >= BitCycles(1)
        BY <1>2, <1>4, <1>5, <1>7, <1>10
    <2>2. reply'.quarter = Quarter(w)
        BY <1>5, <1>6, <1>10
    <2> QED
        BY <2>1, <2>2, QuarterLeast, BitLength
<1>11. I2cOnTime'
    <2>1. SUFFICES ASSUME reply'.ok
                   PROVE  /\ sysclk < (BitCycles(reply'.quarter) + 1) * hz
                          /\ \A q \in 1 .. reply'.quarter - 1 : ~(sysclk < (BitCycles(q) + 1) * hz)
        BY <1>2, <1>3 DEF I2cOnTime, OnTime
    <2>2. w * hz <= sysclk /\ sysclk < w * hz + hz /\ (w + 1) * hz = w * hz + hz
        BY <1>2, <1>7, <1>10, <2>1
    <2>3. (w + 1) * hz <= (BitCycles(reply'.quarter) + 1) * hz
        BY <1>10, <2>1
    <2>4. ASSUME NEW q \in 1 .. reply'.quarter - 1 PROVE ~(sysclk < (BitCycles(q) + 1) * hz)
        <3>1. q \in Nat
            BY <1>10, <2>1
        <3>2. BitCycles(q) \in Nat /\ BitCycles(q) < w
            BY <1>10, <2>1, <3>1, BitLength
        <3>3. BitCycles(q) + 1 \in Nat /\ BitCycles(q) + 1 <= w
            BY <1>10, <2>1, <3>2
        <3> DEFINE b == BitCycles(q) + 1
        <3>4. b * hz <= w * hz /\ b * hz \in Nat /\ w * hz \in Nat
            <4> HIDE DEF b
            <4> QED BY <1>10, <2>1, <3>3 DEF b
        <3> QED
            BY <1>2, <2>2, <3>4
    <2>5. w * hz \in Nat /\ (BitCycles(reply'.quarter) + 1) * hz \in Nat
        BY <1>10, <2>1
    <2> QED
        BY <1>2, <1>10, <2>1, <2>2, <2>3, <2>4, <2>5
<1>12. TypeOK'
    <2>1. reply'.ok => reply'.actual \in Nat
        <3>1. SUFFICES ASSUME reply'.ok PROVE reply'.actual \in Nat
            OBVIOUS
        <3>2. reply'.actual = (sysclk * 1000) \div BitCycles(reply'.quarter)
            BY <1>5, <1>6, <3>1
        <3>3. BitCycles(reply'.quarter) \in Nat \ {0}
            BY <1>10, <3>1, ShortestBit, I2cTimingAssumption
        <3>4. sysclk * 1000 \in Nat
            BY <1>2
        <3> QED
            BY <3>2, <3>3, <3>4, DivBounds
    <2> QED
        BY <1>2, <1>3, <1>10, <2>1 DEF TypeOK, RateOps
<1>13. NearestDivisor' /\ RangeExact' /\ ReportHonest' /\ SlowRatesReached' /\ WidthsRoundTrip'
    BY <1>3 DEF NearestDivisor, RangeExact, ReportHonest, SlowRatesReached, WidthsRoundTrip, Rated, RateOps
<1> QED
    BY <1>9, <1>11, <1>12, <1>13 DEF Right

(* and to a width. *)
LEMMA WidthReplyRight ==
    ASSUME sysclk \in Clocks, sysclk' = sysclk,
           NEW op \in {"glitch", "pulse"}, NEW n \in Nat, NEW t \in 1 .. MaxU32,
           reply' = WidthReply(op, n, t)
    PROVE  Right'
<1>1. reply'.op = op /\ reply'.ticks = t /\ reply'.ps = NsOfTicksPs(sysclk, t)
    BY DEF WidthReply
<1>2. op \notin RateOps /\ op # "none" /\ op # "i2c" /\ op # "sweep"
    BY DEF RateOps
<1>3. NsOfTicksPs(sysclk, t) \in Nat
    BY TickLength, TimingAssumption DEF NsOfTicksPs
<1>4. TypeOK'
    BY <1>1, <1>2, <1>3 DEF TypeOK
<1>5. WidthsRoundTrip'
    BY <1>1, TicksRoundTrip DEF WidthsRoundTrip
<1>6. NearestDivisor' /\ RangeExact' /\ ReportHonest' /\ SlowRatesReached' /\ I2cOnTime' /\ I2cRangeExact'
    BY <1>1, <1>2
    DEF NearestDivisor, RangeExact, ReportHonest, SlowRatesReached, I2cOnTime, I2cRangeExact, Rated
<1> QED
    BY <1>4, <1>5, <1>6 DEF Right

-----------------------------------------------------------------------------
(* Whatever the host asks for, in whatever order, every reply is right: in *)
(* type, in the setting chosen, and in what it says was done.              *)
THEOREM RepliesRight == Spec => []Right
<1>1. Init => Right
    <2>1. ASSUME Init PROVE reply.op = "none" /\ sysclk \in Clocks
        BY <2>1 DEF Init, NoReply
    <2> QED
        BY <2>1
        DEF Right, TypeOK, NearestDivisor, RangeExact, ReportHonest, SlowRatesReached, I2cOnTime,
            I2cRangeExact, WidthsRoundTrip, Rated, RateOps
<1>2. Right /\ [Next]_vars => Right'
    <2>1. SUFFICES ASSUME Right, [Next]_vars PROVE Right'
        OBVIOUS
    <2>2. sysclk \in Clocks
        BY <2>1 DEF Right, TypeOK
    <2>3. CASE UNCHANGED vars
        BY <2>1, <2>3
        DEF Right, vars, TypeOK, NearestDivisor, RangeExact, ReportHonest, SlowRatesReached, I2cOnTime,
            OnTime, I2cRangeExact, WidthsRoundTrip, Rated, Rate, Distance
    <2>4. CASE Next
        BY <2>2, <2>4, CommandReplies, RateReplyRight, RefusalRight, I2cReplyRight, WidthReplyRight
    <2> QED
        BY <2>1, <2>3, <2>4
<1> QED
    BY <1>1, <1>2, PTL DEF Spec

(* The registers written always encode the setting meant. *)
THEOREM Encodable == Spec => []TypeOK
    BY RepliesRight, PTL DEF Right

(* The divider chosen is the nearest there is. *)
THEOREM NearestChosen == Spec => []NearestDivisor
    BY RepliesRight, PTL DEF Right

(* The documented bounds of the accepted rates are exact. *)
THEOREM BoundsExact == Spec => []RangeExact
    BY RepliesRight, PTL DEF Right

(* The rate reported is the one emitted. *)
THEOREM ReportedAsEmitted == Spec => []ReportHonest
    BY RepliesRight, PTL DEF Right

(* A slow sweep is refused for want of samples only. *)
THEOREM SweepsReached == Spec => []SlowRatesReached
    BY RepliesRight, PTL DEF Right

(* The I2C clock is as asked to within a CPU cycle per bit, and no shorter *)
(* delay makes it so.                                                      *)
THEOREM BusOnTime == Spec => []I2cOnTime
    BY RepliesRight, PTL DEF Right

(* The documented bound of the I2C rates is exact. *)
THEOREM BusBoundExact == Spec => []I2cRangeExact
    BY RepliesRight, PTL DEF Right

(* A reported width asks for itself. *)
THEOREM WidthsStable == Spec => []WidthsRoundTrip
    BY RepliesRight, PTL DEF Right

=============================================================================
