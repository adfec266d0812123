---------------------------------- MODULE Parse ----------------------------------
(***************************************************************************)
(* The arguments of commands (src/crates/tester-core/src/parse.rs): what   *)
(* each parser makes of a token.  A token is a sequence of characters.     *)
(* None, Some: Rust's Option.  The multipliers of k and M and the width of *)
(* an integer are parameters; checked arithmetic refuses, never wraps.     *)
(***************************************************************************)
EXTENDS Timing, Powers, Sequences, SequencesExt

CONSTANTS
    Kilo, Mega  \* 1000, 1000000

ASSUME ParseAssumption ==
    /\ {Kilo, Mega} \subseteq {Power(10, n) : n \in 1 .. 6} /\ Kilo < Mega
    /\ MaxU32 >= 255  \* a byte fits

None == Err("none")
Some(v) == Ok(v)

(* char::to_digit: the characters that stand for a figure, in either case. *)
Figures == <<{"0"}, {"1"}, {"2"}, {"3"}, {"4"}, {"5"}, {"6"}, {"7"}, {"8"}, {"9"},
             {"a", "A"}, {"b", "B"}, {"c", "C"}, {"d", "D"}, {"e", "E"}, {"f", "F"}>>
DigitValue == [c \in UNION ToSet(Figures) |-> CHOOSE v \in 0 .. 15 : c \in Figures[v + 1]]
IsDigit(c, radix) == c \in DOMAIN DigitValue /\ DigitValue[c] < radix

Prefixed(s, letters) == Len(s) >= 2 /\ s[1] = "0" /\ s[2] \in letters
Radix(s) == IF Prefixed(s, {"x", "X"}) THEN 16 ELSE IF Prefixed(s, {"b", "B"}) THEN 2 ELSE 10
Digits(s) == IF Radix(s) = 10 THEN s ELSE SubSeq(s, 3, Len(s))

(* One character of the loop of u32_arg; `?` leaves it with None.  Mutant  *)
(* of TakeDigit: the radix of the digit is not checked.                    *)
TakeAnyDigit(radix, acc, c) ==
    IF ~acc.ok \/ c = "_" THEN acc
    ELSE IF ~IsDigit(c, 16) \/ acc.value * radix + DigitValue[c] > MaxU32 THEN None
    ELSE Some(acc.value * radix + DigitValue[c])

TakeDigit(radix, acc, c) ==
    IF ~acc.ok \/ c = "_" THEN acc
    ELSE IF ~IsDigit(c, radix) \/ acc.value * radix + DigitValue[c] > MaxU32 THEN None
    ELSE Some(acc.value * radix + DigitValue[c])

U32Arg(s) ==
    LET digits == Digits(s)
        after[n \in 0 .. Len(digits)] ==
            IF n = 0 THEN Some(0) ELSE TakeDigit(Radix(s), after[n - 1], digits[n])
    IN  IF \A i \in DOMAIN digits : digits[i] = "_" THEN None ELSE after[Len(digits)]

(* What a digit after the suffix is worth: the scale is divided by ten for *)
(* every character, and must not reach zero.  Mutant: `2k05` is 2.5k.      *)
ScaleOfValue(frac, mult) == IF U32Arg(frac).value < 10 THEN mult \div 10 ELSE mult \div 100

Scale(frac, mult) == mult \div Power(10, Len(frac))

Multiplied(s, at, mult) ==
    LET whole == U32Arg(SubSeq(s, 1, at - 1))
        frac == SubSeq(s, at + 1, Len(s))
        part == U32Arg(frac)
    IN  IF ~whole.ok \/ whole.value * mult > MaxU32 THEN None
        ELSE IF frac = <<>> THEN Some(whole.value * mult)
        ELSE IF ~part.ok \/ Scale(frac, mult) = 0 THEN None
        ELSE IF whole.value * mult + part.value * Scale(frac, mult) > MaxU32 THEN None
        ELSE Some(whole.value * mult + part.value * Scale(frac, mult))

Find(s, letters) == SelectInSeq(s, LAMBDA c : c \in letters)

HzArg(s) ==
    IF Find(s, {"M", "m"}) # 0 THEN Multiplied(s, Find(s, {"M", "m"}), Mega)
    ELSE IF Find(s, {"k", "K"}) # 0 THEN Multiplied(s, Find(s, {"k", "K"}), Kilo)
    ELSE U32Arg(s)

(* u8::from_str_radix takes a sign before the digits. *)
HexByteArg(s) ==
    LET digits == IF Prefixed(s, {"x", "X"}) THEN SubSeq(s, 3, Len(s)) ELSE s
        unsigned == IF Len(digits) = 2 /\ digits[1] = "+" THEN Tail(digits) ELSE digits
        after[n \in 0 .. Len(unsigned)] ==
            IF n = 0 THEN 0 ELSE after[n - 1] * 16 + DigitValue[unsigned[n]]
    IN  IF Len(digits) \notin 1 .. 2 \/ \E i \in DOMAIN unsigned : ~IsDigit(unsigned[i], 16)
        THEN None
        ELSE Some(after[Len(unsigned)])

ChannelArg(s, width) == IF U32Arg(s).ok /\ U32Arg(s).value < width THEN U32Arg(s) ELSE None

(* eq_ignore_ascii_case("all") *)
SpellsAll(s) == s \in {"a", "A"} \X {"l", "L"} \X {"l", "L"}

All(width) == Power(2, width) - 1

(* Mutant of MaskArg: bits beyond the bus are taken. *)
MaskUnchecked(s, width) == IF SpellsAll(s) THEN Some(All(width)) ELSE U32Arg(s)

MaskArg(s, width) ==
    IF SpellsAll(s) THEN Some(All(width))
    ELSE IF U32Arg(s).ok /\ U32Arg(s).value <= All(width) THEN U32Arg(s)
    ELSE None

=============================================================================
