---------------------------------- MODULE Synth ----------------------------------
(***************************************************************************)
(* The commands that put a pattern on the channels (src/src/commands.rs),  *)
(* from the tokens of the line to the samples the engine plays and the     *)
(* reply: arguments are parsed, a pattern is built, padded, loaded and     *)
(* played, and any of these may refuse.  How the engine plays it, word by  *)
(* word, is Bus; what rates are worth is Rates.                            *)
(*                                                                         *)
(* The refusals of arguments are one error.  A pattern is made in a        *)
(* scratch buffer that every command shares, and only one that is accepted *)
(* is packed into the buffer the channels read; of the scratch buffer,     *)
(* what the last command to write in it has written is kept.               *)
(***************************************************************************)
EXTENDS Parse, Patterns, FiniteSetsExt

CONSTANTS
    Sysclk,
    BusWidth,        \* BUS_WIDTH; a sample has no more bits
    DefaultWidth,    \* of gray and ramp
    PreloadSamples,  \* PRELOAD_SAMPLES
    MaxTokens,       \* MAX_TOKENS, of a line
    Requests         \* the lines of the host: [op, args]

ASSUME SynthAssumption ==
    /\ Sysclk \in 1 .. Second
    /\ BusWidth \in Nat /\ DefaultWidth \in 1 .. BusWidth
    /\ PreloadSamples \in Nat /\ MaxTokens \in Nat
    /\ \A r \in Requests : DOMAIN r = {"op", "args"} /\ r.args \in Seq(Seq(STRING))

VARIABLES
    req,      \* the line being executed
    reply,    \* what it answered
    scratch,  \* PATTERN_BUF: what was written in it last, refused or not
    pattern,  \* PATTERN_WORDS: the samples loaded, two to a word
    playing,  \* what the channels carry
    raw       \* history: the last pattern accepted, before it was padded

vars == <<req, reply, scratch, pattern, playing, raw>>

Sweeps == {"walk", "walkz", "gray", "ramp"}
Channels == 0 .. BusWidth - 1
NoReq == [op |-> "none", args |-> <<>>]
NoReply == [ok |-> TRUE, op |-> "none"]
Silence == [kind |-> "silence"]

Init ==
    /\ req = NoReq /\ reply = NoReply
    /\ scratch = <<>> /\ pattern = <<>> /\ raw = <<>> /\ playing = Silence

Receive ==
    /\ req = NoReq
    /\ req' \in Requests
    /\ UNCHANGED <<reply, scratch, pattern, playing, raw>>

Collect ==
    /\ reply # NoReply
    /\ req' = NoReq /\ reply' = NoReply
    /\ UNCHANGED <<scratch, pattern, playing, raw>>

Arg(i) == req.args[i]
Has(n) == Len(req.args) >= n
Asked(ops) == req.op \in ops /\ reply = NoReply /\ ~Has(MaxTokens)

Rejected(e) == [ok |-> FALSE, op |-> req.op, error |-> e]

(* A refusal after some of a pattern was written. *)
RefuseLeaving(written, e) ==
    /\ reply' = Rejected(e)
    /\ scratch' = IF written = <<>> THEN scratch ELSE written
    /\ UNCHANGED <<req, pattern, playing, raw>>

Refuse(e) == RefuseLeaving(<<>>, e)

TooManyArguments ==
    /\ req # NoReq /\ reply = NoReply /\ Has(MaxTokens)
    /\ Refuse("arguments")

-----------------------------------------------------------------------------
(* What the commands share.                                                *)

(* Mutants of PadEven: not at all; with an idle sample. *)
PadNone(samples) == samples
PadIdle(samples) ==
    IF Len(samples) % 2 = 0 \/ Len(samples) >= Capacity THEN samples ELSE Append(samples, {})

PadEven(samples) ==
    IF Len(samples) % 2 = 0 \/ Len(samples) >= Capacity THEN samples
    ELSE Append(samples, Last(samples))

(* Bus::load_pattern: why it would refuse; otherwise it stops the output   *)
(* and packs what is in the scratch buffer.                                *)
LoadError(samples) ==
    IF samples = <<>> THEN "empty"
    ELSE IF Len(samples) % 2 # 0 THEN "odd"
    ELSE IF Len(samples) > Capacity THEN "exceeds"
    ELSE "none"

Loaded(samples) == scratch' = PadEven(samples) /\ pattern' = scratch' /\ raw' = samples

(* Bus::play_pattern, at a sample per tick of the divider. *)
Wave(samples, looping, divisor) ==
    [kind |-> "pattern", samples |-> samples, looping |-> looping, divisor |-> divisor]

(* Load what was built, if it was, and play it. *)
Play(built, looping, divisor, answer) ==
    IF ~built.ok THEN RefuseLeaving(built.written, built.error)
    ELSE IF LoadError(PadEven(built.value)) # "none"
         THEN RefuseLeaving(PadEven(built.value), LoadError(PadEven(built.value)))
    ELSE /\ Loaded(built.value)
         /\ playing' = Wave(pattern', looping, divisor)
         /\ reply' = answer
         /\ UNCHANGED req

FullRate == DivisorForRate(Sysclk, Sysclk).value

(* A state machine of two instructions per wave or code; it needs no       *)
(* pattern and leaves the one loaded alone.                                *)
RunFree(signal, hz) ==
    IF hz * 2 > MaxU32 THEN Refuse("TooHigh")
    ELSE IF ~DivisorForRate(Sysclk, hz * 2).ok THEN Refuse("rate")
    ELSE /\ playing' = signal
         /\ reply' = [ok |-> TRUE, op |-> req.op]
         /\ UNCHANGED <<req, scratch, pattern, raw>>

-----------------------------------------------------------------------------
CmdStop ==
    /\ Asked({"stop"})
    /\ playing' = Silence
    /\ reply' = [ok |-> TRUE, op |-> "stop"]
    /\ UNCHANGED <<req, scratch, pattern, raw>>

CmdSquare ==
    LET ch == ChannelArg(Arg(1), BusWidth)
    IN  /\ Asked({"square"})
        /\ IF Has(2) /\ ch.ok /\ HzArg(Arg(2)).ok
           THEN RunFree([kind |-> "toggle", mask |-> {ch.value}], HzArg(Arg(2)).value)
           ELSE Refuse("argument")

CmdToggle ==
    LET mask == MaskArg(Arg(1), BusWidth)
    IN  /\ Asked({"toggle"})
        /\ IF Has(2) /\ mask.ok /\ mask.value # 0 /\ HzArg(Arg(2)).ok
           THEN RunFree([kind |-> "toggle", mask |-> Bits(mask.value, BusWidth)], HzArg(Arg(2)).value)
           ELSE Refuse("argument")

CmdCount ==
    /\ Asked({"count"})
    /\ IF Has(1) /\ HzArg(Arg(1)).ok THEN RunFree([kind |-> "count"], HzArg(Arg(1)).value)
       ELSE Refuse("argument")

(* play_oneshot: with the width and whether it fits the FIFO. *)
OneShot(built, chans, ticks) ==
    Play(built, FALSE, FullRate,
         [ok |-> TRUE, op |-> req.op, chans |-> chans, ticks |-> ticks,
          preloaded |-> Len(PadEven(built.value)) <= PreloadSamples])

CmdGlitch ==
    LET ch == ChannelArg(Arg(1), BusWidth)
        ticks == U32Arg(Arg(2))
    IN  /\ Asked({"glitch"})
        /\ IF Has(2) /\ ch.ok /\ ticks.ok
           THEN OneShot(Glitch({ch.value}, ticks.value), <<ch.value>>, ticks.value)
           ELSE Refuse("argument")

CmdSkew ==
    LET a == ChannelArg(Arg(1), BusWidth)
        b == ChannelArg(Arg(2), BusWidth)
        ticks == U32Arg(Arg(3))
    IN  /\ Asked({"skew"})
        /\ IF Has(3) /\ a.ok /\ b.ok /\ a # b /\ ticks.ok
           THEN OneShot(Skew({a.value}, {b.value}, ticks.value), <<a.value, b.value>>, ticks.value)
           ELSE Refuse("argument")

CmdPulse ==
    LET ch == ChannelArg(Arg(1), BusWidth)
        high == TicksForNs(Sysclk, U32Arg(Arg(2)).value)
        period == TicksForNs(Sysclk, U32Arg(Arg(3)).value)
    IN  /\ Asked({"pulse"})
        /\ IF Has(3) /\ ch.ok /\ U32Arg(Arg(2)).ok /\ U32Arg(Arg(3)).ok
           THEN Play(Pulse({ch.value}, high, period), TRUE, FullRate,
                     [ok |-> TRUE, op |-> "pulse", chan |-> ch.value,
                      highPs |-> NsOfTicksPs(Sysclk, high), periodPs |-> NsOfTicksPs(Sysclk, period)])
           ELSE Refuse("argument")

(* pattern::plan_rate; Rates has what its rates are worth. *)
PlanRate(hz) ==
    LET repeat == IF hz >= MinRate(Sysclk) THEN 1 ELSE DivCeil(MinRate(Sysclk), hz)
        divisor == DivisorForRate(Sysclk, hz * repeat)
    IN  IF hz = 0 THEN Err("Zero")
        ELSE IF repeat > Capacity \div 2 THEN Err("TooSlow")
        ELSE IF hz * repeat > MaxU32 THEN Err("TooFast")
        ELSE IF ~divisor.ok THEN divisor
        ELSE Ok([divisor |-> divisor.value, repeat |-> repeat])

Logical(op, width) ==
    CASE op = "walk"  -> WalkingOnes(width)
      [] op = "walkz" -> WalkingZeros(width)
      [] op = "gray"  -> Gray(width)
      [] op = "ramp"  -> Ramp(width)

SweepWidth(op) ==
    IF Has(2) THEN U32Arg(Arg(2))
    ELSE Some(IF op \in {"gray", "ramp"} THEN DefaultWidth ELSE BusWidth)

CmdSweep ==
    LET width == SweepWidth(req.op)
        plan == PlanRate(HzArg(Arg(1)).value)
    IN  /\ Asked(Sweeps)
        /\ IF ~(Has(1) /\ HzArg(Arg(1)).ok /\ width.ok /\ width.value \in 1 .. BusWidth)
           THEN Refuse("argument")
           ELSE IF ~plan.ok THEN Refuse(plan.error)
           ELSE Play(Write(Logical(req.op, width.value), plan.value.repeat), TRUE, plan.value.divisor,
                     [ok |-> TRUE, op |-> req.op, width |-> width.value, repeat |-> plan.value.repeat])

(* The samples go to the scratch buffer one by one, up to a bad token. *)
CmdLoad ==
    LET values == [i \in DOMAIN req.args |-> U32Arg(Arg(i))]
        samples == [i \in DOMAIN values |-> Bits(values[i].value, BusWidth)]
        bad == {i \in DOMAIN values : ~(values[i].ok /\ values[i].value < Power(2, BusWidth))}
    IN  /\ Asked({"load"})
        /\ IF ~Has(1) \/ Has(Capacity + 1) THEN Refuse("argument")
           ELSE IF bad # {} THEN RefuseLeaving([i \in 1 .. Min(bad) - 1 |-> samples[i]], "argument")
           ELSE IF LoadError(PadEven(samples)) # "none"
           THEN RefuseLeaving(PadEven(samples), LoadError(PadEven(samples)))
           ELSE /\ Loaded(samples)
                /\ playing' = Silence
                /\ reply' = [ok |-> TRUE, op |-> "load"]
                /\ UNCHANGED req

(* Mutant of CmdPlay: what is in the scratch buffer is played. *)
CmdPlayScratch ==
    /\ Asked({"play"})
    /\ IF pattern # <<>> /\ Has(1) /\ HzArg(Arg(1)).ok /\ (Has(2) => Arg(2) = <<"l", "o", "o", "p">>)
       THEN LET divisor == DivisorForRate(Sysclk, HzArg(Arg(1)).value)
            IN  IF ~divisor.ok THEN Refuse(divisor.error)
                ELSE /\ playing' = Wave(scratch, Has(2), divisor.value)
                     /\ reply' = [ok |-> TRUE, op |-> "play"]
                     /\ UNCHANGED <<req, scratch, pattern, raw>>
       ELSE Refuse("argument")

CmdPlay ==
    /\ Asked({"play"})
    /\ IF pattern # <<>> /\ Has(1) /\ HzArg(Arg(1)).ok /\ (Has(2) => Arg(2) = <<"l", "o", "o", "p">>)
       THEN LET divisor == DivisorForRate(Sysclk, HzArg(Arg(1)).value)
            IN  IF ~divisor.ok THEN Refuse(divisor.error)
                ELSE /\ playing' = Wave(pattern, Has(2), divisor.value)
                     /\ reply' = [ok |-> TRUE, op |-> "play"]
                     /\ UNCHANGED <<req, scratch, pattern, raw>>
       ELSE Refuse("argument")

Next ==
    \/ Receive \/ Collect \/ TooManyArguments
    \/ CmdStop \/ CmdSquare \/ CmdToggle \/ CmdCount
    \/ CmdGlitch \/ CmdSkew \/ CmdPulse \/ CmdSweep \/ CmdLoad \/ CmdPlay

Spec == Init /\ [][Next]_vars

-----------------------------------------------------------------------------
Samples == Seq(SUBSET Channels)

(* Types, and what a word needs: the pattern loaded is a whole number of   *)
(* words and fits the buffer; a mask stays on the bus (parse.rs:101-103).  *)
TypeOK ==
    /\ DOMAIN req = {"op", "args"}
    /\ reply.ok \in BOOLEAN
    /\ pattern \in Samples /\ Len(pattern) % 2 = 0 /\ Len(pattern) <= Capacity
    /\ playing.kind \in {"silence", "toggle", "count", "pattern"}
    /\ playing.kind = "toggle" => playing.mask \in (SUBSET Channels) \ {{}}
    /\ playing.kind = "pattern" => playing.samples \in Samples \ {<<>>}

(* Padding is all that load_pattern needs: no pattern a command built is   *)
(* refused there, after the arguments were accepted (bus.rs:349-358).      *)
PaddingSuffices == ~reply.ok => reply.error \notin {"empty", "odd", "exceeds"}

(* The levels a pattern goes through. *)
Levels(s) == FlattenSeq([i \in DOMAIN s |-> IF i < Len(s) /\ s[i] = s[i + 1] THEN <<>> ELSE <<s[i]>>])

(* Padding invents no transition: the pattern loaded goes through the      *)
(* levels of the pattern the command built, in that order, whether played  *)
(* once or looped (commands.rs:548-554).                                   *)
PadAddsNoEdge == Levels(pattern) = Levels(raw)

(* A burst is what its reply says it is: the channels of a glitch or a     *)
(* skew are high for exactly the samples reported and every edge is inside *)
(* the pattern, an idle sample on both sides (pattern.rs:166-185); a pulse *)
(* is high for the time reported, once per turn.                           *)
High(ch) == {i \in DOMAIN playing.samples : ch \in playing.samples[i]}
AllLowAtEnd == Last(playing.samples) = {}

GlitchShape(ch, ticks) ==
    ~playing.looping /\ AllLowAtEnd /\ \A c \in Channels : High(c) = IF c = ch THEN 2 .. ticks + 1 ELSE {}

SkewShape(a, b, ticks) ==
    /\ ~playing.looping /\ AllLowAtEnd
    /\ \A c \in Channels : High(c) = CASE c = a -> 2 .. 2 * ticks + 1
                                       [] c = b -> ticks + 2 .. 2 * ticks + 1
                                       [] OTHER -> {}

PulseShape(ch, ticks) ==
    playing.looping /\ AllLowAtEnd /\ \A c \in Channels : High(c) = IF c = ch THEN 1 .. ticks ELSE {}

ShapeAsReported ==
    /\ reply.ok /\ reply.op = "glitch" => GlitchShape(reply.chans[1], reply.ticks)
    /\ reply.ok /\ reply.op = "skew" => SkewShape(reply.chans[1], reply.chans[2], reply.ticks)
    /\ reply.ok /\ reply.op = "pulse" => PulseShape(reply.chan, reply.highPs \div TickPs(Sysclk))

(* A gray sweep, however slow, padded and looped, never moves two channels *)
(* at once, its wrap included, and visits every code of its width          *)
(* (pattern.rs:227-230).                                                   *)
GraySteps ==
    reply.ok /\ reply.op = "gray" =>
        LET s == playing.samples
        IN  /\ \A i \in DOMAIN s :
                   Cardinality(SymDiff(s[i], s[(i % Len(s)) + 1])) <= 1
            /\ ToSet(s) = SUBSET (0 .. reply.width - 1)

(* Every level of a sweep lasts the samples its rate was planned for and   *)
(* differs from the next one; only the pad makes the last one longer.      *)
SweepDwell ==
    reply.ok /\ reply.op \in Sweeps =>
        LET s == playing.samples
            levels == Len(Logical(reply.op, reply.width))
        IN  \A i \in 1 .. Len(s) - 1 :
                s[i] # s[i + 1] <=> i % reply.repeat = 0 /\ i < reply.repeat * levels

(* What the channels carry of a pattern is what the last command that was  *)
(* accepted made: never the half that one which was refused had written    *)
(* when a bad token or the end of the buffer stopped it, nor the pattern   *)
(* that a later `load` has replaced (commands.rs:493-508, bus.rs:359-371). *)
PlaysWhatWasAccepted == playing.kind = "pattern" => playing.samples = PadEven(raw)

(* A token that is accepted is worth what is written, by position and      *)
(* radix, its letters in either case, and none is accepted that does not   *)
(* fit (parse.rs:3-5, 114).  The figures are written out again here, so    *)
(* that the parser is not compared with its own table.                     *)
Small == <<"0", "1", "2", "3", "4", "5", "6", "7", "8", "9", "a", "b", "c", "d", "e", "f">>
Capital == <<"0", "1", "2", "3", "4", "5", "6", "7", "8", "9", "A", "B", "C", "D", "E", "F">>
Denotes(c, v) == c \in {Small[v + 1], Capital[v + 1]}
IsFigure(c, radix) == \E v \in 0 .. radix - 1 : Denotes(c, v)

ByPosition(digits, radix) ==
    LET worth(c) == CHOOSE v \in 0 .. 15 : Denotes(c, v)
        sum[n \in 0 .. Len(digits)] ==
            IF n = 0 THEN 0 ELSE sum[n - 1] + worth(digits[n]) * Power(radix, Len(digits) - n)
    IN  sum[Len(digits)]

Unseparated(s) ==
    LET kept[n \in 0 .. Len(s)] ==
            IF n = 0 THEN <<>> ELSE IF s[n] = "_" THEN kept[n - 1] ELSE Append(kept[n - 1], s[n])
    IN  kept[Len(s)]

AsWritten(s, radix) ==
    LET digits == Unseparated(s)
    IN  IF digits # <<>> /\ (\A i \in DOMAIN digits : IsFigure(digits[i], radix))
           /\ ByPosition(digits, radix) <= MaxU32
        THEN Some(ByPosition(digits, radix))
        ELSE None

NumbersAsWritten ==
    \A token \in ToSet(req.args) :
        LET byte == IF Radix(token) = 16 THEN Digits(token) ELSE token
        IN  /\ U32Arg(token) = AsWritten(Digits(token), Radix(token))
            /\ Len(byte) \in 1 .. 2 /\ ToSet(byte) \cap {"_", "+"} = {} =>
                   HexByteArg(token) = AsWritten(byte, 16)

(* A frequency with digits on both sides of its suffix is exact, every     *)
(* digit after the suffix a tenth of the one before it, or is refused; two *)
(* suffixes are refused (parse.rs:36-39).                                  *)
SuffixLetters == {"M", "m", "k", "K"}
MultiplierOf(c) == IF c \in {"M", "m"} THEN Mega ELSE Kilo

FrequenciesAsWritten ==
    \A token \in ToSet(req.args) :
        LET marks == {i \in DOMAIN token : token[i] \in SuffixLetters}
            at == CHOOSE i \in marks : TRUE
            whole == SubSeq(token, 1, at - 1)
            frac == SubSeq(token, at + 1, Len(token))
            tenths == Power(10, Len(frac))
            hz == (ByPosition(whole, 10) * tenths + ByPosition(frac, 10)) * (MultiplierOf(token[at]) \div tenths)
        IN  CASE Cardinality(marks) = 0 -> HzArg(token) = U32Arg(token)
              [] Cardinality(marks) > 1 -> ~HzArg(token).ok
              [] Cardinality(marks) = 1 /\ whole = <<>> -> ~HzArg(token).ok
              [] Cardinality(marks) = 1 /\ whole # <<>>
                   /\ \A i \in DOMAIN token \ marks : IsFigure(token[i], 10) ->
                     HzArg(token) = IF tenths > MultiplierOf(token[at]) \/ hz > MaxU32 THEN None ELSE Some(hz)
              [] OTHER -> TRUE

(* The period a pulse train reports is the one it has (commands.rs:3-4).   *)
PeriodAsReported ==
    reply.ok /\ reply.op = "pulse" => Len(playing.samples) * TickPs(Sysclk) = reply.periodPs

=============================================================================
