-------------------------------- MODULE MCSynth --------------------------------
(* A bus of three channels and a buffer of twelve samples; a divider of    *)
(* four fractional steps and an integer part of at most three, whose rates *)
(* go from 32 to 137, a tick of two nanoseconds, and k and M of 10 and     *)
(* 1000.  The lines: every token of up to three characters, and some of    *)
(* four and five, that figures, suffixes, prefixes and separators make, as *)
(* the arguments of `count`, ten to a line, of which it reads the first;   *)
(* the other commands with arguments on both sides of each of their        *)
(* conditions.                                                             *)
EXTENDS Synth

(* The decimal token of a number below a hundred. *)
Figure == <<"0", "1", "2", "3", "4", "5", "6", "7", "8", "9">>
Dec(n) == IF n < 10 THEN <<Figure[n + 1]>> ELSE <<Figure[(n \div 10) + 1], Figure[(n % 10) + 1]>>

(* The ends of the tokens of a line, and their beginnings. *)
Letters == <<"0", "1", "4", "_", "k", "M", "x", "b", "B", "F">>
Stems ==
    UNION {[1 .. n -> ToSet(Letters)] : n \in 0 .. 2}
    \cup {<<"1", a, b>> : a \in {"0", "1", "k", "M"}, b \in {"0", "1", "k", "M"}}
    \cup {<<"0", x, d>> : x \in {"x", "X"}, d \in {"1", "D"}}
    \cup {<<"0", "X", "4", "c">>, <<"0", "B", "1", "_", "1">>}

Line(op, args) == [op |-> op, args |-> args]
Lines(op, first, second) == {Line(op, <<a, b>>) : a \in first, b \in second}

ChannelTokens == {Dec(0), Dec(2), Dec(3)}
TickTokens == {Dec(n) : n \in {0, 1, 2, 10, 11}}

OneShots ==
    Lines("glitch", {Dec(0)}, TickTokens \cup {<<"x">>}) \cup Lines("glitch", ChannelTokens, {Dec(2)})
    \cup {Line("skew", <<Dec(a), Dec(b), Dec(n)>>) : a \in {0, 3}, b \in {0, 1}, n \in {0, 1, 5, 6}}
    \cup {Line("glitch", <<Dec(1)>>), Line("skew", <<Dec(0), Dec(1)>>)}

(* High and period, in nanoseconds; 2 to a tick. *)
Pulses ==
    {Line("pulse", <<Dec(1), Dec(h), Dec(p)>>) : h \in {0, 4, 5}, p \in {4, 6, 26}}
    \cup {Line("pulse", <<Dec(1), Dec(4), Dec(24)>>), Line("pulse", <<Dec(1), Dec(4)>>), Line("pulse", <<Dec(3), Dec(4), Dec(8)>>)}

SweepLines ==
    UNION {Lines(op, {Dec(hz) : hz \in {6, 16, 40}}, {Dec(w) : w \in {1, 3}}) \cup {Line(op, <<Dec(40)>>)}
           : op \in Sweeps}
    \cup Lines("gray", {Dec(13)}, {Dec(2)})
    \cup Lines("ramp", {Dec(0), Dec(5), Dec(99), <<"1", "M">>, <<"4", "M">>}, {Dec(1)})
    \cup Lines("walk", {Dec(40)}, {Dec(0), Dec(2), Dec(4), <<"x">>})
    \cup {Line("walkz", <<>>), Line("walkz", <<<<"x">>>>)}

Loads ==
    {Line("load", args) :
        args \in {<<>>, <<Dec(5)>>, <<Dec(1), Dec(2), Dec(7)>>, <<Dec(1), Dec(8)>>, <<Dec(4), Dec(2), <<"_">>>>,
                  <<Dec(1), Dec(2), Dec(3), Dec(0)>>, <<Dec(1), Dec(2), Dec(3), Dec(0), Dec(1)>>}}
    \cup Lines("play", {Dec(16), Dec(40), <<"4", "k">>, <<"1", "k", "2">>}, {<<"l", "o", "o", "p">>, Dec(1)})
    \cup {Line("play", <<>>), Line("play", <<Dec(40)>>), Line("play", <<Dec(0)>>), Line("play", <<<<"_">>>>)}

Toggles ==
    Lines("square", {Dec(2), Dec(3)}, {Dec(20), Dec(10), <<"1", "M">>})
    \cup Lines("toggle", {<<"a", "l", "l">>, <<"A", "l", "L">>, Dec(0), Dec(8), <<"x">>}, {Dec(20), Dec(10), <<"k">>})
    \cup {Line("toggle", <<<<"0", "X", "7">>, Dec(20)>>)}
    \cup {Line("square", <<Dec(0)>>), Line("toggle", <<Dec(1)>>)}

MCRequests ==
    {Line("stop", <<>>), Line("count", <<>>), Line("stop", Copies(Dec(0), MaxTokens))}
    \cup {Line("count", [i \in 1 .. Len(Letters) |-> Append(s, Letters[i])]) : s \in Stems}
    \cup OneShots \cup Pulses \cup SweepLines \cup Loads \cup Toggles

=============================================================================
