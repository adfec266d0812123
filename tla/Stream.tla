-------------------------------- MODULE Stream --------------------------------
(***************************************************************************)
(* What the signal engine promises the analyzer on its pins: one source at *)
(* a time, the words of a pattern in order from the first one, none lost,  *)
(* none repeated, a looping pattern round and round; and all channels low  *)
(* between two runs.  When each word comes is left open: a streamed        *)
(* pattern may starve and hold a word too long (src/README.md:132-142).    *)
(***************************************************************************)
EXTENDS Naturals, Sequences

CONSTANTS Word, Low, Free  \* Free: the signals that need no pattern

VARIABLES
    source,  \* what is being played
    due,     \* the next word of a pattern
    wire     \* what the channels carry

Silence == [kind |-> "silence", words |-> <<>>, looping |-> FALSE]
Pattern == [kind : {"pattern"}, words : Seq(Word) \ {<<>>}, looping : BOOLEAN]
Signal == {[kind |-> "signal", words |-> <<v>>, looping |-> FALSE] : v \in Free}

Init == source = Silence /\ due = 1 /\ wire = Low

Begin ==
    /\ source = Silence
    /\ source' \in Pattern \/ source' \in Signal
    /\ due' = 1
    /\ wire' = wire

Emit ==
    /\ source.kind = "pattern"
    /\ due \in 1 .. Len(source.words)
    /\ wire' = source.words[due]
    /\ due' = IF source.looping /\ due = Len(source.words) THEN 1 ELSE due + 1
    /\ source' = source

EmitSignal ==
    /\ source.kind = "signal"
    /\ wire' = source.words[1]
    /\ UNCHANGED <<source, due>>

End == source' = Silence /\ due' = 1 /\ wire' = Low

Next == Begin \/ Emit \/ EmitSignal \/ End

Spec == Init /\ [][Next]_<<source, due, wire>>

=============================================================================
