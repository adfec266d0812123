---------------------------------- MODULE Powers ----------------------------------
(***************************************************************************)
(* The shifts of pattern.rs and parse.rs, and the tenths of hz_arg, as     *)
(* powers: a recursive function, which proofs can follow step by step.     *)
(***************************************************************************)
EXTENDS Integers

Power(b, n) == LET power[i \in 0 .. n] == IF i = 0 THEN 1 ELSE b * power[i - 1]
               IN  power[n]

=============================================================================
