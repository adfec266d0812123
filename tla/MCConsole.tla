------------------------------- MODULE MCConsole -------------------------------
(* Lines of two bytes, packets of up to two, and a serial port that      *)
(* holds two: the banner never fits, a reply fits whole or not.  Five      *)
(* bytes are a line too long, a backspace and its end, or two lines.       *)
EXTENDS Console

MCSize == [banner |-> 3, text |-> 1, reply |-> 2, eol |-> 1, toolong |-> 2]
MCLong == {<<"a">>}

=============================================================================
