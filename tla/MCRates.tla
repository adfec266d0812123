-------------------------------- MODULE MCRates --------------------------------
(* A divider of four fractional steps and an integer part of at most       *)
(* three, so that every clock has rates too fast, too slow and on the      *)
(* boundary of each; and, for the runs on the board's own numbers, its     *)
(* clock in units that keep TLC's integers small.                          *)
EXTENDS Rates

MCClocks == 1 .. 40
MCAsked == 0 .. 50

(* Kilohertz: 150 MHz, and I2C rates around 100 kHz. *)
KiloClocks == {150000}
KiloAsked == 90 .. 110

(* Units of 50 MHz: 150 MHz, and pulses of up to 28 microseconds. *)
FiftyMegaClocks == {3}
LongPulses == {100, 1000, 10000, 26668, 28000}

=============================================================================
