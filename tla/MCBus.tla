--------------------------------- MODULE MCBus ---------------------------------
(* A buffer of three words and a FIFO of two: a pattern of two words fits  *)
(* the FIFO when one-shot, one of three never does, one of four does not   *)
(* fit the buffer.                                                         *)
EXTENDS Bus

CONSTANTS low, seed, wave, codes, a, b, c, d, e

MCWord == {low, seed, a, b, c, d, e}
MCLoads == {<<>>, <<a, b>>, <<c, d, e>>, <<a, b, c, d>>}

MCFewLoads == {<<a>>, <<b, c>>}

=============================================================================
