-------------------------------- MODULE MCProto --------------------------------
(* Bytes of two bits and a FIFO of two of them: a payload of three needs a *)
(* second service to be queued, one of four is too long.                   *)
EXTENDS Proto

A == <<0, 1>>
B == <<1, 0>>
C == <<1, 1>>

MCPayloads == {<<>>, <<B>>, <<A, B, C>>, <<A, B, C, A>>}
MCAddresses == {A, B}

=============================================================================
